---------------------------- MODULE MCIpcChannel ----------------------------
(* Symmetric callers for the safety run of IpcChannel. *)
EXTENDS IpcChannel, TLC

CallerSymmetry == Permutations(Requests)
=============================================================================
