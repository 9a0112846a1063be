-------------------------- MODULE MCLspDiagnostics --------------------------
(* Small instances of LspDiagnostics. *)
EXTENDS LspDiagnostics
=============================================================================
