---------------------------- MODULE MCCliSession ----------------------------
(* Every kind of run, for TLC.                                               *)
EXTENDS CliSession

Everything == {"lint", "help", "init"}
=============================================================================
