------------------------ MODULE MCConfigTransaction ------------------------
(***************************************************************************)
(* Instances of ConfigTransaction for TLC.                                 *)
(***************************************************************************)
EXTENDS ConfigTransaction

CONSTANTS a, b

Mounted == {a, b}

\* Two sets of plugins differ in nothing but their name.
Interchangeable == Permutations({a, b})
=============================================================================
