---------------------------- MODULE MCWorkerPool ----------------------------
(***************************************************************************)
(* Instances of WorkerPool for TLC.                                        *)
(***************************************************************************)
EXTENDS WorkerPool

CONSTANTS w1, w2

MCOne == {w1}
MCTwo == {w1, w2}

\* Threads are interchangeable.
Interchangeable == Permutations({w1, w2})

\* Every task can be cloned, or the second one cannot.
NoPoison == {}
SecondIsPoison == {2}
=============================================================================
