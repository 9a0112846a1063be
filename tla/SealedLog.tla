------------------------------ MODULE SealedLog ------------------------------
(***************************************************************************)
(* What a framed byte stream promises its reader: entries are only ever    *)
(* appended, nothing follows an entry that ends the stream, and once the   *)
(* log is sealed it never changes again.                                   *)
(***************************************************************************)
EXTENDS Integers, Sequences

CONSTANT Ends(_)   \* does this entry end the stream?

VARIABLES log, sealed

logVars == <<log, sealed>>

Init == log = <<>> /\ sealed = FALSE

Open == ~sealed /\ (log # <<>> => ~Ends(log[Len(log)]))

Extend == /\ Open
          /\ Len(log') = Len(log) + 1
          /\ \A i \in 1..Len(log) : log'[i] = log[i]
          /\ sealed' = sealed

Seal == ~sealed /\ sealed' = TRUE /\ log' = log

Next == Extend \/ Seal

Spec == Init /\ [][Next]_logVars
=============================================================================
