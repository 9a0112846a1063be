-------------------------- MODULE MCSourceCodeFixer --------------------------
(* Every diagnostic with one fix on a short text (the mark's offset         *)
(* -1 included), and pairs of fixes of one diagnostic that do not overlap.  *)
EXTENDS SourceCodeFixer

FixTexts == {<<>>, <<"x">>, <<BOM>>}
Fix == {[pos |-> p, end |-> e, text |-> t] : p \in {-1}, e \in 0 .. Length, t \in FixTexts}
       \union {[pos |-> p, end |-> e, text |-> t] : p \in 0 .. Length, e \in 0 .. Length, t \in FixTexts}
SingleFix == {<<fix>> : fix \in Fix}
TwoFixes == {<<[pos |-> p, end |-> p, text |-> <<"y">>], [pos |-> q, end |-> e, text |-> <<"z">>]>> :
                p \in 0 .. 1, q \in 1 .. Length, e \in 1 .. Length}
MCDiags == SingleFix \union {d \in TwoFixes : Sorted(d) /\ ~Inverted(d)}
=============================================================================
