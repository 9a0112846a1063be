--------------------------- MODULE SourceCodeFixer ---------------------------
(***************************************************************************)
(* ApplyRuleFixes (internal/linter/source_code_fixer.go): one pass over a  *)
(* file's diagnostics that applies the fixes that do not conflict and      *)
(* leaves the others for a later round. Each step handles one diagnostic,  *)
(* in the order of the sort; the result is compared with a definition of   *)
(* what applying a set of edits at once means.                             *)
(*                                                                         *)
(* The text has Length characters; the character at offset p is p itself,  *)
(* so that any loss, duplication or reordering shows. A byte order mark    *)
(* sits at offset -1 and is no part of the text.                           *)
(***************************************************************************)
EXTENDS Integers, Sequences, SequencesExt

CONSTANTS Length,   \* characters in the text
          Diags,    \* diagnostics: sequences of fixes, sorted as the code sorts them
          MaxDiags  \* diagnostics of the file

BOM == "bom"

\* slices.SortFunc on one diagnostic's fixes. The fixes of one diagnostic do
\* not overlap one another: the code never compares them.
Sorted(fixes) ==
    \A i, j \in DOMAIN fixes : i < j =>
        /\ fixes[i].pos < fixes[j].pos \/ (fixes[i].pos = fixes[j].pos /\ fixes[i].end <= fixes[j].end)
        /\ fixes[i].end <= fixes[j].pos

ASSUME DiagsAssumption == \A d \in Diags : d # <<>> /\ Sorted(d)

VARIABLES mark,       \* the file had a byte order mark
          withFixes,  \* the diagnostics in sort order
          next,       \* the one handled next
          bom,        \* the mark survives
          builder,    \* text written so far
          lastFixEnd, lastWasInsertion, fixed,
          applied     \* indices of the applied diagnostics; the others are unapplied

vars == <<mark, withFixes, next, bom, builder, lastFixEnd, lastWasInsertion, fixed, applied>>

\* The sort of the diagnostics: by first start, then by last end; ties are in
\* no particular order.
Before(d, e) ==
    d[1].pos < e[1].pos \/ (d[1].pos = e[1].pos /\ Last(d).end <= Last(e).end)

\* lastFixEnd before the first fix.
NoFixYet == -1

Init ==
    /\ mark \in BOOLEAN
    /\ withFixes \in {s \in SeqOf(Diags, MaxDiags) : \A i \in 1 .. Len(s) - 1 : Before(s[i], s[i + 1])}
    /\ next = 1
    /\ bom = mark
    /\ builder = <<>>
    /\ lastFixEnd = NoFixYet
    /\ lastWasInsertion = FALSE
    /\ fixed = FALSE
    /\ applied = {}

Insertion(fix) == fix.pos = fix.end
Inverted(d) == \E i \in DOMAIN d : d[i].pos > d[i].end

\* text[max(0, from):max(0, to)]
Slice(from, to) ==
    LET lo == IF from < 0 THEN 0 ELSE from
        hi == IF to < 0 THEN 0 ELSE to
    IN  [i \in 1 .. hi - lo |-> lo + i - 1]

\* Mutant: insertions may touch another edit.
ConflictsInside(d) == lastFixEnd > d[1].pos
Conflicts(d) ==
    \/ lastFixEnd > d[1].pos
    \/ fixed /\ lastFixEnd = d[1].pos /\ (Insertion(d[1]) \/ lastWasInsertion)

\* A fix that reaches back over the mark, or writes its own at the start.
CutsMark(fix) == (fix.pos < 0 /\ fix.end >= 0) \/ (fix.pos = 0 /\ fix.text # <<>> /\ fix.text[1] = BOM)

\* The text between two fixes, and then the fix.
\* Mutant: the text before the first fix of a diagnostic is not copied.
PieceFromFix(d, i) == (IF i = 1 THEN <<>> ELSE Slice(d[i - 1].end, d[i].pos)) \o d[i].text
Piece(d, i) == Slice(IF i = 1 THEN lastFixEnd ELSE d[i - 1].end, d[i].pos) \o d[i].text

\* All the fixes of one diagnostic, or none.
Handle ==
    /\ next <= Len(withFixes)
    /\ next' = next + 1
    /\ LET d == withFixes[next]
       IN  IF Conflicts(d) \/ Inverted(d)
           THEN UNCHANGED <<bom, builder, lastFixEnd, lastWasInsertion, fixed, applied>>
           ELSE /\ fixed' = TRUE
                /\ lastWasInsertion' = Insertion(Last(d))
                /\ bom' = (bom /\ \A i \in DOMAIN d : ~CutsMark(d[i]))
                /\ builder' = builder \o FlattenSeq([i \in DOMAIN d |-> Piece(d, i)])
                /\ lastFixEnd' = Last(d).end
                /\ applied' = applied \union {next}
    /\ UNCHANGED <<mark, withFixes>>

Done == next > Len(withFixes) /\ UNCHANGED vars

Next == Handle \/ Done

Spec == Init /\ [][Next]_vars

-----------------------------------------------------------------------------
\* builder, with the rest of the text once all diagnostics are handled.
Output == (IF bom THEN <<BOM>> ELSE <<>>) \o builder \o Slice(lastFixEnd, Length)
Handled == next > Len(withFixes)

(* What it means to apply edits all at once: at each offset, the texts of   *)
(* the edits that start there and the character that no edit replaces.      *)
Edits == FlattenSeq([i \in 1 .. Len(withFixes) |-> IF i \in applied THEN withFixes[i] ELSE <<>>])
Replaced(p) == \E i \in DOMAIN Edits : Edits[i].pos <= p /\ p < Edits[i].end
Starting(p) == SelectSeq(Edits, LAMBDA fix : fix.pos = p \/ (p = 0 /\ fix.pos < 0))
AtOnce ==
    (IF mark /\ ~Replaced(-1) /\ ~\E i \in DOMAIN Edits : CutsMark(Edits[i]) THEN <<BOM>> ELSE <<>>) \o
    FlattenSeq([n \in 1 .. Length + 1 |->
        LET p == n - 1
        IN  FlattenSeq([i \in DOMAIN Starting(p) |-> Starting(p)[i].text]) \o
            (IF p < Length /\ ~Replaced(p) THEN <<p>> ELSE <<>>)])

(* Two diagnostics whose edits, first start to last end, overlap, or touch  *)
(* at an offset where one of them inserts.                                 *)
Clash(d, e) ==
    \/ d[1].pos < Last(e).end /\ e[1].pos < Last(d).end
    \/ Last(d).end = e[1].pos /\ (Insertion(Last(d)) \/ Insertion(e[1]))
    \/ Last(e).end = d[1].pos /\ (Insertion(Last(e)) \/ Insertion(d[1]))

(* The text ApplyRuleFixes returns is the file with the applied edits made  *)
(* at once: no character lost, doubled or moved, the mark only cut by an   *)
(* edit that covers it or brings its own.                                  *)
AppliesAtOnce == Handled => Output = AtOnce

(* Two applied diagnostics never clash, so the order in which a tie was    *)
(* sorted cannot show in the text outside their own edits; and a fix waits *)
(* for a later round only if it is malformed or clashes with an applied    *)
(* one: a round with a well-formed fix makes progress, which the bounded   *)
(* fix rounds depend on.                                                   *)
ExactlyClashesWait ==
    /\ \A i, j \in applied : i # j => ~Clash(withFixes[i], withFixes[j])
    /\ \A i \in (1 .. next - 1) \ applied :
          Inverted(withFixes[i]) \/ \E j \in applied : Clash(withFixes[i], withFixes[j])
=============================================================================
