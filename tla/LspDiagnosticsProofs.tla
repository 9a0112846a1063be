------------------------ MODULE LspDiagnosticsProofs ------------------------
(***************************************************************************)
(* The language server's diagnostics for any documents, queue capacities   *)
(* and number of messages.  A result under way carries the generation of   *)
(* the document it was made for; the invariants say that a result whose    *)
(* generation is still the document's belongs to the diagnostics that are  *)
(* stored, and that stored diagnostics are of the present text and view    *)
(* unless the handler on the dispatch loop is about to replace them.       *)
(***************************************************************************)
EXTENDS LspDiagnostics, FiniteSetTheorems, WellFoundedInduction, TLAPS

Sources == [text : Nat, view : Nat]
Reports == [text : Nat, view : Nat, native : BOOLEAN, plugin : Seq(Sources)]
Results == [uri : Docs, generation : Nat, text : Nat, view : Nat]

Posts == [op : {"open", "change", "save", "close", "fixAll", "watched", "configRefresh"},
          doc : Docs, text : Nat \ {0}]
Replies == [op : {"answer"}, id : Nat]
Asks == [op : {"call", "cancel"}, id : Nat]
Notices == [op : {"publish"}, doc : Docs, report : Reports]
Responses == [op : {"fixed", "refreshed"}, doc : Docs]

Tasks == [op : {"push", "drop", "lint", "republish", "commit"}, doc : Docs]
Answers == [op : {"respond"}, to : {"fixed", "refreshed"}, doc : Docs]

Calls == [kind : {"enrich", "fixAll", "config"},
          pc : {"queue", "wait", "answered", "deliver", "blocked"},
          ctxDone : BOOLEAN, result : Results \cup {NoResult}]

EditorType == editor \in [text : [Docs -> Nat], shown : [Docs -> Reports],
                          fixing : [Docs -> {"no", "asked", "answered"}]]
StoreType == store \in [documents : [Docs -> Nat], diagnostics : [Docs -> Reports],
                        docGeneration : [Docs -> Nat], pendingLintURIs : SUBSET Docs, view : Nat]
QueueType == /\ inbound \in Seq(Posts \cup Replies)
             /\ outgoingQueue \in Seq(Asks \cup Notices \cup Responses)
             /\ pluginResultCh \in Seq(Results)
CallType == /\ DOMAIN calls \subseteq Nat /\ IsFiniteSet(DOMAIN calls)
            /\ calls \in [DOMAIN calls -> Calls]
            /\ \A i \in DOMAIN calls : /\ calls[i].kind = "enrich" => calls[i].result \in Results
                                       /\ calls[i].pc \in {"deliver", "blocked"} => calls[i].kind = "enrich"
LoopType == /\ work \subseteq Tasks \cup Answers /\ awaiting \in Nat /\ inflight \in [Docs -> Nat]
            /\ asked \subseteq Nat /\ IsFiniteSet(asked) /\ sends \in Nat

\* The loops' maps, queues, calls and positions keep their shapes.
LspType == EditorType /\ StoreType /\ QueueType /\ CallType /\ LoopType

-----------------------------------------------------------------------------
(* The order in which the editor's messages reach the server.              *)

Opens(m, d) == m.op \in {"open", "change"} /\ m.doc = d
Closes(m, d) == m.op = "close" /\ m.doc = d

\* The document is open when the server, with the documents O open, has handled the first k - 1
\* messages of q.
OpenAfter(q, O, d, k) ==
    \/ \E j \in 1..(k - 1) : Opens(q[j], d) /\ \A i \in j..(k - 1) : ~Closes(q[i], d)
    \/ d \in O /\ \A i \in 1..(k - 1) : ~Closes(q[i], d)

\* A save finds its document open, and so does whatever the editor, with these texts, sends next.
Consistent(q, text, O) ==
    /\ \A k \in 1..Len(q) : q[k].op = "save" => OpenAfter(q, O, q[k].doc, k)
    /\ \A d \in Docs : text[d] # Closed => OpenAfter(q, O, d, Len(q) + 1)

ProtocolInv == Consistent(inbound, editor.text, OpenDocs)

IsOpen(d) == store.documents[d] # Closed

-----------------------------------------------------------------------------
(* Stored diagnostics and results under way.                               *)

Doing(ops, d) == \E w \in work : w.op \in ops /\ w.doc = d

Sound(s, text, view) ==
    s # Empty => /\ s.native /\ s.text = text /\ s.view = view
                 /\ Len(s.plugin) <= 1
                 /\ \A k \in DOMAIN s.plugin : s.plugin[k] = [text |-> s.text, view |-> s.view]

\* What is stored is current, or the running handler is about to replace it.
FreshInv == \A d \in Docs :
    Doing({"push", "lint", "drop"}, d) \/ Sound(store.diagnostics[d], store.documents[d], store.view)

\* A closed document has no diagnostics and nothing will lint it.
ClosedInv == \A d \in Docs : ~IsOpen(d) =>
    /\ store.diagnostics[d] = Empty /\ d \notin store.pendingLintURIs
    /\ ~Doing({"push", "lint"}, d)

\* A result of the document's generation is of the stored diagnostics, and not yet merged.
Timely(r) ==
    /\ r.generation <= store.docGeneration[r.uri]
    /\ r.generation = store.docGeneration[r.uri] =>
          /\ store.diagnostics[r.uri].native /\ store.diagnostics[r.uri].plugin = <<>>
          /\ store.diagnostics[r.uri].text = r.text /\ store.diagnostics[r.uri].view = r.view
          /\ ~Doing({"lint"}, r.uri)

Enriching == {i \in DOMAIN calls : calls[i].kind = "enrich"}

ResultsInv == /\ \A k \in DOMAIN pluginResultCh : Timely(pluginResultCh[k])
              /\ \A i \in Enriching : Timely(calls[i].result)

Same(r, q) == r.uri = q.uri /\ r.generation = q.generation

\* A generation of a document has one result under way.
OnceInv == /\ \A k, l \in DOMAIN pluginResultCh : Same(pluginResultCh[k], pluginResultCh[l]) => k = l
           /\ \A k \in DOMAIN pluginResultCh, i \in Enriching : ~Same(pluginResultCh[k], calls[i].result)
           /\ \A i, j \in Enriching : Same(calls[i].result, calls[j].result) => i = j

\* A config refresh has the loop to itself until its snapshot is committed.
CommitAlone == \A w \in work : w.op = "commit" => work = {w}

DiagnosticsInv == FreshInv /\ ClosedInv /\ ResultsInv /\ OnceInv /\ CommitAlone

StoreInv == LspType /\ ProtocolInv /\ DiagnosticsInv

\* The editor will show what is stored, or the running handler is about to publish it.
MirrorInv == \A d \in Docs :
    \/ Doing({"republish"}, d)
    \/ /\ store.diagnostics[d] # Empty => LastPublished(d) = store.diagnostics[d]
       /\ ~IsOpen(d) => LastPublished(d) = Empty

-----------------------------------------------------------------------------
(* Sequences, and the ids of reverse requests.                             *)

\* What an appended sequence holds.
LEMMA AppendFacts ==
    ASSUME NEW S, NEW s \in Seq(S), NEW e \in S
    PROVE  /\ Append(s, e) \in Seq(S)
           /\ Len(s) \in Nat /\ Len(Append(s, e)) = Len(s) + 1
           /\ \A i \in 1..Len(s) : Append(s, e)[i] = s[i]
           /\ Append(s, e)[Len(s) + 1] = e
OBVIOUS

\* What is left when the head is taken.
LEMMA TailFacts ==
    ASSUME NEW S, NEW s \in Seq(S), s # <<>>
    PROVE  /\ Head(s) \in S /\ Head(s) = s[1]
           /\ Tail(s) \in Seq(S) /\ Len(s) \in Nat \ {0} /\ Len(Tail(s)) = Len(s) - 1
           /\ \A i \in 1..Len(Tail(s)) : Tail(s)[i] = s[i + 1]
OBVIOUS

Less == {ss \in Nat \X Nat : ss[1] < ss[2]}

\* A set of naturals that is not empty has a least element.
LEMMA LeastExists ==
    ASSUME NEW S \in SUBSET Nat, S # {}
    PROVE  \E x \in S : \A y \in S : x <= y
<1>1. Less = OpToRel(<, Nat)
  BY DEF Less, OpToRel
<1>2. IsWellFoundedOn(Less, Nat)
  BY <1>1, NatLessThanWellFounded
<1>3. PICK x \in S : \A y \in S : ~ (<<y, x>> \in Less)
  BY <1>2, WFMin
<1>4. ASSUME NEW y \in S PROVE x <= y
  <2>1. x \in Nat /\ y \in Nat /\ ~ (<<y, x>> \in Less)
    BY <1>3
  <2> QED BY <2>1 DEF Less
<1> QED BY <1>4

\* A set of positions that is not empty has a last one.
LEMMA LastExists ==
    ASSUME NEW n \in Nat, NEW S \in SUBSET (1..n), S # {}
    PROVE  Max(S) \in S /\ \A y \in S : Max(S) >= y
<1> DEFINE D == {n - k : k \in S}
<1>0. \A k \in S : k \in Nat /\ k <= n /\ n - k \in Nat /\ n - k \in D
  OBVIOUS
<1>1. D \in SUBSET Nat /\ D # {}
  BY <1>0
<1>2. PICK x \in D : \A y \in D : x <= y
  BY <1>1, LeastExists
<1>3. PICK k \in S : x = n - k
  BY <1>2
<1>4. ASSUME NEW y \in S PROVE k >= y
  <2>1. n - k <= n - y
    BY <1>0, <1>2, <1>3
  <2> QED BY <1>0, <2>1
<1> QED BY <1>3, <1>4 DEF Max

\* The entries of a sequence are finitely many.
LEMMA RangeFinite ==
    ASSUME NEW S, NEW s \in Seq(S)
    PROVE  IsFiniteSet(Range(s)) /\ Range(s) \subseteq S
<1> DEFINE n == Len(s)
<1>1. n \in Nat /\ DOMAIN s = 1..n /\ \A i \in 1..n : s[i] \in S
  OBVIOUS
<1>2. IsFiniteSet(1..n)
  BY <1>1, FS_Interval
<1>3. s \in Surjection(1..n, Range(s))
  BY <1>1 DEF Surjection, Range
<1>4. IsFiniteSet(Range(s))
  BY <1>2, <1>3, FS_Surjection
<1> QED BY <1>1, <1>4 DEF Range

\* The next id is one that nobody holds.
LEMMA NextIdFresh ==
    ASSUME LspType
    PROVE  NextId \in Nat \ {0} /\ NextId \notin Held
<1> DEFINE R == Range(outgoingQueue) \cup Range(inbound)
           M == {x \in R : x.op \in {"call", "cancel", "answer"}}
           I == {m.id : m \in M}
           f == [m \in M |-> m.id]
<1>1. /\ IsFiniteSet(Range(outgoingQueue)) /\ Range(outgoingQueue) \subseteq Asks \cup Notices \cup Responses
      /\ IsFiniteSet(Range(inbound)) /\ Range(inbound) \subseteq Posts \cup Replies
  BY RangeFinite DEF LspType, QueueType
<1>2. IsFiniteSet(R)
  BY <1>1, FS_Union
<1>3. IsFiniteSet(M)
  BY <1>2, FS_Subset
<1>4. f \in Surjection(M, I)
  BY DEF Surjection
<1>5. IsFiniteSet(I)
  BY <1>3, <1>4, FS_Surjection
<1>6. IsFiniteSet(DOMAIN calls) /\ IsFiniteSet(asked) /\ IsFiniteSet({awaiting})
  BY FS_Singleton DEF LspType, CallType, LoopType
<1>7. Held = {awaiting} \cup DOMAIN calls \cup asked \cup I
  BY DEF Held
<1>8. IsFiniteSet({awaiting} \cup DOMAIN calls)
  BY <1>6, FS_Union
<1>9. IsFiniteSet({awaiting} \cup DOMAIN calls \cup asked)
  BY <1>6, <1>8, FS_Union
<1>10. IsFiniteSet(Held)
  BY <1>5, <1>7, <1>9, FS_Union
<1> DEFINE c == Cardinality(Held)
<1>11. c \in Nat
  BY <1>10, FS_CardinalityType
<1>12. ~(1..(c + 1) \subseteq Held)
  <2> SUFFICES ASSUME 1..(c + 1) \subseteq Held PROVE FALSE
    OBVIOUS
  <2>1. Cardinality(1..(c + 1)) <= c
    BY <1>10, FS_Subset
  <2>2. Cardinality(1..(c + 1)) = c + 1
    BY <1>11, FS_Interval
  <2> QED BY <1>11, <2>1, <2>2
<1> DEFINE F == 1..(c + 1) \ Held
<1>13. PICK x \in F : TRUE
  BY <1>12
<1>14. F \subseteq Nat
  BY <1>11
<1>15. \E y \in F : \A z \in F : y <= z
  BY <1>13, <1>14, LeastExists
<1>16. Min(F) \in F
  BY <1>15 DEF Min
<1>17. NextId = Min(F)
  BY DEF NextId
<1> QED BY <1>11, <1>16, <1>17

-----------------------------------------------------------------------------
(* The calls under way.                                                    *)

\* No result is added to those under way.
KeepsResults == \A i \in Enriching' : i \in Enriching /\ calls'[i].result = calls[i].result

\* A goroutine that ends takes its call with it.
LEMMA FinishFacts ==
    ASSUME LspType, NEW i \in DOMAIN calls, Finish(i)
    PROVE  /\ CallType' /\ inflight' \in [Docs -> Nat] /\ KeepsResults
           /\ DOMAIN calls' = DOMAIN calls \ {i}
           /\ \A j \in DOMAIN calls' : calls'[j] = calls[j]
<1>1. DOMAIN calls' = DOMAIN calls \ {i} /\ \A j \in DOMAIN calls' : calls'[j] = calls[j]
  BY DEF Finish
<1>2. IsFiniteSet(DOMAIN calls')
  BY <1>1, FS_RemoveElement DEF LspType, CallType
<1>3. calls' \in [DOMAIN calls' -> Calls]
  BY <1>1 DEF Finish, LspType, CallType
<1>4. CallType'
  BY <1>1, <1>2, <1>3 DEF LspType, CallType
<1>5. inflight' \in [Docs -> Nat]
  BY DEF Finish, NoCall, LspType, LoopType
<1>6. KeepsResults
  BY <1>1 DEF KeepsResults, Enriching
<1> QED BY <1>1, <1>4, <1>5, <1>6

\* Moving a call to another place changes neither its kind nor its result.
LEMMA MoveFacts ==
    ASSUME LspType, NEW i, NEW where \in {"queue", "wait", "answered", "deliver", "blocked"},
           i \in DOMAIN calls /\ where \in {"deliver", "blocked"} => calls[i].kind = "enrich",
           calls' = [calls EXCEPT ![i].pc = where]
    PROVE  CallType' /\ KeepsResults /\ DOMAIN calls' = DOMAIN calls
<1>1. DOMAIN calls' = DOMAIN calls
  OBVIOUS
<1>2. ASSUME NEW j \in DOMAIN calls
      PROVE  /\ calls'[j] \in Calls /\ calls'[j].kind = calls[j].kind /\ calls'[j].result = calls[j].result
             /\ calls'[j].pc = IF j = i THEN where ELSE calls[j].pc
  <2>1. calls[j] \in Calls /\ calls'[j] = IF j = i THEN [calls[j] EXCEPT !.pc = where] ELSE calls[j]
    BY DEF LspType, CallType
  <2> QED BY <2>1 DEF Calls
<1>3. calls' \in [DOMAIN calls' -> Calls]
  <2>1. calls' = [j \in DOMAIN calls |-> calls'[j]]
    OBVIOUS
  <2> QED BY <1>1, <1>2, <2>1
<1>4. CallType'
  BY <1>1, <1>2, <1>3 DEF LspType, CallType
<1> QED BY <1>1, <1>2, <1>4 DEF KeepsResults, Enriching

\* Cancelling a goroutine's context changes neither its kind nor its result.
LEMMA CancelFacts ==
    ASSUME LspType, NEW d \in Docs, CancelInflight(d)
    PROVE  /\ CallType' /\ KeepsResults /\ DOMAIN calls' = DOMAIN calls
           /\ inflight' \in [Docs -> Nat] /\ awaiting' \in Nat
<1> DEFINE i == inflight[d]
<1>1. inflight' \in [Docs -> Nat] /\ awaiting' \in Nat
  BY DEF CancelInflight, NoCall, LspType, LoopType
<1>2. CASE calls' = calls
  BY <1>1, <1>2 DEF LspType, CallType, KeepsResults, Enriching
<1>3. CASE calls' = [calls EXCEPT ![i].ctxDone = TRUE]
  <2> HIDE DEF i
  <2>1. DOMAIN calls' = DOMAIN calls
    BY <1>3
  <2>2. ASSUME NEW j \in DOMAIN calls
        PROVE  /\ calls'[j] \in Calls /\ calls'[j].kind = calls[j].kind
               /\ calls'[j].result = calls[j].result /\ calls'[j].pc = calls[j].pc
    <3>1. calls[j] \in Calls /\ calls'[j] = IF j = i THEN [calls[j] EXCEPT !.ctxDone = TRUE] ELSE calls[j]
      BY <1>3 DEF LspType, CallType
    <3> QED BY <3>1 DEF Calls
  <2>3. calls' \in [DOMAIN calls' -> Calls]
    <3>1. calls' = [j \in DOMAIN calls |-> calls'[j]]
      BY <1>3
    <3> QED BY <2>1, <2>2, <3>1
  <2>4. CallType'
    BY <2>1, <2>2, <2>3 DEF LspType, CallType
  <2> QED BY <1>1, <2>1, <2>2, <2>4 DEF KeepsResults, Enriching
<1> QED BY <1>2, <1>3 DEF CancelInflight

\* A new call gets an id of its own.
LEMMA StartFacts ==
    ASSUME LspType, NEW kind \in {"enrich", "fixAll", "config"}, NEW result \in Results \cup {NoResult},
           kind = "enrich" => result \in Results, calls' = Started(Call(kind, result))
    PROVE  /\ CallType' /\ NextId \in Nat /\ NextId \notin DOMAIN calls
           /\ DOMAIN calls' = DOMAIN calls \cup {NextId}
           /\ calls'[NextId].kind = kind /\ calls'[NextId].result = result
           /\ \A j \in DOMAIN calls : calls'[j] = calls[j]
<1> DEFINE n == NextId
           c == Call(kind, result)
<1>1. n \in Nat /\ n \notin DOMAIN calls
  BY NextIdFresh DEF Held
<1>2. c \in Calls /\ c.kind = kind /\ c.result = result /\ c.pc = "queue"
  BY DEF Call, Calls
<1>3. calls' = [j \in DOMAIN calls \cup {n} |-> IF j = n THEN c ELSE calls[j]]
  BY DEF Started
<1> HIDE DEF n, c
<1>4. /\ DOMAIN calls' = DOMAIN calls \cup {n} /\ calls'[n] = c
      /\ \A j \in DOMAIN calls : calls'[j] = calls[j]
  BY <1>1, <1>3
<1>5. IsFiniteSet(DOMAIN calls')
  BY <1>4, FS_AddElement DEF LspType, CallType
<1>6. calls' \in [DOMAIN calls' -> Calls]
  <2>1. \A j \in DOMAIN calls' : calls'[j] \in Calls
    BY <1>2, <1>4 DEF LspType, CallType
  <2> QED BY <1>3, <1>4, <2>1
<1>7. CallType'
  BY <1>1, <1>2, <1>4, <1>5, <1>6 DEF LspType, CallType
<1> QED BY <1>1, <1>2, <1>4, <1>7 DEF n

-----------------------------------------------------------------------------
(* Type correctness.                                                       *)

\* The maps of the dispatch loop, one by one.
LEMMA StoreParts ==
    StoreType <=> /\ store = [documents |-> store.documents, diagnostics |-> store.diagnostics,
                              docGeneration |-> store.docGeneration,
                              pendingLintURIs |-> store.pendingLintURIs, view |-> store.view]
                  /\ store.documents \in [Docs -> Nat] /\ store.diagnostics \in [Docs -> Reports]
                  /\ store.docGeneration \in [Docs -> Nat] /\ store.pendingLintURIs \in SUBSET Docs
                  /\ store.view \in Nat
BY DEF StoreType

\* The empty report and a merged one are reports.
LEMMA ReportTypes ==
    /\ Empty \in Reports
    /\ \A t, v \in Nat, b \in BOOLEAN : [text |-> t, view |-> v, native |-> b, plugin |-> <<>>] \in Reports
    /\ \A s \in Reports, x \in Sources : [s EXCEPT !.plugin = Append(@, x)] \in Reports
<1>1. <<>> \in Seq(Sources)
  OBVIOUS
<1>2. Empty \in Reports
  BY <1>1 DEF Empty, Reports
<1>3. \A t, v \in Nat, b \in BOOLEAN : [text |-> t, view |-> v, native |-> b, plugin |-> <<>>] \in Reports
  BY <1>1 DEF Reports
<1>4. ASSUME NEW s \in Reports, NEW x \in Sources
      PROVE  [s EXCEPT !.plugin = Append(@, x)] \in Reports
  <2>1. s.plugin \in Seq(Sources)
    BY DEF Reports
  <2>2. Append(s.plugin, x) \in Seq(Sources)
    BY <2>1
  <2> QED BY <2>2 DEF Reports
<1> QED BY <1>2, <1>3, <1>4

\* A message put into the outgoing queue.
LEMMA OutType ==
    ASSUME LspType, NEW m \in Asks \cup Notices \cup Responses, outgoingQueue' = Append(outgoingQueue, m),
           UNCHANGED <<inbound, pluginResultCh>>
    PROVE  QueueType'
BY DEF LspType, QueueType

\* A publication is a message of the outgoing queue.
LEMMA PublishType ==
    ASSUME LspType, NEW d \in Docs, NEW r \in Reports, Publish(d, r), UNCHANGED <<inbound, pluginResultCh>>
    PROVE  QueueType'
<1>1. [op |-> "publish", doc |-> d, report |-> r] \in Notices
  BY DEF Notices
<1> QED BY <1>1, OutType DEF Publish

\* The steps of a goroutine that makes a reverse request.
LEMMA CallStepType ==
    ASSUME LspType, NEW i \in DOMAIN calls, CallStep(i)
    PROVE  LspType'
<1>0. i \in Nat /\ calls[i] \in Calls
  BY DEF LspType, CallType
<1>1. EditorType' /\ StoreType' /\ UNCHANGED <<sends, inbound, asked, work, awaiting>>
  BY DEF CallStep, LspType, EditorType, StoreType
<1>2. ASSUME inflight' \in [Docs -> Nat] PROVE LoopType'
  BY <1>1, <1>2 DEF LspType, LoopType
<1>3. CASE SendCall(i)
  <2>1. [op |-> "call", id |-> i] \in Asks
    BY <1>0 DEF Asks
  <2>2. QueueType'
    BY <1>1, <1>3, <2>1, OutType DEF SendCall
  <2>3. CallType'
    BY <1>3, MoveFacts DEF SendCall
  <2>4. inflight' \in [Docs -> Nat]
    BY <1>3 DEF SendCall, LspType, LoopType
  <2> QED BY <1>1, <1>2, <2>2, <2>3, <2>4 DEF LspType
<1>4. CASE AbandonCall(i)
  <2>1. [op |-> "cancel", id |-> i] \in Asks
    BY <1>0 DEF Asks
  <2>2. QueueType'
    <3>1. CASE outgoingQueue' = outgoingQueue
      BY <1>1, <1>4, <3>1 DEF AbandonCall, LspType, QueueType
    <3>2. CASE outgoingQueue' = Append(outgoingQueue, [op |-> "cancel", id |-> i])
      BY <1>1, <1>4, <2>1, <3>2, OutType DEF AbandonCall
    <3> QED BY <1>4, <3>1, <3>2 DEF AbandonCall
  <2> QED BY <1>1, <1>2, <1>4, <2>2, FinishFacts DEF AbandonCall, LspType
<1>5. CASE TakeAnswer(i)
  <2>1. QueueType'
    BY <1>1, <1>5 DEF TakeAnswer, LspType, QueueType
  <2>2. CASE Finish(i)
    BY <1>1, <1>2, <2>1, <2>2, FinishFacts DEF LspType
  <2>3. CASE calls[i].kind = "enrich" /\ calls' = [calls EXCEPT ![i].pc = "deliver"] /\ UNCHANGED inflight
    <3>1. CallType'
      BY <2>3, MoveFacts
    <3>2. inflight' \in [Docs -> Nat]
      BY <2>3 DEF LspType, LoopType
    <3> QED BY <1>1, <1>2, <2>1, <3>1, <3>2 DEF LspType
  <2> QED BY <1>5, <2>2, <2>3 DEF TakeAnswer
<1>6. CASE DeliverResult(i)
  <2>1. calls[i].kind = "enrich" /\ calls[i].result \in Results
    BY <1>6 DEF DeliverResult, LspType, CallType
  <2>2. CASE pluginResultCh' = Append(pluginResultCh, calls[i].result) /\ Finish(i)
    <3>1. QueueType'
      BY <1>1, <1>6, <2>1, <2>2 DEF DeliverResult, LspType, QueueType
    <3> QED BY <1>1, <1>2, <2>2, <3>1, FinishFacts DEF LspType
  <2>3. CASE calls' = [calls EXCEPT ![i].pc = "blocked"] /\ UNCHANGED <<pluginResultCh, inflight>>
    <3>1. CallType'
      BY <2>1, <2>3, MoveFacts
    <3>2. inflight' \in [Docs -> Nat]
      BY <2>3 DEF LspType, LoopType
    <3>3. QueueType'
      BY <1>1, <1>6, <2>3 DEF DeliverResult, LspType, QueueType
    <3> QED BY <1>1, <1>2, <3>1, <3>2, <3>3 DEF LspType
  <2> QED BY <1>6, <2>2, <2>3 DEF DeliverResult
<1>7. CASE DropResult(i)
  <2>1. QueueType'
    BY <1>1, <1>7 DEF DropResult, LspType, QueueType
  <2> QED BY <1>1, <1>2, <1>7, <2>1, FinishFacts DEF DropResult, LspType
<1> QED BY <1>3, <1>4, <1>5, <1>6, <1>7 DEF CallStep

\* What an item of work can be.
LEMMA WorkTypes ==
    ASSUME LspType, NEW w \in work
    PROVE  /\ w.doc \in Docs
           /\ w.op # "respond" => w \in Tasks
           /\ w.op = "respond" => w \in Answers /\ w.to \in {"fixed", "refreshed"}
BY DEF LspType, LoopType, Tasks, Answers

\* The effect of Supersede on the maps.
LEMMA SupersedeStore ==
    ASSUME LspType, NEW w \in work, Supersede(w)
    PROVE  /\ StoreType'
           /\ store'.documents = store.documents /\ store'.pendingLintURIs = store.pendingLintURIs
           /\ store'.view = store.view
           /\ \A d \in Docs : /\ store'.docGeneration[d] =
                                   IF d = w.doc THEN store.docGeneration[d] + 1 ELSE store.docGeneration[d]
                              /\ store'.diagnostics[d] =
                                   IF d = w.doc /\ w.op = "drop" THEN Empty ELSE store.diagnostics[d]
<1>1. w.doc \in Docs /\ Empty \in Reports
  BY WorkTypes, ReportTypes
<1>2. /\ store.documents \in [Docs -> Nat] /\ store.diagnostics \in [Docs -> Reports]
      /\ store.docGeneration \in [Docs -> Nat]
  BY DEF LspType, StoreType
<1>3. /\ store'.docGeneration = [store.docGeneration EXCEPT ![w.doc] = @ + 1]
      /\ store'.diagnostics = [store.diagnostics EXCEPT ![w.doc] = IF w.op = "drop" THEN Empty ELSE @]
      /\ store'.documents = store.documents /\ store'.pendingLintURIs = store.pendingLintURIs
      /\ store'.view = store.view
      /\ store' = [store EXCEPT !.docGeneration = store'.docGeneration, !.diagnostics = store'.diagnostics]
  BY DEF Supersede, LspType, StoreType
<1>4. store'.docGeneration \in [Docs -> Nat] /\ store'.diagnostics \in [Docs -> Reports]
  BY <1>1, <1>2, <1>3
<1>5. StoreType'
  BY <1>3, <1>4 DEF StoreType, LspType
<1> QED BY <1>1, <1>2, <1>3, <1>5

\* The effect of Lint on the maps, and what it publishes.
LEMMA LintStore ==
    ASSUME LspType, NEW w \in work, Lint(w)
    PROVE  /\ StoreType' /\ w.doc \in Docs
           /\ store'.documents = store.documents /\ store'.pendingLintURIs = store.pendingLintURIs
           /\ store'.view = store.view /\ store'.docGeneration = store.docGeneration
           /\ \A d \in Docs : d # w.doc => store'.diagnostics[d] = store.diagnostics[d]
           /\ \E native \in BOOLEAN :
                 LET r == [text |-> store.documents[w.doc], view |-> store.view,
                           native |-> native, plugin |-> <<>>]
                 IN /\ r \in Reports /\ Publish(w.doc, r)
                    /\ store'.diagnostics[w.doc] = IF native THEN r ELSE Empty
                    /\ ~native => UNCHANGED <<calls, inflight>>
<1>1. w.doc \in Docs /\ Empty \in Reports
  BY WorkTypes, ReportTypes
<1>2. /\ store.documents \in [Docs -> Nat] /\ store.diagnostics \in [Docs -> Reports]
      /\ store.docGeneration \in [Docs -> Nat] /\ store.view \in Nat
  BY DEF LspType, StoreType
<1> DEFINE r(b) == [text |-> store.documents[w.doc], view |-> store.view, native |-> b, plugin |-> <<>>]
<1>3. \A b \in BOOLEAN : r(b) \in Reports
  BY <1>1, <1>2, ReportTypes
<1>5. PICK b \in BOOLEAN : /\ store' = [store EXCEPT !.diagnostics[w.doc] = IF b THEN r(TRUE) ELSE Empty]
                           /\ Publish(w.doc, r(b)) /\ (~b => UNCHANGED <<calls, inflight>>)
  <2>1. CASE /\ store' = [store EXCEPT !.diagnostics[w.doc] = Empty]
             /\ Publish(w.doc, r(FALSE)) /\ UNCHANGED <<calls, inflight>>
    BY <2>1
  <2>2. CASE store' = [store EXCEPT !.diagnostics[w.doc] = r(TRUE)] /\ Publish(w.doc, r(TRUE))
    BY <2>2
  <2> QED BY <2>1, <2>2 DEF Lint
<1> HIDE DEF r
<1> DEFINE x == IF b THEN r(TRUE) ELSE Empty
<1>6. x \in Reports /\ store' = [store EXCEPT !.diagnostics[w.doc] = x]
  BY <1>1, <1>3, <1>5
<1> HIDE DEF x
<1>7. /\ store'.diagnostics = [store.diagnostics EXCEPT ![w.doc] = x]
      /\ store'.documents = store.documents /\ store'.pendingLintURIs = store.pendingLintURIs
      /\ store'.view = store.view /\ store'.docGeneration = store.docGeneration
      /\ store' = [store EXCEPT !.diagnostics = store'.diagnostics]
  BY <1>6 DEF LspType, StoreType
<1>8. store'.diagnostics \in [Docs -> Reports] /\ store'.diagnostics[w.doc] = x
  BY <1>1, <1>2, <1>6, <1>7
<1>9. StoreType'
  BY <1>7, <1>8 DEF StoreType, LspType
<1>10. \A d \in Docs : d # w.doc => store'.diagnostics[d] = store.diagnostics[d]
  BY <1>2, <1>7
<1>11. r(b) \in Reports /\ store'.diagnostics[w.doc] = IF b THEN r(b) ELSE Empty
  BY <1>3, <1>8 DEF x
<1> QED BY <1>1, <1>5, <1>7, <1>9, <1>10, <1>11 DEF r

\* A new view changes nothing else of the maps.
LEMMA InvalidateStore ==
    ASSUME LspType, Invalidate
    PROVE  /\ StoreType' /\ refreshCh' = TRUE
           /\ store'.documents = store.documents /\ store'.pendingLintURIs = store.pendingLintURIs
           /\ store'.diagnostics = store.diagnostics /\ store'.docGeneration = store.docGeneration
BY DEF LspType, StoreType, Invalidate

\* The steps of the handler on the dispatch loop.
LEMMA HandlerType ==
    ASSUME LspType, HandlerStep
    PROVE  LspType'
<1>1. PICK w \in work : Supersede(w) \/ Lint(w) \/ Republish(w) \/ Respond(w) \/ Commit(w)
  BY DEF HandlerStep
<1>2. w.doc \in Docs /\ (w.op # "respond" => w \in Tasks) /\ (w.op = "respond" => w.to \in {"fixed", "refreshed"})
  BY WorkTypes
<1>3. /\ store.documents \in [Docs -> Nat] /\ store.diagnostics \in [Docs -> Reports]
      /\ store.docGeneration \in [Docs -> Nat] /\ store.view \in Nat
  BY DEF LspType, StoreType
<1>4. EditorType' /\ UNCHANGED <<sends, inbound, asked, pluginResultCh>>
  BY <1>1 DEF Supersede, Lint, Republish, Respond, Commit, channels, LspType, EditorType
<1>5. ASSUME work' \subseteq Tasks \cup Answers, awaiting' \in Nat, inflight' \in [Docs -> Nat]
      PROVE  LoopType'
  BY <1>4, <1>5 DEF LspType, LoopType
<1>6. CASE Supersede(w)
  <2>1. [op |-> "lint", doc |-> w.doc] \in Tasks
    BY <1>2 DEF Tasks
  <2>2. work' \subseteq Tasks \cup Answers
    BY <1>6, <2>1 DEF Supersede, LspType, LoopType
  <2>3. CallType' /\ inflight' \in [Docs -> Nat] /\ awaiting' \in Nat
    BY <1>2, <1>6, CancelFacts DEF Supersede
  <2>4. QueueType'
    BY <1>6 DEF Supersede, channels, LspType, QueueType
  <2> QED BY <1>4, <1>5, <1>6, <2>2, <2>3, <2>4, SupersedeStore DEF LspType
<1>7. CASE Lint(w)
  <2>1. work' \subseteq Tasks \cup Answers /\ awaiting' \in Nat
    BY <1>7 DEF Lint, LspType, LoopType
  <2>2. StoreType' /\ \E r \in Reports : Publish(w.doc, r)
    BY <1>7, LintStore
  <2>3. QueueType'
    BY <1>2, <1>4, <2>2, PublishType
  <2>4. CallType' /\ inflight' \in [Docs -> Nat]
    <3>1. CASE UNCHANGED <<calls, inflight>>
      BY <3>1 DEF LspType, CallType, LoopType
    <3> DEFINE result == [uri |-> w.doc, generation |-> store.docGeneration[w.doc],
                          text |-> store.documents[w.doc], view |-> store.view]
    <3>2. CASE calls' = Started(Call("enrich", result)) /\ inflight' = [inflight EXCEPT ![w.doc] = NextId]
      <4>1. result \in Results
        BY <1>2, <1>3 DEF Results
      <4>2. CallType' /\ NextId \in Nat
        BY <3>2, <4>1, StartFacts
      <4> QED BY <3>2, <4>2 DEF LspType, LoopType
    <3> QED BY <1>7, <3>1, <3>2 DEF Lint
  <2> QED BY <1>4, <1>5, <2>1, <2>2, <2>3, <2>4 DEF LspType
<1>8. CASE Republish(w)
  <2>1. store.diagnostics[w.doc] \in Reports
    BY <1>2, <1>3
  <2>2. QueueType'
    BY <1>2, <1>4, <1>8, <2>1, PublishType DEF Republish
  <2>3. LoopType' /\ CallType' /\ StoreType'
    BY <1>5, <1>8 DEF Republish, LspType, LoopType, CallType, StoreType
  <2> QED BY <1>4, <2>2, <2>3 DEF LspType
<1>9. CASE Respond(w)
  <2>1. [op |-> w.to, doc |-> w.doc] \in Responses
    BY <1>2, <1>9 DEF Respond, Responses
  <2>2. QueueType'
    BY <1>4, <1>9, <2>1, OutType DEF Respond
  <2>3. LoopType' /\ CallType' /\ StoreType'
    BY <1>5, <1>9 DEF Respond, LspType, LoopType, CallType, StoreType
  <2> QED BY <1>4, <2>2, <2>3 DEF LspType
<1>10. CASE Commit(w)
  <2>1. [op |-> "respond", to |-> "refreshed", doc |-> w.doc] \in Answers
    BY <1>2 DEF Answers
  <2>2. Drops \subseteq Tasks
    BY DEF Drops, Tasks, OpenDocs
  <2>3. StoreType'
    <3>1. CASE Invalidate
      BY <3>1, InvalidateStore
    <3>2. CASE UNCHANGED store
      BY <3>2 DEF LspType, StoreType
    <3> QED BY <1>10, <3>1, <3>2 DEF Commit
  <2>4. work' \subseteq Tasks \cup Answers
    BY <1>10, <2>1, <2>2 DEF Commit
  <2>5. QueueType' /\ CallType' /\ awaiting' \in Nat /\ inflight' \in [Docs -> Nat]
    BY <1>10 DEF Commit, LspType, QueueType, CallType, LoopType
  <2> QED BY <1>4, <1>5, <2>3, <2>4, <2>5 DEF LspType
<1> QED BY <1>1, <1>6, <1>7, <1>8, <1>9, <1>10

\* A map of the store replaced by another of its type.
LEMMA StoreUpdate ==
    ASSUME LspType, NEW docs \in [Docs -> Nat], NEW diags \in [Docs -> Reports], NEW gens \in [Docs -> Nat],
           NEW uris \in SUBSET Docs,
           store' = [store EXCEPT !.documents = docs, !.diagnostics = diags, !.docGeneration = gens,
                                  !.pendingLintURIs = uris]
    PROVE  /\ StoreType' /\ store'.documents = docs /\ store'.diagnostics = diags
           /\ store'.docGeneration = gens /\ store'.pendingLintURIs = uris /\ store'.view = store.view
BY DEF LspType, StoreType

\* Opening and changing a document.
LEMMA OpenStore ==
    ASSUME LspType, NEW m \in Posts, DidOpen(m)
    PROVE  /\ StoreType' /\ store'.diagnostics = store.diagnostics
           /\ store'.docGeneration = store.docGeneration /\ store'.view = store.view
           /\ store'.pendingLintURIs = store.pendingLintURIs
           /\ \A d \in Docs : store'.documents[d] = IF d = m.doc THEN m.text ELSE store.documents[d]
<1>1. m.doc \in Docs /\ m.text \in Nat
  BY DEF Posts
<1>2. store.documents \in [Docs -> Nat]
  BY DEF LspType, StoreType
<1>3. /\ store' = [store EXCEPT !.documents = [store.documents EXCEPT ![m.doc] = m.text]]
      /\ store'.documents = [store.documents EXCEPT ![m.doc] = m.text]
  BY DEF DidOpen, LspType, StoreType
<1>4. [store.documents EXCEPT ![m.doc] = m.text] \in [Docs -> Nat]
  BY <1>1, <1>2
<1> QED BY <1>1, <1>2, <1>3, <1>4 DEF LspType, StoreType

\* A change and a close bump the generation, drop the diagnostics and set the text.
LEMMA ChangeStore ==
    ASSUME LspType, NEW m \in Posts, DidChange(m) \/ DidClose(m)
    PROVE  /\ StoreType' /\ store'.view = store.view /\ m.doc \in Docs
           /\ \A d \in Docs :
                 /\ store'.documents[d] = IF d = m.doc THEN (IF m.op = "close" THEN Closed ELSE m.text)
                                          ELSE store.documents[d]
                 /\ store'.docGeneration[d] = IF d = m.doc THEN store.docGeneration[d] + 1 ELSE store.docGeneration[d]
                 /\ store'.diagnostics[d] = IF d = m.doc THEN Empty ELSE store.diagnostics[d]
           /\ store'.pendingLintURIs = IF m.op = "close" THEN store.pendingLintURIs \ {m.doc}
                                       ELSE store.pendingLintURIs \cup {m.doc}
<1>1. m.doc \in Docs /\ m.text \in Nat /\ Empty \in Reports /\ Closed \in Nat
  BY ReportTypes DEF Posts, Closed
<1>2. /\ store.documents \in [Docs -> Nat] /\ store.diagnostics \in [Docs -> Reports]
      /\ store.docGeneration \in [Docs -> Nat] /\ store.pendingLintURIs \in SUBSET Docs
  BY DEF LspType, StoreType
<1> DEFINE text == IF m.op = "close" THEN Closed ELSE m.text
           docs == [store.documents EXCEPT ![m.doc] = text]
           gens == [store.docGeneration EXCEPT ![m.doc] = @ + 1]
           diags == [store.diagnostics EXCEPT ![m.doc] = Empty]
           uris == IF m.op = "close" THEN store.pendingLintURIs \ {m.doc} ELSE store.pendingLintURIs \cup {m.doc}
<1>3. store' = [store EXCEPT !.documents = docs, !.diagnostics = diags, !.docGeneration = gens, !.pendingLintURIs = uris]
  <2>1. CASE DidChange(m)
    BY <2>1 DEF DidChange, LspType, StoreType
  <2>2. CASE DidClose(m)
    BY <2>2 DEF DidClose, LspType, StoreType
  <2> QED BY <2>1, <2>2
<1>4. docs \in [Docs -> Nat] /\ gens \in [Docs -> Nat] /\ diags \in [Docs -> Reports] /\ uris \in SUBSET Docs
  BY <1>1, <1>2
<1>5. /\ \A d \in Docs : /\ docs[d] = IF d = m.doc THEN text ELSE store.documents[d]
                         /\ gens[d] = IF d = m.doc THEN store.docGeneration[d] + 1 ELSE store.docGeneration[d]
                         /\ diags[d] = IF d = m.doc THEN Empty ELSE store.diagnostics[d]
  BY <1>1, <1>2
<1> HIDE DEF docs, gens, diags, uris
<1>6. /\ StoreType' /\ store'.documents = docs /\ store'.diagnostics = diags
      /\ store'.docGeneration = gens /\ store'.pendingLintURIs = uris /\ store'.view = store.view
  BY <1>3, <1>4, StoreUpdate
<1>7. store'.pendingLintURIs = IF m.op = "close" THEN store.pendingLintURIs \ {m.doc}
                               ELSE store.pendingLintURIs \cup {m.doc}
  BY <1>6 DEF uris
<1> QED BY <1>1, <1>5, <1>6, <1>7

\* Only the set of documents to lint changes.
LEMMA UrisStore ==
    ASSUME LspType, NEW uris \in SUBSET Docs, store' = [store EXCEPT !.pendingLintURIs = uris]
    PROVE  /\ StoreType' /\ store'.documents = store.documents /\ store'.diagnostics = store.diagnostics
           /\ store'.docGeneration = store.docGeneration /\ store'.view = store.view
           /\ store'.pendingLintURIs = uris
BY DEF LspType, StoreType

\* A save and a fix-all take the document off the set.
LEMMA SaveStore ==
    ASSUME LspType, NEW m, DidSave(m) \/ FixAllCodeAction(m)
    PROVE  /\ StoreType' /\ store'.documents = store.documents /\ store'.diagnostics = store.diagnostics
           /\ store'.docGeneration = store.docGeneration /\ store'.view = store.view
           /\ store'.pendingLintURIs = store.pendingLintURIs \ {m.doc}
<1>1. store.pendingLintURIs \ {m.doc} \in SUBSET Docs
  BY DEF LspType, StoreType
<1>2. store' = [store EXCEPT !.pendingLintURIs = store.pendingLintURIs \ {m.doc}]
  BY DEF DidSave, FixAllCodeAction
<1> QED BY <1>1, <1>2, UrisStore

\* Merging a result appends it to the plugin half of what is stored.
LEMMA MergeStore ==
    ASSUME LspType, NEW r \in Results,
           store' = [store EXCEPT !.diagnostics[r.uri].plugin = Append(@, [text |-> r.text, view |-> r.view])]
    PROVE  /\ StoreType' /\ store'.documents = store.documents
           /\ store'.docGeneration = store.docGeneration /\ store'.view = store.view
           /\ store'.pendingLintURIs = store.pendingLintURIs
           /\ \A d \in Docs : d # r.uri => store'.diagnostics[d] = store.diagnostics[d]
           /\ store'.diagnostics[r.uri] =
                 [store.diagnostics[r.uri] EXCEPT !.plugin = Append(@, [text |-> r.text, view |-> r.view])]
<1> DEFINE x == [text |-> r.text, view |-> r.view]
<1>1. r.uri \in Docs /\ x \in Sources
  BY DEF Results, Sources
<1>2. store.diagnostics \in [Docs -> Reports]
  BY DEF LspType, StoreType
<1> DEFINE s == [store.diagnostics[r.uri] EXCEPT !.plugin = Append(@, x)]
           diags == [store.diagnostics EXCEPT ![r.uri] = s]
<1>3. store' = [store EXCEPT !.diagnostics = diags]
  BY DEF LspType, StoreType
<1>4. s \in Reports
  BY <1>1, <1>2, ReportTypes
<1> HIDE DEF s
<1>5. diags \in [Docs -> Reports] /\ diags[r.uri] = s /\ \A d \in Docs : d # r.uri => diags[d] = store.diagnostics[d]
  BY <1>1, <1>2, <1>4
<1> HIDE DEF diags
<1>6. store'.diagnostics = diags
  BY <1>3 DEF LspType, StoreType
<1>7. /\ StoreType' /\ store'.documents = store.documents
      /\ store'.docGeneration = store.docGeneration /\ store'.view = store.view
      /\ store'.pendingLintURIs = store.pendingLintURIs
  BY <1>3, <1>5 DEF LspType, StoreType
<1> QED BY <1>5, <1>6, <1>7 DEF s

\* The arms of the select that take no message.
LEMMA ArmType ==
    ASSUME LspType, OnRefresh \/ OnDebounce \/ MergePluginDiagnostics
    PROVE  LspType'
<1>1. EditorType' /\ CallType' /\ UNCHANGED <<sends, inbound, asked, outgoingQueue, inflight, awaiting>>
  BY DEF OnRefresh, OnDebounce, MergePluginDiagnostics, LspType, EditorType, CallType
<1>2. ASSUME work' \subseteq Tasks \cup Answers PROVE LoopType'
  BY <1>1, <1>2 DEF LspType, LoopType
<1>3. CASE OnRefresh
  <2>1. work' \subseteq Tasks \cup Answers
    BY <1>3 DEF OnRefresh, OpenDocs, Tasks
  <2>2. QueueType' /\ StoreType'
    BY <1>3 DEF OnRefresh, LspType, QueueType, StoreType
  <2> QED BY <1>1, <1>2, <2>1, <2>2 DEF LspType
<1>4. CASE OnDebounce
  <2>1. store.pendingLintURIs \in SUBSET Docs
    BY DEF LspType, StoreType
  <2>2. work' \subseteq Tasks \cup Answers
    BY <1>4, <2>1 DEF OnDebounce, Tasks
  <2>3. StoreType'
    BY <1>4, UrisStore DEF OnDebounce
  <2>4. QueueType'
    BY <1>4 DEF OnDebounce, LspType, QueueType
  <2> QED BY <1>1, <1>2, <2>2, <2>3, <2>4 DEF LspType
<1>5. CASE MergePluginDiagnostics
  <2> DEFINE r == Head(pluginResultCh)
  <2>1. pluginResultCh # <<>> /\ pluginResultCh' = Tail(pluginResultCh) /\ pluginResultCh \in Seq(Results)
    BY <1>5 DEF MergePluginDiagnostics, LspType, QueueType
  <2>2. r \in Results /\ Tail(pluginResultCh) \in Seq(Results)
    BY <2>1, TailFacts
  <2>3. QueueType'
    BY <1>1, <2>1, <2>2 DEF LspType, QueueType
  <2>4. [op |-> "republish", doc |-> r.uri] \in Tasks
    BY <2>2 DEF Tasks, Results
  <2>5. StoreType' /\ work' \subseteq Tasks \cup Answers
    <3>1. CASE Admitted(r)
      <4>1. /\ store' = [store EXCEPT !.diagnostics[r.uri].plugin = Append(@, [text |-> r.text, view |-> r.view])]
            /\ work' = {[op |-> "republish", doc |-> r.uri]}
        BY <1>5, <3>1 DEF MergePluginDiagnostics
      <4> HIDE DEF r
      <4>2. StoreType'
        BY <2>2, <4>1, MergeStore
      <4> QED BY <2>4, <4>1, <4>2
    <3>2. CASE ~Admitted(r)
      BY <1>5, <3>2 DEF MergePluginDiagnostics, LspType, StoreType, LoopType
    <3> QED BY <3>1, <3>2
  <2> QED BY <1>1, <1>2, <2>3, <2>5 DEF LspType
<1> QED BY <1>3, <1>4, <1>5

\* The message at the head of the requests.
LEMMA HeadPost ==
    ASSUME LspType, HandleRequest
    PROVE  /\ Head(inbound) \in Posts /\ inbound # <<>> /\ inbound' = Tail(inbound) /\ work = {} /\ LoopFree
           /\ Head(inbound) = inbound[1] /\ inbound \in Seq(Posts \cup Replies)
<1>1. inbound # <<>> /\ inbound \in Seq(Posts \cup Replies) /\ Head(inbound).op # "answer"
  BY DEF HandleRequest, LspType, QueueType
<1>2. Head(inbound) \in Posts \cup Replies /\ Head(inbound) = inbound[1]
  BY <1>1, TailFacts
<1> QED BY <1>1, <1>2 DEF Replies, HandleRequest, Idle

\* The handlers of the editor's messages.
LEMMA RequestType ==
    ASSUME LspType, HandleRequest
    PROVE  LspType'
<1> DEFINE m == Head(inbound)
<1>1. m \in Posts /\ inbound # <<>> /\ inbound' = Tail(inbound) /\ inbound \in Seq(Posts \cup Replies)
  BY HeadPost
<1>2. m.doc \in Docs /\ m.text \in Nat
  BY <1>1 DEF Posts
<1>3. EditorType' /\ UNCHANGED <<sends, asked, outgoingQueue, pluginResultCh>>
  BY DEF HandleRequest, LspType, EditorType
<1>4. QueueType'
  BY <1>1, <1>3, TailFacts DEF LspType, QueueType
<1>5. ASSUME work' \subseteq Tasks \cup Answers, awaiting' \in Nat, inflight' \in [Docs -> Nat]
      PROVE  LoopType'
  BY <1>3, <1>5 DEF LspType, LoopType
<1>6. /\ [op |-> "push", doc |-> m.doc] \in Tasks /\ [op |-> "republish", doc |-> m.doc] \in Tasks
      /\ [op |-> "commit", doc |-> m.doc] \in Tasks
      /\ [op |-> "respond", to |-> "fixed", doc |-> m.doc] \in Answers
      /\ Drops \subseteq Tasks
  BY <1>2 DEF Tasks, Answers, Drops, OpenDocs
<1>7. PICK p \in Posts : p = m
  BY <1>1
<1>8. \/ DidOpen(p) \/ DidChange(p) \/ DidSave(p) \/ DidClose(p)
      \/ FixAllCodeAction(p) \/ ConfigRefresh(p) \/ DidChangeWatchedFiles(p)
  BY <1>7 DEF HandleRequest
<1>9. CASE DidOpen(p)
  <2>1. StoreType'
    BY <1>9, OpenStore
  <2>2. CallType' /\ work' \subseteq Tasks \cup Answers /\ awaiting' \in Nat /\ inflight' \in [Docs -> Nat]
    BY <1>6, <1>7, <1>9 DEF DidOpen, LspType, CallType, LoopType
  <2> QED BY <1>3, <1>4, <1>5, <2>1, <2>2 DEF LspType
<1>10. CASE DidChange(p)
  <2>1. StoreType'
    BY <1>10, ChangeStore
  <2>2. CallType' /\ awaiting' \in Nat /\ inflight' \in [Docs -> Nat]
    BY <1>2, <1>7, <1>10, CancelFacts DEF DidChange
  <2>3. work' \subseteq Tasks \cup Answers
    BY <1>10 DEF DidChange, LspType, LoopType
  <2> QED BY <1>3, <1>4, <1>5, <2>1, <2>2, <2>3 DEF LspType
<1>11. CASE DidSave(p)
  <2>1. StoreType'
    BY <1>11, SaveStore
  <2>2. CallType' /\ work' \subseteq Tasks \cup Answers /\ awaiting' \in Nat /\ inflight' \in [Docs -> Nat]
    BY <1>6, <1>7, <1>11 DEF DidSave, LspType, CallType, LoopType
  <2> QED BY <1>3, <1>4, <1>5, <2>1, <2>2 DEF LspType
<1>12. CASE DidClose(p)
  <2>1. StoreType'
    BY <1>12, ChangeStore
  <2>2. CallType' /\ awaiting' \in Nat /\ inflight' \in [Docs -> Nat]
    BY <1>2, <1>7, <1>12, CancelFacts DEF DidClose
  <2>3. work' \subseteq Tasks \cup Answers
    BY <1>6, <1>7, <1>12 DEF DidClose
  <2> QED BY <1>3, <1>4, <1>5, <2>1, <2>2, <2>3 DEF LspType
<1>13. CASE FixAllCodeAction(p)
  <2>1. StoreType'
    BY <1>13, SaveStore
  <2>2. CallType' /\ awaiting' \in Nat
    <3>1. CASE UNCHANGED <<calls, awaiting>>
      BY <3>1 DEF LspType, CallType, LoopType
    <3>2. CASE calls' = Started(Call("fixAll", NoResult)) /\ awaiting' = NextId
      BY <3>2, StartFacts
    <3> QED BY <1>13, <3>1, <3>2 DEF FixAllCodeAction
  <2>3. work' \subseteq Tasks \cup Answers /\ inflight' \in [Docs -> Nat]
    BY <1>6, <1>7, <1>13 DEF FixAllCodeAction, LspType, LoopType
  <2> QED BY <1>3, <1>4, <1>5, <2>1, <2>2, <2>3 DEF LspType
<1>14. CASE ConfigRefresh(p)
  <2>1. CallType' /\ awaiting' \in Nat
    BY <1>14, StartFacts DEF ConfigRefresh
  <2>2. StoreType' /\ work' \subseteq Tasks \cup Answers /\ inflight' \in [Docs -> Nat]
    BY <1>6, <1>7, <1>14 DEF ConfigRefresh, LspType, StoreType, LoopType
  <2> QED BY <1>3, <1>4, <1>5, <2>1, <2>2 DEF LspType
<1>15. CASE DidChangeWatchedFiles(p)
  <2>1. StoreType'
    BY <1>15, InvalidateStore DEF DidChangeWatchedFiles
  <2>2. CallType' /\ work' \subseteq Tasks \cup Answers /\ awaiting' \in Nat /\ inflight' \in [Docs -> Nat]
    BY <1>6, <1>15 DEF DidChangeWatchedFiles, LspType, CallType, LoopType
  <2> QED BY <1>3, <1>4, <1>5, <2>1, <2>2 DEF LspType
<1> QED BY <1>8, <1>9, <1>10, <1>11, <1>12, <1>13, <1>14, <1>15

-----------------------------------------------------------------------------
(* What the editor and the read loop do to the inbound messages.           *)

\* Sending no, one and two messages.
LEMMA SendOne ==
    ASSUME NEW S, NEW q \in Seq(S), NEW a \in S, NEW b \in S
    PROVE  /\ q \o <<a>> = Append(q, a) /\ q \o <<>> = q
           /\ q \o Append(<<a>>, b) = Append(Append(q, a), b)
OBVIOUS

\* The messages after a fix-all are none, one or two.
LEMMA ShortConcat ==
    ASSUME NEW a, NEW b
    PROVE  <<>> \o <<>> = <<>> /\ <<>> \o <<b>> = <<b>> /\ <<a>> \o <<>> = <<a>> /\ <<a>> \o <<b>> = Append(<<a>>, b)
<1> DEFINE S == {a, b}
<1>1. <<>> \in Seq(S) /\ <<a>> \in Seq(S) /\ <<b>> \in Seq(S)
  OBVIOUS
<1>2. <<>> \o <<>> = <<>> /\ <<a>> \o <<>> = <<a>>
  BY <1>1, SendOne
<1>3. Append(<<>>, b) = <<b>>
  OBVIOUS
<1>4. <<>> \o <<b>> = Append(<<>>, b) /\ <<a>> \o <<b>> = Append(<<a>>, b)
  BY <1>1, SendOne
<1> QED BY <1>2, <1>3, <1>4

\* Two sequences, one after the other.
LEMMA ConcatFacts ==
    ASSUME NEW S, NEW s \in Seq(S), NEW t \in Seq(S)
    PROVE  s \o t \in Seq(S) /\ Len(s \o t) = Len(s) + Len(t)
OBVIOUS

\* The sequence without one entry.
LEMMA RemoveFacts ==
    ASSUME NEW S, NEW q \in Seq(S), NEW k \in 1..Len(q)
    PROVE  /\ RemoveAt(q, k) \in Seq(S) /\ Len(RemoveAt(q, k)) = Len(q) - 1
           /\ \A i \in 1..(Len(q) - 1) : RemoveAt(q, k)[i] = IF i < k THEN q[i] ELSE q[i + 1]
<1> DEFINE a == SubSeq(q, 1, k - 1)
           b == SubSeq(q, k + 1, Len(q))
<1>1. Len(q) \in Nat /\ k \in Nat /\ 1 <= k /\ k <= Len(q)
  OBVIOUS
<1>2. /\ a \in Seq(S) /\ Len(a) = k - 1 /\ \A i \in 1..(k - 1) : a[i] = q[i]
  BY <1>1
<1>3. /\ b \in Seq(S) /\ Len(b) = Len(q) - k /\ \A i \in 1..(Len(q) - k) : b[i] = q[i + k]
  BY <1>1
<1>4. RemoveAt(q, k) = a \o b
  BY DEF RemoveAt
<1> HIDE DEF a, b
<1>5. a \o b \in Seq(S) /\ Len(a \o b) = Len(q) - 1
  <2>1. a \o b \in Seq(S) /\ Len(a \o b) = Len(a) + Len(b)
    BY <1>2, <1>3, ConcatFacts
  <2> QED BY <1>1, <1>2, <1>3, <2>1
<1>6. ASSUME NEW i \in 1..(Len(q) - 1) PROVE (a \o b)[i] = IF i < k THEN q[i] ELSE q[i + 1]
  <2>1. CASE i < k
    BY <1>1, <1>2, <1>3, <2>1
  <2>2. CASE ~(i < k)
    <3>1. (a \o b)[i] = b[i - (k - 1)]
      BY <1>1, <1>2, <1>3, <2>2
    <3>2. i - (k - 1) \in 1..(Len(q) - k) /\ (i - (k - 1)) + k = i + 1
      BY <1>1, <2>2
    <3> QED BY <1>3, <2>2, <3>1, <3>2
  <2> QED BY <2>1, <2>2
<1> QED BY <1>4, <1>5, <1>6

\* The editor's own state, one by one.
LEMMA EditorUpdate ==
    ASSUME LspType, NEW texts \in [Docs -> Nat], NEW fixing \in [Docs -> {"no", "asked", "answered"}],
           editor' = [editor EXCEPT !.text = texts, !.fixing = fixing]
    PROVE  EditorType' /\ editor'.text = texts /\ editor'.shown = editor.shown
BY DEF LspType, EditorType

\* A message of the editor is about one document and fits what the editor has open.
Fits(m) == /\ m.op = "save" => editor.text[m.doc] # Closed
           /\ \A d \in Docs : editor'.text[d] # Closed =>
                 IF d = m.doc THEN m.op \in {"open", "change"} \/ (m.op # "close" /\ editor.text[d] # Closed)
                 ELSE editor.text[d] # Closed

\* A message of the editor.
LEMMA EditorFacts ==
    ASSUME LspType, NEW d \in Docs, EditorSends(d)
    PROVE  /\ EditorType' /\ editor'.shown = editor.shown /\ sends' \in Nat
           /\ UNCHANGED <<asked, channels, store, inflight, calls, work, awaiting>>
           /\ \E m \in Posts : m.doc = d /\ inbound' = Append(inbound, m) /\ Fits(m)
<1>1. /\ editor.text \in [Docs -> Nat] /\ editor.shown \in [Docs -> Reports]
      /\ editor.fixing \in [Docs -> {"no", "asked", "answered"}] /\ sends \in Nat /\ sends' = sends + 1
  BY DEF LspType, EditorType, LoopType, EditorSends
<1>2. inbound \in Seq(Posts \cup Replies)
  BY DEF LspType, QueueType
<1>3. \A op \in {"open", "change", "save", "close", "fixAll", "watched", "configRefresh"} :
         Message(op, d) \in Posts /\ Message(op, d).doc = d /\ Message(op, d).op = op
  BY <1>1 DEF Message, Posts
<1>4. ASSUME NEW op \in {"open", "change", "save", "close", "fixAll", "watched", "configRefresh"},
             Send(<<Message(op, d)>>)
      PROVE  inbound' = Append(inbound, Message(op, d))
  BY <1>2, <1>3, <1>4, SendOne DEF Send
<1>5. PICK op \in {"open", "change", "save", "close", "fixAll", "watched", "configRefresh"} :
         /\ Send(<<Message(op, d)>>)
         /\ op \in {"open", "change"} => editor' = [editor EXCEPT !.text[d] = sends + 1]
         /\ op = "close" => editor' = [editor EXCEPT !.text[d] = Closed]
         /\ op = "fixAll" => editor' = [editor EXCEPT !.fixing[d] = "asked"]
         /\ op \in {"save", "watched", "configRefresh"} => editor' = editor
         /\ op = "save" => editor.text[d] # Closed
  BY DEF EditorSends
<1> DEFINE m == Message(op, d)
           texts == IF op \in {"open", "change"} THEN [editor.text EXCEPT ![d] = sends + 1]
                    ELSE IF op = "close" THEN [editor.text EXCEPT ![d] = Closed] ELSE editor.text
           fixing == IF op = "fixAll" THEN [editor.fixing EXCEPT ![d] = "asked"] ELSE editor.fixing
<1>6. texts \in [Docs -> Nat] /\ fixing \in [Docs -> {"no", "asked", "answered"}]
  BY <1>1 DEF Closed
<1>7. editor' = [editor EXCEPT !.text = texts, !.fixing = fixing]
  <2>1. CASE op \in {"open", "change"}
    BY <1>5, <2>1 DEF LspType, EditorType
  <2>2. CASE op = "close"
    BY <1>5, <2>2 DEF LspType, EditorType
  <2>3. CASE op = "fixAll"
    BY <1>5, <2>3 DEF LspType, EditorType
  <2>4. CASE op \in {"save", "watched", "configRefresh"}
    BY <1>5, <2>4 DEF LspType, EditorType
  <2> QED BY <2>1, <2>2, <2>3, <2>4
<1>8. \A e \in Docs : texts[e] # Closed =>
         IF e = d THEN op \in {"open", "change"} \/ (op # "close" /\ editor.text[e] # Closed)
         ELSE editor.text[e] # Closed
  BY <1>1
<1> HIDE DEF texts, fixing
<1>9. EditorType' /\ editor'.text = texts /\ editor'.shown = editor.shown
  BY <1>6, <1>7, EditorUpdate
<1>10. Fits(m)
  BY <1>3, <1>5, <1>8, <1>9 DEF Fits
<1>11. m \in Posts /\ m.doc = d /\ inbound' = Append(inbound, m)
  BY <1>3, <1>4, <1>5
<1>12. UNCHANGED <<asked, channels, store, inflight, calls, work, awaiting>>
  BY <1>5 DEF Send
<1> QED BY <1>1, <1>9, <1>10, <1>11, <1>12

\* The messages that follow the answer to fix-all.
LEMMA FixFacts ==
    ASSUME LspType, NEW d \in Docs, FixAllAnswered(d)
    PROVE  /\ EditorType' /\ editor'.shown = editor.shown /\ sends' \in Nat
           /\ UNCHANGED <<asked, channels, store, inflight, calls, work, awaiting>>
           /\ \E c, s \in Posts :
                 /\ c.op = "change" /\ c.doc = d /\ s.op = "save" /\ s.doc = d
                 /\ \A e \in Docs : e # d => editor'.text[e] = editor.text[e]
                 /\ \/ inbound' = inbound /\ editor'.text[d] = editor.text[d]
                    \/ inbound' = Append(inbound, c)
                    \/ inbound' = Append(inbound, s) /\ editor'.text[d] = editor.text[d] /\ editor.text[d] # Closed
                    \/ inbound' = Append(Append(inbound, c), s) /\ editor'.text[d] # Closed
<1>1. /\ editor.text \in [Docs -> Nat] /\ editor.shown \in [Docs -> Reports]
      /\ editor.fixing \in [Docs -> {"no", "asked", "answered"}] /\ sends \in Nat
  BY DEF LspType, EditorType, LoopType
<1>2. inbound \in Seq(Posts \cup Replies)
  BY DEF LspType, QueueType
<1>0. \A op \in {"change", "save"} : Message(op, d) \in Posts
  BY <1>1 DEF Message, Posts
<1>3. PICK c \in Posts : c = Message("change", d)
  BY <1>0
<1>4. PICK s \in Posts : s = Message("save", d)
  BY <1>0
<1>5. c.op = "change" /\ c.doc = d /\ s.op = "save" /\ s.doc = d
  BY <1>3, <1>4 DEF Message
<1> DEFINE saves == IF editor.text[d] # Closed /\ SaveFollowsFixAll THEN <<s>> ELSE <<>>
<1>6. PICK changes \in {<<>>, <<c>>} :
         /\ editor' = [editor EXCEPT !.fixing[d] = "no", !.text[d] = IF changes = <<>> THEN @ ELSE sends + 1]
         /\ sends' = sends + Len(changes \o saves) /\ Send(changes \o saves)
  BY <1>3, <1>4 DEF FixAllAnswered
<1>7. <<c>> # <<>>
  OBVIOUS
<1> DEFINE texts == IF changes = <<>> THEN editor.text ELSE [editor.text EXCEPT ![d] = sends + 1]
           fixing == [editor.fixing EXCEPT ![d] = "no"]
<1>8. texts \in [Docs -> Nat] /\ fixing \in [Docs -> {"no", "asked", "answered"}]
  BY <1>1
<1>9. editor' = [editor EXCEPT !.text = texts, !.fixing = fixing]
  <2>1. CASE changes = <<>>
    BY <1>6, <2>1 DEF LspType, EditorType
  <2>2. CASE changes # <<>>
    BY <1>6, <2>2 DEF LspType, EditorType
  <2> QED BY <2>1, <2>2
<1>10. \A e \in Docs : e # d => texts[e] = editor.text[e]
  BY <1>1
<1>10a. changes # <<>> => texts[d] # Closed
  BY <1>1 DEF Closed
<1>11. changes = <<>> => texts = editor.text
  OBVIOUS
<1> HIDE DEF texts, fixing
<1>12. EditorType' /\ editor'.text = texts /\ editor'.shown = editor.shown
  BY <1>8, <1>9, EditorUpdate
<1>13. \/ changes \o saves = <<>> /\ changes = <<>>
       \/ changes \o saves = <<c>>
       \/ changes \o saves = <<s>> /\ changes = <<>> /\ editor.text[d] # Closed
       \/ changes \o saves = Append(<<c>>, s) /\ changes # <<>>
  <2>1. <<>> \o <<>> = <<>> /\ <<>> \o <<s>> = <<s>> /\ <<c>> \o <<>> = <<c>> /\ <<c>> \o <<s>> = Append(<<c>>, s)
    BY ShortConcat
  <2> QED BY <1>6, <1>7, <2>1
<1>14. sends' \in Nat
  <2>1. Len(changes \o saves) \in Nat
    BY <1>13
  <2> QED BY <1>1, <1>6, <2>1
<1>15. inbound' = inbound \o (changes \o saves) /\ UNCHANGED <<asked, channels, store, inflight, calls, work, awaiting>>
  BY <1>6 DEF Send
<1>16. /\ inbound \o <<>> = inbound /\ inbound \o <<c>> = Append(inbound, c)
       /\ inbound \o <<s>> = Append(inbound, s) /\ inbound \o Append(<<c>>, s) = Append(Append(inbound, c), s)
  BY <1>2, SendOne
<1>17. \/ inbound' = inbound /\ editor'.text[d] = editor.text[d]
       \/ inbound' = Append(inbound, c)
       \/ inbound' = Append(inbound, s) /\ editor'.text[d] = editor.text[d] /\ editor.text[d] # Closed
       \/ inbound' = Append(Append(inbound, c), s) /\ editor'.text[d] # Closed
  BY <1>10a, <1>11, <1>12, <1>13, <1>15, <1>16
<1> QED BY <1>5, <1>10, <1>12, <1>14, <1>15, <1>17

\* Every step keeps the server's and the editor's state well formed.
LEMMA TypeStep == LspType /\ [Next]_vars => LspType'
<1> SUFFICES ASSUME LspType, [Next]_vars PROVE LspType'
  OBVIOUS
<1>1. ASSUME DispatchLoop PROVE LspType'
  BY <1>1, HandlerType, ArmType, RequestType DEF DispatchLoop
<1>2. ASSUME TimerFires \/ SessionRefreshes PROVE LspType'
  BY <1>2 DEF TimerFires, SessionRefreshes, LspType, EditorType, StoreType, QueueType, CallType, LoopType
<1>3. ASSUME ReadLoop PROVE LspType'
  <2>1. PICK k \in DOMAIN inbound :
           /\ ReadableAnswer(k) /\ inbound' = RemoveAt(inbound, k)
           /\ calls' = IF inbound[k].id \in DOMAIN calls
                       THEN [calls EXCEPT ![inbound[k].id].pc = "answered"] ELSE calls
           /\ UNCHANGED <<editor, sends, asked, channels, store, inflight, work, awaiting>>
    BY <1>3 DEF ReadLoop
  <2>2. inbound \in Seq(Posts \cup Replies) /\ k \in 1..Len(inbound)
    BY DEF LspType, QueueType
  <2>3. inbound' \in Seq(Posts \cup Replies)
    BY <2>1, <2>2, RemoveFacts
  <2>4. CallType'
    <3>1. CASE calls' = calls
      BY <3>1 DEF LspType, CallType
    <3>2. CASE calls' = [calls EXCEPT ![inbound[k].id].pc = "answered"]
      BY <3>2, MoveFacts
    <3> QED BY <2>1, <3>1, <3>2
  <2> QED BY <2>1, <2>3, <2>4 DEF channels, LspType, EditorType, StoreType, QueueType, LoopType
<1>4. ASSUME WriteLoop PROVE LspType'
  <2> DEFINE m == Head(outgoingQueue)
  <2>1. outgoingQueue # <<>> /\ outgoingQueue' = Tail(outgoingQueue)
        /\ outgoingQueue \in Seq(Asks \cup Notices \cup Responses)
    BY <1>4 DEF WriteLoop, LspType, QueueType
  <2>2. m \in Asks \cup Notices \cup Responses /\ Tail(outgoingQueue) \in Seq(Asks \cup Notices \cup Responses)
    BY <2>1, TailFacts
  <2>3. asked' \subseteq Nat /\ IsFiniteSet(asked')
    <3>1. asked \subseteq Nat /\ IsFiniteSet(asked)
      BY DEF LspType, LoopType
    <3>2. CASE m.op = "call"
      <4>1. asked' = asked \cup {m.id} /\ m.id \in Nat
        BY <1>4, <2>2, <3>2 DEF WriteLoop, Asks, Notices, Responses
      <4> QED BY <3>1, <4>1, FS_AddElement
    <3>3. CASE m.op = "cancel"
      <4>1. asked' = asked \ {m.id}
        BY <1>4, <3>3 DEF WriteLoop
      <4> QED BY <3>1, <4>1, FS_RemoveElement
    <3>4. CASE m.op \notin {"call", "cancel"}
      BY <1>4, <3>1, <3>4 DEF WriteLoop
    <3> QED BY <3>2, <3>3, <3>4
  <2>4. EditorType'
    <3>1. CASE m.op = "publish"
      <4>1. m.doc \in Docs /\ m.report \in Reports
        BY <2>2, <3>1 DEF Asks, Notices, Responses
      <4>2. editor' = [editor EXCEPT !.shown[m.doc] = m.report]
        BY <1>4, <3>1 DEF WriteLoop
      <4> QED BY <4>1, <4>2 DEF LspType, EditorType
    <3>2. CASE m.op = "fixed"
      <4>1. m.doc \in Docs
        BY <2>2, <3>2 DEF Asks, Notices, Responses
      <4>2. editor' = [editor EXCEPT !.fixing[m.doc] = "answered"]
        BY <1>4, <3>2 DEF WriteLoop
      <4> QED BY <4>1, <4>2 DEF LspType, EditorType
    <3>3. CASE m.op \notin {"publish", "fixed"}
      BY <1>4, <3>3 DEF WriteLoop, LspType, EditorType
    <3> QED BY <3>1, <3>2, <3>3
  <2>5. StoreType' /\ CallType' /\ QueueType'
    BY <1>4, <2>1, <2>2 DEF WriteLoop, LspType, StoreType, CallType, QueueType
  <2>6. LoopType'
    BY <1>4, <2>3 DEF WriteLoop, LspType, LoopType
  <2> QED BY <2>4, <2>5, <2>6 DEF LspType
<1>5. ASSUME NEW i \in DOMAIN calls, CallStep(i) PROVE LspType'
  BY <1>5, CallStepType
<1>6. ASSUME EditorType', sends' \in Nat, inbound' \in Seq(Posts \cup Replies),
             UNCHANGED <<asked, channels, store, inflight, calls, work, awaiting>>
      PROVE  LspType'
  BY <1>6 DEF channels, LspType, StoreType, QueueType, CallType, LoopType
<1>7. ASSUME NEW d \in Docs, EditorSends(d) PROVE LspType'
  <2>1. PICK m \in Posts : inbound' = Append(inbound, m)
    BY <1>7, EditorFacts
  <2>2. inbound' \in Seq(Posts \cup Replies)
    BY <2>1, AppendFacts DEF LspType, QueueType
  <2> QED BY <1>6, <1>7, <2>2, EditorFacts
<1>8. ASSUME NEW d \in Docs, FixAllAnswered(d) PROVE LspType'
  <2>1. PICK c, s \in Posts : inbound' \in {inbound, Append(inbound, c), Append(inbound, s), Append(Append(inbound, c), s)}
    BY <1>8, FixFacts
  <2>2. inbound \in Seq(Posts \cup Replies)
    BY DEF LspType, QueueType
  <2>3. Append(inbound, c) \in Seq(Posts \cup Replies) /\ Append(inbound, s) \in Seq(Posts \cup Replies)
    BY <2>2, AppendFacts
  <2>4. Append(Append(inbound, c), s) \in Seq(Posts \cup Replies)
    BY <2>3, AppendFacts
  <2>5. inbound' \in Seq(Posts \cup Replies)
    BY <2>1, <2>2, <2>3, <2>4
  <2> QED BY <1>6, <1>8, <2>5, FixFacts
<1>9. ASSUME NEW i \in asked, EditorAnswers(i) PROVE LspType'
  <2>1. i \in Nat /\ asked' = asked \ {i} /\ inbound' = Append(inbound, [op |-> "answer", id |-> i])
    BY <1>9 DEF EditorAnswers, LspType, LoopType
  <2>2. [op |-> "answer", id |-> i] \in Posts \cup Replies
    BY <2>1 DEF Replies
  <2>3. inbound' \in Seq(Posts \cup Replies)
    BY <2>1, <2>2, AppendFacts DEF LspType, QueueType
  <2>4. IsFiniteSet(asked') /\ asked' \subseteq Nat
    BY <2>1, FS_RemoveElement DEF LspType, LoopType
  <2>5. EditorType' /\ StoreType' /\ CallType' /\ QueueType'
    BY <1>9, <2>3 DEF EditorAnswers, channels, LspType, EditorType, StoreType, CallType, QueueType
  <2>6. LoopType'
    BY <1>9, <2>4 DEF EditorAnswers, LspType, LoopType
  <2> QED BY <2>5, <2>6 DEF LspType
<1>10. CASE UNCHANGED vars
  BY <1>10 DEF vars, channels, LspType, EditorType, StoreType, QueueType, CallType, LoopType
<1> QED BY <1>1, <1>2, <1>3, <1>4, <1>5, <1>7, <1>8, <1>9, <1>10 DEF Next

\* The server starts out well formed.
LEMMA TypeInit == Init => LspType
<1> SUFFICES ASSUME Init PROVE LspType
  OBVIOUS
<1>1. EditorType /\ StoreType
  BY ReportTypes DEF Init, EditorType, StoreType, Closed
<1>2. QueueType
  BY DEF Init, QueueType
<1>3. CallType
  BY FS_EmptySet DEF Init, CallType
<1>4. LoopType
  BY FS_EmptySet DEF Init, LoopType, NoCall
<1> QED BY <1>1, <1>2, <1>3, <1>4 DEF LspType

\* For any documents, capacities and messages the state keeps its shape, and a reverse request
\* always finds an id that no call, queue or message still holds.
THEOREM TypeCorrect == Spec => []LspType
BY TypeInit, TypeStep, PTL DEF Spec

-----------------------------------------------------------------------------
(* The order of the editor's messages.                                     *)

Inbound == Posts \cup Replies

\* Only what was handled before matters.
LEMMA OpenKept ==
    ASSUME NEW q, NEW p, NEW O, NEW d, NEW k \in Nat, \A i \in 1..(k - 1) : p[i] = q[i], OpenAfter(q, O, d, k)
    PROVE  OpenAfter(p, O, d, k)
<1>1. CASE d \in O /\ \A i \in 1..(k - 1) : ~Closes(q[i], d)
  <2>1. \A i \in 1..(k - 1) : ~Closes(p[i], d)
    BY <1>1
  <2> QED BY <1>1, <2>1 DEF OpenAfter
<1>2. ASSUME NEW j \in 1..(k - 1), Opens(q[j], d), \A i \in j..(k - 1) : ~Closes(q[i], d)
      PROVE  OpenAfter(p, O, d, k)
  <2>1. Opens(p[j], d)
    BY <1>2
  <2>2. \A i \in j..(k - 1) : i \in 1..(k - 1) /\ ~Closes(p[i], d)
    BY <1>2
  <2> QED BY <2>1, <2>2 DEF OpenAfter
<1> QED BY <1>1, <1>2 DEF OpenAfter

\* One more message, that opens the document or leaves it open.
LEMMA OpenNext ==
    ASSUME NEW q, NEW O, NEW d, NEW k \in Nat \ {0},
           Opens(q[k], d) \/ (~Closes(q[k], d) /\ OpenAfter(q, O, d, k))
    PROVE  OpenAfter(q, O, d, k + 1)
<1>0. k \in 1..k /\ (k + 1) - 1 = k /\ \A i \in 1..k : i = k \/ i \in 1..(k - 1)
  OBVIOUS
<1>1. CASE Opens(q[k], d)
  <2>1. \A i \in k..k : i = k
    OBVIOUS
  <2>2. ~Closes(q[k], d)
    BY <1>1 DEF Opens, Closes
  <2>3. \E j \in 1..k : Opens(q[j], d) /\ \A i \in j..k : ~Closes(q[i], d)
    BY <1>0, <1>1, <2>1, <2>2
  <2> QED BY <1>0, <2>3 DEF OpenAfter
<1>2. CASE ~Closes(q[k], d) /\ d \in O /\ \A i \in 1..(k - 1) : ~Closes(q[i], d)
  <2>1. \A i \in 1..k : ~Closes(q[i], d)
    BY <1>0, <1>2
  <2> QED BY <1>0, <1>2, <2>1 DEF OpenAfter
<1>3. ASSUME ~Closes(q[k], d), NEW j \in 1..(k - 1), Opens(q[j], d), \A i \in j..(k - 1) : ~Closes(q[i], d)
      PROVE  OpenAfter(q, O, d, k + 1)
  <2>1. j \in 1..k /\ \A i \in j..k : i = k \/ i \in j..(k - 1)
    OBVIOUS
  <2>2. \A i \in j..k : ~Closes(q[i], d)
    BY <1>3, <2>1
  <2> QED BY <1>0, <1>3, <2>1, <2>2 DEF OpenAfter
<1> QED BY <1>1, <1>2, <1>3 DEF OpenAfter

\* A message the editor adds.
LEMMA ProtocolAppend ==
    ASSUME NEW q \in Seq(Inbound), NEW t, NEW u, NEW O, NEW m \in Inbound, Consistent(q, t, O),
           m.op = "save" => m.doc \in Docs /\ t[m.doc] # Closed,
           \A d \in Docs : u[d] # Closed => Opens(m, d) \/ (~Closes(m, d) /\ t[d] # Closed)
    PROVE  Consistent(Append(q, m), u, O)
<1> DEFINE p == Append(q, m)
           n == Len(q)
<1>1. n \in Nat /\ Len(p) = n + 1 /\ (\A i \in 1..n : p[i] = q[i]) /\ p[n + 1] = m
  BY AppendFacts
<1> HIDE DEF p, n
<1>2. ASSUME NEW d \in Docs, t[d] # Closed PROVE OpenAfter(p, O, d, n + 1)
  <2>1. OpenAfter(q, O, d, n + 1)
    BY <1>2 DEF Consistent, n
  <2>2. (n + 1) - 1 = n /\ n + 1 \in Nat
    BY <1>1
  <2> QED BY <1>1, <2>1, <2>2, OpenKept
<1>3. ASSUME NEW k \in 1..(n + 1), p[k].op = "save" PROVE OpenAfter(p, O, p[k].doc, k)
  <2>1. CASE k = n + 1
    BY <1>1, <1>2, <1>3, <2>1
  <2>2. CASE k # n + 1
    <3>1. k \in 1..n /\ k \in Nat /\ \A i \in 1..(k - 1) : i \in 1..n
      BY <1>1, <2>2
    <3>2. p[k] = q[k] /\ OpenAfter(q, O, p[k].doc, k)
      BY <1>1, <1>3, <3>1 DEF Consistent, n
    <3>3. \A i \in 1..(k - 1) : p[i] = q[i]
      BY <1>1, <3>1
    <3> QED BY <3>1, <3>2, <3>3, OpenKept
  <2> QED BY <2>1, <2>2
<1>4. ASSUME NEW d \in Docs, u[d] # Closed PROVE OpenAfter(p, O, d, (n + 1) + 1)
  <2>1. Opens(p[n + 1], d) \/ (~Closes(p[n + 1], d) /\ OpenAfter(p, O, d, n + 1))
    BY <1>1, <1>2, <1>4
  <2>2. n + 1 \in Nat \ {0}
    BY <1>1
  <2> QED BY <2>1, <2>2, OpenNext
<1> QED BY <1>1, <1>3, <1>4 DEF Consistent, p

\* When the first message has been handled the others are one place further.
LEMMA OpenTail ==
    ASSUME NEW q, NEW p, NEW O, NEW P, NEW d, NEW k \in Nat \ {0}, \A i \in 1..(k - 1) : p[i] = q[i + 1],
           Opens(q[1], d) \/ (~Closes(q[1], d) /\ d \in O) => d \in P,
           OpenAfter(q, O, d, k + 1)
    PROVE  OpenAfter(p, P, d, k)
<1>0. /\ (k + 1) - 1 = k /\ 1 \in 1..k
      /\ \A i \in 1..(k - 1) : i + 1 \in 1..k
  OBVIOUS
<1>1. ASSUME \A i \in 1..k : ~Closes(q[i], d) PROVE \A i \in 1..(k - 1) : ~Closes(p[i], d)
  BY <1>0, <1>1
<1>2. CASE d \in O /\ \A i \in 1..k : ~Closes(q[i], d)
  <2>1. d \in P
    BY <1>0, <1>2
  <2> QED BY <1>1, <1>2, <2>1 DEF OpenAfter
<1>3. ASSUME NEW j \in 1..k, Opens(q[j], d), \A i \in j..k : ~Closes(q[i], d)
      PROVE  OpenAfter(p, P, d, k)
  <2>1. CASE j = 1
    <3>1. d \in P /\ \A i \in 1..k : ~Closes(q[i], d)
      BY <1>3, <2>1
    <3> QED BY <1>1, <3>1 DEF OpenAfter
  <2>2. CASE j # 1
    <3>1. j - 1 \in 1..(k - 1) /\ (j - 1) + 1 = j
      BY <2>2
    <3>2. Opens(p[j - 1], d)
      BY <1>3, <3>1
    <3>3. \A i \in (j - 1)..(k - 1) : i \in 1..(k - 1) /\ i + 1 \in j..k
      BY <3>1
    <3>4. \A i \in (j - 1)..(k - 1) : ~Closes(p[i], d)
      BY <1>3, <3>3
    <3> QED BY <3>1, <3>2, <3>4 DEF OpenAfter
  <2> QED BY <2>1, <2>2
<1> QED BY <1>0, <1>2, <1>3 DEF OpenAfter

\* The dispatch loop takes the first message.
LEMMA ProtocolTail ==
    ASSUME NEW q \in Seq(Inbound), q # <<>>, NEW t, NEW O, NEW P, Consistent(q, t, O),
           \A d \in Docs : Opens(q[1], d) \/ (~Closes(q[1], d) /\ d \in O) => d \in P
    PROVE  Consistent(Tail(q), t, P)
<1> DEFINE p == Tail(q)
           n == Len(q)
<1>1. n \in Nat \ {0} /\ Len(p) = n - 1 /\ p \in Seq(Inbound) /\ \A i \in 1..(n - 1) : p[i] = q[i + 1]
  BY TailFacts
<1> HIDE DEF p, n
<1>2. ASSUME NEW k \in 1..n, NEW d \in Docs, OpenAfter(q, O, d, k + 1) PROVE OpenAfter(p, P, d, k)
  <2>1. k \in Nat \ {0} /\ \A i \in 1..(k - 1) : i \in 1..(n - 1)
    BY <1>1
  <2>2. \A i \in 1..(k - 1) : p[i] = q[i + 1]
    BY <1>1, <2>1
  <2> QED BY <1>2, <2>1, <2>2, OpenTail
<1>3. ASSUME NEW k \in 1..Len(p), p[k].op = "save" PROVE OpenAfter(p, P, p[k].doc, k)
  <2>1. k \in 1..(n - 1) /\ k \in 1..n /\ k + 1 \in 1..n
    BY <1>1
  <2>2. p[k] = q[k + 1] /\ OpenAfter(q, O, p[k].doc, k + 1)
    BY <1>1, <1>3, <2>1 DEF Consistent, n
  <2>3. p[k] \in Inbound
    BY <1>1
  <2>4. p[k].doc \in Docs
    BY <1>3, <2>3 DEF Inbound, Posts, Replies
  <2> QED BY <1>2, <2>1, <2>2, <2>4
<1>4. ASSUME NEW d \in Docs, t[d] # Closed PROVE OpenAfter(p, P, d, Len(p) + 1)
  <2>1. OpenAfter(q, O, d, n + 1)
    BY <1>4 DEF Consistent, n
  <2>2. Len(p) + 1 = n /\ n \in 1..n
    BY <1>1
  <2> QED BY <1>2, <2>1, <2>2
<1> QED BY <1>3, <1>4 DEF Consistent, p

\* An answer taken out of the messages neither opens nor closes a document.
LEMMA OpenRemove ==
    ASSUME NEW q, NEW p, NEW O, NEW d, NEW r \in Nat \ {0}, NEW k \in Nat \ {0}, r <= k,
           ~Opens(q[r], d), \A i \in 1..(k - 1) : p[i] = IF i < r THEN q[i] ELSE q[i + 1],
           OpenAfter(q, O, d, k + 1)
    PROVE  OpenAfter(p, O, d, k)
<1>0. /\ (k + 1) - 1 = k
      /\ \A i \in 1..(k - 1) : i \in 1..k /\ i + 1 \in 1..k
  OBVIOUS
<1>1. CASE d \in O /\ \A i \in 1..k : ~Closes(q[i], d)
  <2>1. \A i \in 1..(k - 1) : ~Closes(p[i], d)
    BY <1>0, <1>1
  <2> QED BY <1>1, <2>1 DEF OpenAfter
<1>2. ASSUME NEW j \in 1..k, Opens(q[j], d), \A i \in j..k : ~Closes(q[i], d)
      PROVE  OpenAfter(p, O, d, k)
  <2>1. j # r
    BY <1>2
  <2>2. PICK l \in 1..(k - 1) : (l = j /\ j < r) \/ (l = j - 1 /\ j > r)
    <3>1. CASE j < r
      <4>1. j \in 1..(k - 1)
        BY <3>1
      <4> QED BY <3>1, <4>1
    <3>2. CASE j > r
      <4>1. j - 1 \in 1..(k - 1)
        BY <3>2
      <4> QED BY <3>2, <4>1
    <3> QED BY <2>1, <3>1, <3>2
  <2>3. Opens(p[l], d)
    <3>1. p[l] = q[j]
      BY <2>2
    <3> QED BY <1>2, <3>1
  <2>4. ASSUME NEW i \in l..(k - 1) PROVE ~Closes(p[i], d)
    <3>1. i \in 1..(k - 1)
      BY <2>2
    <3>2. CASE i < r
      <4>1. p[i] = q[i] /\ i \in j..k
        BY <2>2, <3>1, <3>2
      <4> QED BY <1>2, <4>1
    <3>3. CASE ~(i < r)
      <4>1. p[i] = q[i + 1]
        BY <3>1, <3>3
      <4>2. i + 1 \in j..k
        BY <2>2, <3>1, <3>3
      <4> QED BY <1>2, <4>1, <4>2
    <3> QED BY <3>2, <3>3
  <2> QED BY <2>3, <2>4 DEF OpenAfter
<1> QED BY <1>0, <1>1, <1>2 DEF OpenAfter

\* The read loop takes an answer.
LEMMA ProtocolRemove ==
    ASSUME NEW q \in Seq(Inbound), NEW r \in 1..Len(q), q[r].op = "answer", NEW t, NEW O, Consistent(q, t, O)
    PROVE  Consistent(RemoveAt(q, r), t, O)
<1> DEFINE p == RemoveAt(q, r)
           n == Len(q)
<1>1. /\ n \in Nat \ {0} /\ r \in Nat \ {0} /\ r <= n /\ Len(p) = n - 1 /\ p \in Seq(Inbound)
      /\ \A i \in 1..(n - 1) : p[i] = IF i < r THEN q[i] ELSE q[i + 1]
  BY RemoveFacts
<1> HIDE DEF p, n
<1>2. ASSUME NEW k \in 1..n, r <= k, NEW d, OpenAfter(q, O, d, k + 1) PROVE OpenAfter(p, O, d, k)
  <2>1. k \in Nat \ {0} /\ \A i \in 1..(k - 1) : i \in 1..(n - 1)
    BY <1>1
  <2>2. \A i \in 1..(k - 1) : p[i] = IF i < r THEN q[i] ELSE q[i + 1]
    BY <1>1, <2>1
  <2>3. ~Opens(q[r], d)
    BY DEF Opens
  <2> QED BY <1>1, <1>2, <2>1, <2>2, <2>3, OpenRemove
<1>3. ASSUME NEW k \in 1..Len(p), p[k].op = "save" PROVE OpenAfter(p, O, p[k].doc, k)
  <2>1. k \in Nat /\ k \in 1..(n - 1) /\ k \in 1..n /\ k + 1 \in 1..n /\ \A i \in 1..(k - 1) : i \in 1..(n - 1)
    BY <1>1
  <2>2. CASE k < r
    <3>1. p[k] = q[k] /\ OpenAfter(q, O, p[k].doc, k)
      BY <1>1, <1>3, <2>1, <2>2 DEF Consistent, n
    <3>2. \A i \in 1..(k - 1) : i < r
      BY <1>1, <2>1, <2>2
    <3>3. \A i \in 1..(k - 1) : p[i] = q[i]
      BY <1>1, <2>1, <3>2
    <3> QED BY <2>1, <3>1, <3>3, OpenKept
  <2>3. CASE ~(k < r)
    <3>1. p[k] = q[k + 1] /\ OpenAfter(q, O, p[k].doc, k + 1)
      BY <1>1, <1>3, <2>1, <2>3 DEF Consistent, n
    <3>2. r <= k
      BY <1>1, <2>1, <2>3
    <3> QED BY <1>2, <2>1, <3>1, <3>2
  <2> QED BY <2>2, <2>3
<1>4. ASSUME NEW d \in Docs, t[d] # Closed PROVE OpenAfter(p, O, d, Len(p) + 1)
  <2>1. OpenAfter(q, O, d, n + 1)
    BY <1>4 DEF Consistent, n
  <2>2. Len(p) + 1 = n /\ n \in 1..n
    BY <1>1
  <2> QED BY <1>1, <1>2, <2>1, <2>2
<1> QED BY <1>3, <1>4 DEF Consistent, p

\* Steps that leave the messages, the editor's texts and the documents alone.
LEMMA ProtocolSame ==
    ASSUME ProtocolInv, inbound' = inbound, editor'.text = editor.text, store'.documents = store.documents
    PROVE  ProtocolInv'
<1>1. OpenDocs' = OpenDocs
  BY DEF OpenDocs
<1> QED BY <1>1 DEF ProtocolInv, Consistent, OpenAfter, Opens, Closes

\* The steps of a handler leave the documents alone.
LEMMA HandlerDocs ==
    ASSUME LspType, HandlerStep
    PROVE  inbound' = inbound /\ editor' = editor /\ store'.documents = store.documents
<1>1. PICK w \in work : Supersede(w) \/ Lint(w) \/ Republish(w) \/ Respond(w) \/ Commit(w)
  BY DEF HandlerStep
<1>2. inbound' = inbound /\ editor' = editor
  BY <1>1 DEF Supersede, Lint, Republish, Respond, Commit
<1>3. CASE Supersede(w)
  BY <1>2, <1>3, SupersedeStore
<1>4. CASE Lint(w)
  BY <1>2, <1>4, LintStore
<1>5. CASE Republish(w) \/ Respond(w)
  BY <1>2, <1>5 DEF Republish, Respond
<1>6. CASE Commit(w)
  BY <1>2, <1>6, InvalidateStore DEF Commit
<1> QED BY <1>1, <1>3, <1>4, <1>5, <1>6

\* A handled message leaves a document open exactly when the protocol says so.
LEMMA RequestDocs ==
    ASSUME LspType, HandleRequest
    PROVE  /\ inbound # <<>> /\ inbound' = Tail(inbound) /\ editor' = editor
           /\ \A d \in Docs : Opens(inbound[1], d) \/ (~Closes(inbound[1], d) /\ d \in OpenDocs) => d \in OpenDocs'
<1>1. inbound # <<>> /\ inbound' = Tail(inbound) /\ editor' = editor /\ Head(inbound) \in Posts
  BY HeadPost DEF HandleRequest
<1>2. Head(inbound) = inbound[1]
  BY <1>1, TailFacts DEF LspType, QueueType
<1>3. PICK p \in Posts : p = inbound[1]
  BY <1>1, <1>2
<1>4. \/ DidOpen(p) \/ DidChange(p) \/ DidSave(p) \/ DidClose(p)
      \/ FixAllCodeAction(p) \/ ConfigRefresh(p) \/ DidChangeWatchedFiles(p)
  BY <1>2, <1>3 DEF HandleRequest
<1>5. ASSUME NEW d \in Docs, Opens(p, d) \/ (~Closes(p, d) /\ d \in OpenDocs) PROVE store'.documents[d] # Closed
  <2>0. p.text # Closed
    BY DEF Posts, Closed
  <2>1. CASE DidOpen(p)
    <3>1. store'.documents[d] = IF d = p.doc THEN p.text ELSE store.documents[d]
      BY <2>1, OpenStore
    <3> QED BY <1>5, <2>0, <3>1 DEF OpenDocs, Opens
  <2>2. CASE DidChange(p) \/ DidClose(p)
    <3>1. store'.documents[d] = IF d = p.doc THEN (IF p.op = "close" THEN Closed ELSE p.text)
                                ELSE store.documents[d]
      BY <2>2, ChangeStore
    <3> QED BY <1>5, <2>0, <3>1 DEF OpenDocs, Opens, Closes
  <2>3. CASE \/ DidSave(p) \/ FixAllCodeAction(p) \/ ConfigRefresh(p) \/ DidChangeWatchedFiles(p)
    <3>1. p.op \notin {"open", "change"}
      BY <2>3 DEF DidSave, FixAllCodeAction, ConfigRefresh, DidChangeWatchedFiles
    <3>2. store'.documents = store.documents
      BY <2>3, SaveStore, InvalidateStore DEF ConfigRefresh, DidChangeWatchedFiles
    <3> QED BY <1>5, <3>1, <3>2 DEF OpenDocs, Opens
  <2> QED BY <1>4, <2>1, <2>2, <2>3
<1> QED BY <1>1, <1>3, <1>5 DEF OpenDocs

\* Every step keeps saves within the document's open periods.
LEMMA ProtocolStep == LspType /\ ProtocolInv /\ [Next]_vars => ProtocolInv'
<1> SUFFICES ASSUME LspType, ProtocolInv, [Next]_vars PROVE ProtocolInv'
  OBVIOUS
<1>0. inbound \in Seq(Inbound)
  BY DEF LspType, QueueType, Inbound
<1>1. ASSUME HandlerStep PROVE ProtocolInv'
  BY <1>1, HandlerDocs, ProtocolSame
<1>2. ASSUME OnRefresh \/ OnDebounce \/ MergePluginDiagnostics PROVE ProtocolInv'
  <2>1. inbound' = inbound /\ editor' = editor
    BY <1>2 DEF OnRefresh, OnDebounce, MergePluginDiagnostics
  <2>2. store'.documents = store.documents
    BY <1>2 DEF OnRefresh, OnDebounce, MergePluginDiagnostics, LspType, StoreType
  <2> QED BY <2>1, <2>2, ProtocolSame
<1>3. ASSUME HandleRequest PROVE ProtocolInv'
  <2>1. /\ inbound # <<>> /\ inbound' = Tail(inbound) /\ editor' = editor
        /\ \A d \in Docs : Opens(inbound[1], d) \/ (~Closes(inbound[1], d) /\ d \in OpenDocs) => d \in OpenDocs'
    BY <1>3, RequestDocs
  <2>2. PICK P : P = OpenDocs'
    OBVIOUS
  <2>3. PICK q : q = Tail(inbound)
    OBVIOUS
  <2>4. Consistent(q, editor.text, P)
    BY <1>0, <2>1, <2>2, <2>3, ProtocolTail DEF ProtocolInv
  <2>5. inbound' = q /\ editor' = editor
    BY <2>1, <2>3
  <2> QED BY <2>2, <2>4, <2>5 DEF ProtocolInv, Consistent, OpenAfter, Opens, Closes
<1>4. ASSUME TimerFires \/ SessionRefreshes \/ \E i \in DOMAIN calls : CallStep(i) PROVE ProtocolInv'
  BY <1>4, ProtocolSame DEF TimerFires, SessionRefreshes, CallStep
<1>5. ASSUME ReadLoop PROVE ProtocolInv'
  <2>1. PICK k \in DOMAIN inbound : /\ inbound[k].op = "answer" /\ inbound' = RemoveAt(inbound, k)
                                    /\ editor' = editor /\ store' = store
    BY <1>5 DEF ReadLoop, ReadableAnswer
  <2>2. k \in 1..Len(inbound)
    BY <1>0
  <2>3. Consistent(RemoveAt(inbound, k), editor.text, OpenDocs)
    BY <1>0, <2>1, <2>2, ProtocolRemove DEF ProtocolInv
  <2>4. OpenDocs' = OpenDocs
    BY <2>1 DEF OpenDocs
  <2> QED BY <2>1, <2>3, <2>4 DEF ProtocolInv, Consistent, OpenAfter, Opens, Closes
<1>6. ASSUME WriteLoop PROVE ProtocolInv'
  <2>1. inbound' = inbound /\ store' = store
    BY <1>6 DEF WriteLoop
  <2>2. editor'.text = editor.text
    BY <1>6 DEF WriteLoop, LspType, EditorType
  <2> QED BY <2>1, <2>2, ProtocolSame
<1>7. ASSUME NEW q \in Seq(Inbound), inbound' = q, store' = store, Consistent(q, editor'.text, OpenDocs)
      PROVE  ProtocolInv'
  <2>1. OpenDocs' = OpenDocs
    BY <1>7 DEF OpenDocs
  <2> QED BY <1>7, <2>1 DEF ProtocolInv, Consistent, OpenAfter, Opens, Closes
<1>8. ASSUME NEW d \in Docs, EditorSends(d) PROVE ProtocolInv'
  <2>1. store' = store
    BY <1>8, EditorFacts
  <2>2. PICK m \in Posts : inbound' = Append(inbound, m) /\ Fits(m)
    BY <1>8, EditorFacts
  <2>3. m \in Inbound /\ m.doc \in Docs /\ Append(inbound, m) \in Seq(Inbound)
    BY <1>0, AppendFacts DEF Inbound, Posts
  <2>4. \A e \in Docs : editor'.text[e] # Closed => Opens(m, e) \/ (~Closes(m, e) /\ editor.text[e] # Closed)
    BY <2>2 DEF Fits, Opens, Closes
  <2>5. m.op = "save" => m.doc \in Docs /\ editor.text[m.doc] # Closed
    BY <2>2, <2>3 DEF Fits
  <2>6. Consistent(Append(inbound, m), editor'.text, OpenDocs)
    BY <1>0, <2>3, <2>4, <2>5, ProtocolAppend DEF ProtocolInv
  <2> QED BY <1>7, <2>1, <2>2, <2>3, <2>6
<1>9. ASSUME NEW d \in Docs, FixAllAnswered(d) PROVE ProtocolInv'
  <2>1. store' = store
    BY <1>9, FixFacts
  <2>2. PICK c, s \in Posts :
                 /\ c.op = "change" /\ c.doc = d /\ s.op = "save" /\ s.doc = d
                 /\ \A e \in Docs : e # d => editor'.text[e] = editor.text[e]
                 /\ \/ inbound' = inbound /\ editor'.text[d] = editor.text[d]
                    \/ inbound' = Append(inbound, c)
                    \/ inbound' = Append(inbound, s) /\ editor'.text[d] = editor.text[d] /\ editor.text[d] # Closed
                    \/ inbound' = Append(Append(inbound, c), s) /\ editor'.text[d] # Closed
    BY <1>9, FixFacts
  <2>3. c \in Inbound /\ s \in Inbound /\ Append(inbound, c) \in Seq(Inbound) /\ Append(inbound, s) \in Seq(Inbound)
    BY <1>0, AppendFacts DEF Inbound
  <2>4. Append(Append(inbound, c), s) \in Seq(Inbound)
    BY <2>3, AppendFacts
  <2>5. Consistent(inbound, editor.text, OpenDocs)
    BY DEF ProtocolInv
  <2>6. \A e \in Docs : editor'.text[e] # Closed => Opens(c, e) \/ (~Closes(c, e) /\ editor.text[e] # Closed)
    BY <2>2 DEF Opens, Closes
  <2>7. Consistent(Append(inbound, c), editor'.text, OpenDocs)
    BY <1>0, <2>2, <2>3, <2>5, <2>6, ProtocolAppend
  <2>8. \A e : ~Closes(s, e)
    BY <2>2 DEF Closes
  <2>9. CASE inbound' = inbound /\ editor'.text[d] = editor.text[d]
    <3>1. \A e \in Docs : editor'.text[e] = editor.text[e]
      BY <2>2, <2>9
    <3>2. Consistent(inbound, editor'.text, OpenDocs)
      BY <2>5, <3>1 DEF Consistent
    <3> QED BY <1>0, <1>7, <2>1, <2>9, <3>2
  <2>10. CASE inbound' = Append(inbound, c)
    BY <1>7, <2>1, <2>3, <2>7, <2>10
  <2>11. CASE inbound' = Append(inbound, s) /\ editor'.text[d] = editor.text[d] /\ editor.text[d] # Closed
    <3>1. \A e \in Docs : editor'.text[e] = editor.text[e]
      BY <2>2, <2>11
    <3>2. Consistent(Append(inbound, s), editor'.text, OpenDocs)
      BY <1>0, <2>2, <2>3, <2>5, <2>8, <2>11, <3>1, ProtocolAppend
    <3> QED BY <1>7, <2>1, <2>3, <2>11, <3>2
  <2>12. CASE inbound' = Append(Append(inbound, c), s) /\ editor'.text[d] # Closed
    <3>1. Consistent(Append(Append(inbound, c), s), editor'.text, OpenDocs)
      BY <2>2, <2>3, <2>7, <2>8, <2>12, ProtocolAppend
    <3> QED BY <1>7, <2>1, <2>4, <2>12, <3>1
  <2> QED BY <2>2, <2>9, <2>10, <2>11, <2>12
<1>10. ASSUME NEW i \in asked, EditorAnswers(i) PROVE ProtocolInv'
  <2>1. PICK m : m = [op |-> "answer", id |-> i]
    OBVIOUS
  <2>2. /\ inbound' = Append(inbound, m) /\ store' = store /\ editor' = editor /\ m \in Inbound
        /\ m.op = "answer"
    BY <1>10, <2>1 DEF EditorAnswers, Inbound, Replies, LspType, LoopType
  <2>3. Append(inbound, m) \in Seq(Inbound)
    BY <1>0, <2>2, AppendFacts
  <2>4. \A e : ~Closes(m, e)
    BY <2>2 DEF Closes
  <2>5. Consistent(Append(inbound, m), editor.text, OpenDocs)
    BY <1>0, <2>2, <2>4, ProtocolAppend DEF ProtocolInv
  <2> QED BY <1>7, <2>2, <2>3, <2>5
<1>11. CASE UNCHANGED vars
  BY <1>11, ProtocolSame DEF vars
<1> QED BY <1>1, <1>2, <1>3, <1>4, <1>5, <1>6, <1>8, <1>9, <1>10, <1>11 DEF Next, DispatchLoop

-----------------------------------------------------------------------------
(* Stored diagnostics and the results under way.                           *)

\* What is left of the handler's work after a step.
WillDo(ops, d) == \E w \in work' : w.op \in ops /\ w.doc = d

Replacing == {"push", "lint", "drop"}

\* Stored diagnostics stay current, are dropped, or are about to be replaced.
LEMMA FreshKept ==
    ASSUME FreshInv,
           \A d \in Docs : \/ WillDo(Replacing, d) \/ store'.diagnostics[d] = Empty
                           \/ /\ store'.diagnostics[d] = store.diagnostics[d]
                              /\ store'.documents[d] = store.documents[d] /\ store'.view = store.view
                              /\ Doing(Replacing, d) => WillDo(Replacing, d)
    PROVE  FreshInv'
<1> SUFFICES ASSUME NEW d \in Docs
             PROVE  WillDo(Replacing, d) \/ Sound(store'.diagnostics[d], store'.documents[d], store'.view)
  BY DEF FreshInv, WillDo, Doing, Replacing, Sound
<1>1. Doing(Replacing, d) \/ Sound(store.diagnostics[d], store.documents[d], store.view)
  BY DEF FreshInv, Replacing
<1>2. CASE store'.diagnostics[d] = Empty
  BY <1>2 DEF Sound
<1>3. CASE /\ store'.diagnostics[d] = store.diagnostics[d]
           /\ store'.documents[d] = store.documents[d] /\ store'.view = store.view
           /\ Doing(Replacing, d) => WillDo(Replacing, d)
  BY <1>1, <1>3
<1> QED BY <1>2, <1>3

\* A document is open, or was closed before and nothing was added.
LEMMA ClosedKept ==
    ASSUME ClosedInv,
           \A d \in Docs : \/ store'.documents[d] # Closed
                           \/ /\ store.documents[d] = Closed /\ store'.pendingLintURIs \subseteq store.pendingLintURIs
                              /\ store'.diagnostics[d] \in {store.diagnostics[d], Empty}
                              /\ WillDo({"push", "lint"}, d) => Doing({"push", "lint"}, d)
    PROVE  ClosedInv'
<1> SUFFICES ASSUME NEW d \in Docs, store'.documents[d] = Closed
             PROVE  /\ store'.diagnostics[d] = Empty /\ d \notin store'.pendingLintURIs
                    /\ ~WillDo({"push", "lint"}, d)
  BY DEF ClosedInv, IsOpen, WillDo, Doing
<1>1. store.diagnostics[d] = Empty /\ d \notin store.pendingLintURIs /\ ~Doing({"push", "lint"}, d)
  BY DEF ClosedInv, IsOpen
<1> QED BY <1>1

\* A result stays timely while its document's generation and diagnostics stay, and falls behind
\* for good when the generation moves on.
LEMMA TimelyKept ==
    ASSUME LspType, StoreType', NEW r \in Results, Timely(r),
           store'.docGeneration[r.uri] >= store.docGeneration[r.uri],
           store'.docGeneration[r.uri] = store.docGeneration[r.uri] =>
              \/ Doing({"lint"}, r.uri) \/ r.generation # store.docGeneration[r.uri]
              \/ store'.diagnostics[r.uri] = store.diagnostics[r.uri] /\ ~WillDo({"lint"}, r.uri)
    PROVE  Timely(r)'
<1>1. r.uri \in Docs /\ r.generation \in Nat
  BY DEF Results
<1>2. store.docGeneration[r.uri] \in Nat /\ store'.docGeneration[r.uri] \in Nat
  BY <1>1 DEF LspType, StoreType
<1>3. r.generation <= store.docGeneration[r.uri]
  BY DEF Timely
<1>4. r.generation <= store'.docGeneration[r.uri]
  BY <1>1, <1>2, <1>3
<1>5. ASSUME r.generation = store'.docGeneration[r.uri]
      PROVE  store'.docGeneration[r.uri] = store.docGeneration[r.uri] /\ r.generation = store.docGeneration[r.uri]
  BY <1>1, <1>2, <1>3, <1>5
<1>6. ASSUME r.generation = store'.docGeneration[r.uri]
      PROVE  /\ store'.diagnostics[r.uri].native /\ store'.diagnostics[r.uri].plugin = <<>>
             /\ store'.diagnostics[r.uri].text = r.text /\ store'.diagnostics[r.uri].view = r.view
             /\ ~WillDo({"lint"}, r.uri)
  <2>1. /\ store.diagnostics[r.uri].native /\ store.diagnostics[r.uri].plugin = <<>>
        /\ store.diagnostics[r.uri].text = r.text /\ store.diagnostics[r.uri].view = r.view
        /\ ~Doing({"lint"}, r.uri)
    BY <1>5, <1>6 DEF Timely
  <2>2. store'.diagnostics[r.uri] = store.diagnostics[r.uri] /\ ~WillDo({"lint"}, r.uri)
    BY <1>5, <1>6, <2>1
  <2> QED BY <2>1, <2>2
<1> QED BY <1>4, <1>6 DEF Timely, Doing, WillDo

\* The results under way are results.
LEMMA ResultTypes ==
    ASSUME LspType
    PROVE  /\ \A k \in DOMAIN pluginResultCh : pluginResultCh[k] \in Results
           /\ \A i \in Enriching : calls[i].result \in Results
BY DEF LspType, QueueType, CallType, Enriching

\* No result is added, and each of them stays timely.
LEMMA ResultsKept ==
    ASSUME LspType, ResultsInv, OnceInv, KeepsResults, pluginResultCh' = pluginResultCh,
           \A r \in Results : Timely(r) => Timely(r)'
    PROVE  ResultsInv' /\ OnceInv'
<1>1. ASSUME NEW k \in DOMAIN pluginResultCh' PROVE Timely(pluginResultCh[k])'
  <2>1. PICK r \in Results : r = pluginResultCh[k] /\ Timely(r)
    BY ResultTypes DEF ResultsInv
  <2>2. Timely(r)'
    BY <2>1
  <2> QED BY <2>1, <2>2 DEF Timely, Doing
<1>2. ASSUME NEW i \in Enriching' PROVE Timely(calls[i].result)'
  <2>1. i \in Enriching /\ calls'[i].result = calls[i].result
    BY DEF KeepsResults
  <2>2. PICK r \in Results : r = calls[i].result /\ Timely(r)
    BY <2>1, ResultTypes DEF ResultsInv
  <2>3. Timely(r)'
    BY <2>2
  <2> QED BY <2>1, <2>2, <2>3 DEF Timely, Doing
<1>3. ResultsInv'
  BY <1>1, <1>2 DEF ResultsInv
<1>4. OnceInv'
  BY DEF OnceInv, KeepsResults, Same
<1> QED BY <1>3, <1>4

\* Nothing changes but what the calls wait for.
LEMMA DiagnosticsSame ==
    ASSUME LspType, DiagnosticsInv, KeepsResults, UNCHANGED <<pluginResultCh, store, work>>
    PROVE  DiagnosticsInv'
<1>1. \A r \in Results : Timely(r) => Timely(r)'
  BY DEF Timely, Doing
<1>2. ResultsInv' /\ OnceInv'
  BY <1>1, ResultsKept DEF DiagnosticsInv
<1>3. FreshInv' /\ ClosedInv' /\ CommitAlone'
  BY DEF DiagnosticsInv, FreshInv, ClosedInv, CommitAlone, Doing, IsOpen, Sound
<1> QED BY <1>2, <1>3 DEF DiagnosticsInv

\* A goroutine's result moves from its call to the channel.
LEMMA DeliverKept ==
    ASSUME LspType, DiagnosticsInv, NEW i \in Enriching, Finish(i),
           pluginResultCh' = Append(pluginResultCh, calls[i].result), UNCHANGED <<store, work>>
    PROVE  DiagnosticsInv'
<1>1. PICK r \in Results : r = calls[i].result
  BY ResultTypes
<1>2. pluginResultCh \in Seq(Results)
  BY DEF LspType, QueueType
<1>3. PICK n \in Nat : n = Len(pluginResultCh)
  BY <1>2
<1>4. /\ DOMAIN pluginResultCh = 1..n /\ DOMAIN pluginResultCh' = 1..(n + 1)
      /\ \A k \in 1..n : pluginResultCh'[k] = pluginResultCh[k]
      /\ pluginResultCh'[n + 1] = r
      /\ \A k \in 1..(n + 1) : k = n + 1 \/ k \in 1..n
  <2>1. pluginResultCh' = Append(pluginResultCh, r)
    BY <1>1
  <2> QED BY <1>2, <1>3, <2>1
<1>5. DOMAIN calls' = DOMAIN calls \ {i} /\ \A j \in DOMAIN calls' : calls'[j] = calls[j]
  BY FinishFacts DEF Enriching
<1>6. \A j \in Enriching' : j \in Enriching /\ j # i /\ calls'[j].result = calls[j].result
  BY <1>5 DEF Enriching
<1>7. ResultsInv'
  <2>1. ASSUME NEW k \in DOMAIN pluginResultCh' PROVE Timely(pluginResultCh[k])'
    <3>1. PICK q : q = pluginResultCh'[k] /\ Timely(q)
      BY <1>1, <1>4 DEF DiagnosticsInv, ResultsInv
    <3> QED BY <3>1 DEF Timely, Doing
  <2>2. ASSUME NEW j \in Enriching' PROVE Timely(calls[j].result)'
    <3>1. PICK q : q = calls'[j].result /\ Timely(q)
      BY <1>6 DEF DiagnosticsInv, ResultsInv
    <3> QED BY <3>1 DEF Timely, Doing
  <2> QED BY <2>1, <2>2 DEF ResultsInv
<1>8. OnceInv'
  <2>1. ASSUME NEW k \in DOMAIN pluginResultCh', NEW l \in DOMAIN pluginResultCh',
               Same(pluginResultCh'[k], pluginResultCh'[l])
        PROVE  k = l
    <3>1. CASE k \in 1..n /\ l \in 1..n
      BY <1>4, <2>1, <3>1 DEF DiagnosticsInv, OnceInv
    <3>2. CASE k = n + 1 /\ l \in 1..n
      <4>1. Same(r, pluginResultCh[l])
        BY <1>4, <2>1, <3>2
      <4> QED BY <1>1, <1>4, <3>2, <4>1 DEF DiagnosticsInv, OnceInv, Same
    <3>3. CASE k \in 1..n /\ l = n + 1
      <4>1. Same(pluginResultCh[k], r)
        BY <1>4, <2>1, <3>3
      <4> QED BY <1>1, <1>4, <3>3, <4>1 DEF DiagnosticsInv, OnceInv, Same
    <3> QED BY <1>4, <3>1, <3>2, <3>3
  <2>2. ASSUME NEW k \in DOMAIN pluginResultCh', NEW j \in Enriching'
        PROVE  ~Same(pluginResultCh'[k], calls'[j].result)
    <3>1. CASE k \in 1..n
      BY <1>4, <1>6, <3>1 DEF DiagnosticsInv, OnceInv
    <3>2. CASE k = n + 1
      BY <1>1, <1>4, <1>6, <3>2 DEF DiagnosticsInv, OnceInv
    <3> QED BY <1>4, <3>1, <3>2
  <2>3. \A j, l \in Enriching' : Same(calls'[j].result, calls'[l].result) => j = l
    BY <1>6 DEF DiagnosticsInv, OnceInv
  <2> QED BY <2>1, <2>2, <2>3 DEF OnceInv, Same
<1>9. FreshInv' /\ ClosedInv' /\ CommitAlone'
  BY DEF DiagnosticsInv, FreshInv, ClosedInv, CommitAlone, Doing, IsOpen, Sound
<1> QED BY <1>7, <1>8, <1>9 DEF DiagnosticsInv

\* The steps of a goroutine.
LEMMA CallDiagnostics ==
    ASSUME LspType, DiagnosticsInv, NEW i \in DOMAIN calls, CallStep(i)
    PROVE  DiagnosticsInv'
<1>1. UNCHANGED <<store, work>>
  BY DEF CallStep
<1>2. CASE SendCall(i)
  BY <1>1, <1>2, MoveFacts, DiagnosticsSame DEF SendCall
<1>3. CASE AbandonCall(i) \/ DropResult(i)
  BY <1>1, <1>3, FinishFacts, DiagnosticsSame DEF AbandonCall, DropResult
<1>4. CASE TakeAnswer(i)
  BY <1>1, <1>4, FinishFacts, MoveFacts, DiagnosticsSame DEF TakeAnswer
<1>5. CASE DeliverResult(i)
  <2>1. i \in Enriching
    BY <1>5 DEF DeliverResult, LspType, CallType, Enriching
  <2>2. CASE pluginResultCh' = Append(pluginResultCh, calls[i].result) /\ Finish(i)
    BY <1>1, <2>1, <2>2, DeliverKept
  <2>3. CASE calls' = [calls EXCEPT ![i].pc = "blocked"] /\ UNCHANGED pluginResultCh
    BY <1>1, <2>1, <2>3, MoveFacts, DiagnosticsSame DEF Enriching
  <2> QED BY <1>5, <2>2, <2>3 DEF DeliverResult
<1> QED BY <1>2, <1>3, <1>4, <1>5 DEF CallStep

\* A superseded generation takes its results with it.
LEMMA SupersedeDiagnostics ==
    ASSUME LspType, LspType', DiagnosticsInv, NEW w \in work, Supersede(w)
    PROVE  DiagnosticsInv'
<1>1. /\ w \in Tasks /\ w.doc \in Docs /\ w.op \in {"push", "drop"} /\ pluginResultCh' = pluginResultCh
      /\ \A x \in work : x.op # "lint"
  BY WorkTypes DEF Supersede, channels
<1>2. PICK l : l = [op |-> "lint", doc |-> w.doc]
  OBVIOUS
<1>3. /\ l.op = "lint" /\ l.doc = w.doc /\ work \ {w} \subseteq work' /\ work' \subseteq (work \ {w}) \cup {l}
      /\ w.op = "push" => l \in work'
      /\ w.op = "drop" => l \notin work'
  <2>1. l.op = "lint" /\ l.doc = w.doc
    BY <1>2
  <2>2. work' = (work \ {w}) \cup (IF w.op = "push" THEN {l} ELSE {})
    BY <1>2 DEF Supersede
  <2> QED BY <1>1, <2>1, <2>2
<1>4. /\ store'.documents = store.documents /\ store'.pendingLintURIs = store.pendingLintURIs
      /\ store'.view = store.view
      /\ \A d \in Docs : /\ store'.docGeneration[d] =
                              IF d = w.doc THEN store.docGeneration[d] + 1 ELSE store.docGeneration[d]
                         /\ store'.diagnostics[d] =
                              IF d = w.doc /\ w.op = "drop" THEN Empty ELSE store.diagnostics[d]
  BY SupersedeStore
<1>5. KeepsResults
  BY <1>1, CancelFacts DEF Supersede
<1>6. \A d \in Docs : store.docGeneration[d] \in Nat
  BY DEF LspType, StoreType
<1>7. FreshInv'
  <2>1. ASSUME NEW d \in Docs
        PROVE  \/ WillDo(Replacing, d) \/ store'.diagnostics[d] = Empty
               \/ /\ store'.diagnostics[d] = store.diagnostics[d]
                  /\ store'.documents[d] = store.documents[d] /\ store'.view = store.view
                  /\ Doing(Replacing, d) => WillDo(Replacing, d)
    <3>1. CASE d = w.doc /\ w.op = "push"
      BY <1>3, <3>1 DEF WillDo, Replacing
    <3>2. CASE d = w.doc /\ w.op = "drop"
      BY <1>4, <3>2
    <3>3. CASE d # w.doc
      <4>1. Doing(Replacing, d) => WillDo(Replacing, d)
        BY <1>3, <3>3 DEF Doing, WillDo
      <4> QED BY <1>4, <3>3, <4>1
    <3> QED BY <1>1, <3>1, <3>2, <3>3
  <2> QED BY <2>1, FreshKept DEF DiagnosticsInv
<1>8. ClosedInv'
  <2>1. ASSUME NEW d \in Docs, store.documents[d] = Closed
        PROVE  WillDo({"push", "lint"}, d) => Doing({"push", "lint"}, d)
    <3>1. l \in work' => w.op = "push" /\ l.doc = w.doc
      BY <1>1, <1>3
    <3> QED BY <1>3, <3>1 DEF Doing, WillDo
  <2> QED BY <1>4, <2>1, ClosedKept DEF DiagnosticsInv
<1>9. ASSUME NEW r \in Results, Timely(r) PROVE Timely(r)'
  <2>1. r.uri \in Docs /\ store.docGeneration[r.uri] \in Nat
    BY <1>6 DEF Results
  <2>2. CASE r.uri = w.doc
    <3>1. store'.docGeneration[r.uri] = store.docGeneration[r.uri] + 1
      BY <1>4, <2>1, <2>2
    <3> QED BY <1>9, <2>1, <3>1, TimelyKept DEF LspType
  <2>3. CASE r.uri # w.doc
    <3>1. store'.docGeneration[r.uri] = store.docGeneration[r.uri] /\ store'.diagnostics[r.uri] = store.diagnostics[r.uri]
      BY <1>4, <2>1, <2>3
    <3>2. ~WillDo({"lint"}, r.uri)
      BY <1>1, <1>3, <2>3 DEF WillDo
    <3> QED BY <1>9, <2>1, <3>1, <3>2, TimelyKept DEF LspType
  <2> QED BY <2>2, <2>3
<1>10. ResultsInv' /\ OnceInv'
  BY <1>1, <1>5, <1>9, ResultsKept DEF DiagnosticsInv
<1>11. CommitAlone'
  BY <1>1, <1>3 DEF DiagnosticsInv, CommitAlone
<1> QED BY <1>7, <1>8, <1>10, <1>11 DEF DiagnosticsInv

\* A lint stores diagnostics of the present text, and starts the one result of its generation.
LEMMA LintDiagnostics ==
    ASSUME LspType, LspType', DiagnosticsInv, NEW w \in work, Lint(w)
    PROVE  DiagnosticsInv'
<1>1. /\ w \in Tasks /\ w.doc \in Docs /\ w.op = "lint" /\ work' = work \ {w} /\ pluginResultCh' = pluginResultCh
  BY WorkTypes DEF Lint
<1>2. PICK d \in Docs : d = w.doc
  BY <1>1
<1>3. ~WillDo({"lint"}, d)
  <2>1. ASSUME NEW x \in work', x.op = "lint", x.doc = d PROVE FALSE
    <3>1. x \in Tasks /\ x # w
      BY <1>1, <2>1, WorkTypes
    <3> QED BY <1>1, <1>2, <2>1, <3>1 DEF Tasks
  <2> QED BY <2>1 DEF WillDo
<1>4. \A e \in Docs : e # d =>
         (Doing(Replacing, e) => WillDo(Replacing, e)) /\ (WillDo({"lint"}, e) => Doing({"lint"}, e))
  BY <1>1, <1>2 DEF Doing, WillDo
<1>5. Doing({"lint"}, d)
  BY <1>1, <1>2 DEF Doing
<1>6. /\ store'.documents = store.documents /\ store'.pendingLintURIs = store.pendingLintURIs
      /\ store'.view = store.view /\ store'.docGeneration = store.docGeneration
      /\ \A e \in Docs : e # d => store'.diagnostics[e] = store.diagnostics[e]
  BY <1>2, LintStore
<1>7. PICK native \in BOOLEAN, s \in Reports :
         /\ s.text = store.documents[d] /\ s.view = store.view /\ s.native = native /\ s.plugin = <<>>
         /\ store'.diagnostics[d] = IF native THEN s ELSE Empty
         /\ ~native => UNCHANGED <<calls, inflight>>
  BY <1>2, LintStore
<1>8. FreshInv'
  <2>1. Sound(store'.diagnostics[d], store'.documents[d], store'.view)
    BY <1>6, <1>7 DEF Sound
  <2>2. ASSUME NEW e \in Docs, e # d
        PROVE  WillDo(Replacing, e) \/ Sound(store'.diagnostics[e], store'.documents[e], store'.view)
    <3>1. Doing(Replacing, e) \/ Sound(store.diagnostics[e], store.documents[e], store.view)
      BY DEF DiagnosticsInv, FreshInv, Replacing
    <3> QED BY <1>4, <1>6, <2>2, <3>1
  <2> QED BY <2>1, <2>2 DEF FreshInv, WillDo, Doing, Replacing, Sound
<1>9. ClosedInv'
  <2>1. \A e \in Docs : WillDo({"push", "lint"}, e) => Doing({"push", "lint"}, e)
    BY <1>1 DEF WillDo, Doing
  <2>2. store.documents[d] # Closed
    BY <1>5 DEF DiagnosticsInv, ClosedInv, IsOpen, Doing
  <2> QED BY <1>6, <2>1, <2>2, ClosedKept DEF DiagnosticsInv
<1>10. ASSUME NEW r \in Results, Timely(r) PROVE Timely(r)'
  <2>1. r.uri \in Docs /\ store.docGeneration[r.uri] \in Nat
    BY DEF Results, LspType, StoreType
  <2>2. r.uri # d /\ ~Doing({"lint"}, r.uri) => store'.diagnostics[r.uri] = store.diagnostics[r.uri] /\ ~WillDo({"lint"}, r.uri)
    BY <1>4, <1>6, <2>1
  <2>3. store'.docGeneration[r.uri] = store.docGeneration[r.uri]
    BY <1>6
  <2> QED BY <1>5, <1>10, <2>1, <2>2, <2>3, TimelyKept DEF LspType
<1>11. CommitAlone'
  BY <1>1 DEF DiagnosticsInv, CommitAlone
<1>12. CASE calls' = calls
  <2>1. KeepsResults
    BY <1>12 DEF KeepsResults, Enriching
  <2> QED BY <1>1, <1>8, <1>9, <1>10, <1>11, <2>1, ResultsKept DEF DiagnosticsInv
<1>13. PICK result \in Results : result = [uri |-> d, generation |-> store.docGeneration[d],
                                          text |-> store.documents[d], view |-> store.view]
  BY DEF Results, LspType, StoreType
<1>14. CASE calls' = Started(Call("enrich", result))
  <2>1. /\ NextId \notin DOMAIN calls /\ DOMAIN calls' = DOMAIN calls \cup {NextId}
        /\ calls'[NextId].kind = "enrich" /\ calls'[NextId].result = result
        /\ \A j \in DOMAIN calls : calls'[j] = calls[j]
    BY <1>14, StartFacts
  <2>2. PICK n : n = NextId
    OBVIOUS
  <2>3. /\ \A i \in Enriching' : i = n \/ i \in Enriching
        /\ \A i \in Enriching : i # n /\ calls'[i].result = calls[i].result
        /\ calls'[n].result = result
    BY <2>1, <2>2 DEF Enriching
  <2>4. native
    <3>1. calls' # calls
      BY <2>1
    <3> QED BY <1>7, <3>1
  <2>5. /\ result.uri = d /\ result.generation = store.docGeneration[d]
        /\ result.text = store.documents[d] /\ result.view = store.view
    BY <1>13
  <2>6. Timely(result)'
    <3>1. /\ result.generation <= store'.docGeneration[result.uri]
          /\ store'.diagnostics[result.uri].native /\ store'.diagnostics[result.uri].plugin = <<>>
          /\ store'.diagnostics[result.uri].text = result.text /\ store'.diagnostics[result.uri].view = result.view
      <4>1. store.docGeneration[d] \in Nat
        BY DEF LspType, StoreType
      <4>2. result.generation <= store'.docGeneration[result.uri]
        BY <1>6, <2>5, <4>1
      <4>3. store'.diagnostics[d] = s
        BY <1>7, <2>4
      <4>4. s.native
        BY <1>7, <2>4
      <4> QED BY <1>7, <2>5, <4>2, <4>3, <4>4
    <3>2. ~WillDo({"lint"}, result.uri)
      BY <1>3, <2>5
    <3> QED BY <3>1, <3>2 DEF Timely, Doing, WillDo
  <2>7. ASSUME NEW r, Timely(r) PROVE ~Same(r, result) /\ ~Same(result, r)
    BY <1>5, <2>5, <2>7 DEF Timely, Same
  <2>8. ResultsInv'
    <3>1. ASSUME NEW k \in DOMAIN pluginResultCh' PROVE Timely(pluginResultCh[k])'
      <4>1. PICK q \in Results : q = pluginResultCh[k] /\ Timely(q)
        BY <1>1, ResultTypes DEF DiagnosticsInv, ResultsInv
      <4>2. Timely(q)'
        BY <1>10, <4>1
      <4> QED BY <1>1, <4>1, <4>2 DEF Timely, Doing
    <3>2. ASSUME NEW i \in Enriching' PROVE Timely(calls[i].result)'
      <4>1. CASE i \in Enriching
        <5>1. PICK q \in Results : q = calls[i].result /\ Timely(q)
          BY <4>1, ResultTypes DEF DiagnosticsInv, ResultsInv
        <5>2. Timely(q)' /\ q = calls'[i].result
          BY <1>10, <2>3, <4>1, <5>1
        <5> QED BY <5>2 DEF Timely, Doing
      <4>2. CASE i = n
        BY <2>3, <2>6, <4>2 DEF Timely, Doing
      <4> QED BY <2>3, <4>1, <4>2
    <3> QED BY <3>1, <3>2 DEF ResultsInv
  <2>9. OnceInv'
    <3>1. \A k, l \in DOMAIN pluginResultCh' : Same(pluginResultCh'[k], pluginResultCh'[l]) => k = l
      BY <1>1 DEF DiagnosticsInv, OnceInv
    <3>2. ASSUME NEW k \in DOMAIN pluginResultCh', NEW i \in Enriching'
          PROVE  ~Same(pluginResultCh'[k], calls'[i].result)
      <4>1. CASE i \in Enriching
        BY <1>1, <2>3, <4>1 DEF DiagnosticsInv, OnceInv
      <4>2. CASE i = n
        <5>1. Timely(pluginResultCh[k])
          BY <1>1 DEF DiagnosticsInv, ResultsInv
        <5> QED BY <1>1, <2>3, <2>7, <4>2, <5>1
      <4> QED BY <2>3, <4>1, <4>2
    <3>3. ASSUME NEW i \in Enriching', NEW j \in Enriching', Same(calls'[i].result, calls'[j].result)
          PROVE  i = j
      <4>1. CASE i \in Enriching /\ j \in Enriching
        BY <2>3, <3>3, <4>1 DEF DiagnosticsInv, OnceInv
      <4>2. CASE i \in Enriching /\ j = n
        <5>1. Timely(calls[i].result)
          BY <4>2 DEF DiagnosticsInv, ResultsInv
        <5> QED BY <2>3, <2>7, <3>3, <4>2, <5>1
      <4>3. CASE i = n /\ j \in Enriching
        <5>1. Timely(calls[j].result)
          BY <4>3 DEF DiagnosticsInv, ResultsInv
        <5> QED BY <2>3, <2>7, <3>3, <4>3, <5>1
      <4> QED BY <2>3, <4>1, <4>2, <4>3
    <3> QED BY <3>1, <3>2, <3>3 DEF OnceInv, Same
  <2> QED BY <1>8, <1>9, <1>11, <2>8, <2>9 DEF DiagnosticsInv
<1> QED BY <1>2, <1>12, <1>13, <1>14 DEF Lint

\* Steps that add no result and no lint: a document keeps its generation and its diagnostics, or
\* its generation moves on.
LEMMA ResultsCalm ==
    ASSUME LspType, StoreType', DiagnosticsInv, KeepsResults, pluginResultCh' = pluginResultCh,
           \A d \in Docs : \/ store'.docGeneration[d] = store.docGeneration[d] + 1
                           \/ /\ store'.docGeneration[d] = store.docGeneration[d]
                              /\ store'.diagnostics[d] = store.diagnostics[d],
           \A d \in Docs : WillDo({"lint"}, d) => Doing({"lint"}, d)
    PROVE  ResultsInv' /\ OnceInv'
<1>1. ASSUME NEW r \in Results, Timely(r) PROVE Timely(r)'
  <2>1. r.uri \in Docs /\ store.docGeneration[r.uri] \in Nat
    BY DEF Results, LspType, StoreType
  <2>2. CASE store'.docGeneration[r.uri] = store.docGeneration[r.uri] + 1
    BY <1>1, <2>1, <2>2, TimelyKept
  <2>3. CASE store'.docGeneration[r.uri] = store.docGeneration[r.uri] /\ store'.diagnostics[r.uri] = store.diagnostics[r.uri]
    BY <1>1, <2>1, <2>3, TimelyKept
  <2> QED BY <2>1, <2>2, <2>3
<1> QED BY <1>1, ResultsKept DEF DiagnosticsInv

\* A publication and a response leave the diagnostics alone.
LEMMA EndDiagnostics ==
    ASSUME LspType, LspType', DiagnosticsInv, NEW w \in work, Republish(w) \/ Respond(w)
    PROVE  DiagnosticsInv'
<1>1. /\ w.op \in {"republish", "respond"} /\ work' = work \ {w} /\ UNCHANGED <<store, calls, pluginResultCh>>
  BY DEF Republish, Respond
<1>2. KeepsResults
  BY <1>1 DEF KeepsResults, Enriching
<1>3. \A d \in Docs : /\ Doing(Replacing, d) => WillDo(Replacing, d)
                      /\ WillDo({"push", "lint"}, d) => Doing({"push", "lint"}, d)
                      /\ WillDo({"lint"}, d) => Doing({"lint"}, d)
  BY <1>1 DEF Doing, WillDo, Replacing
<1>4. FreshInv' /\ ClosedInv'
  BY <1>1, <1>3, FreshKept, ClosedKept DEF DiagnosticsInv
<1>5. ResultsInv' /\ OnceInv'
  BY <1>1, <1>2, <1>3, ResultsCalm DEF LspType
<1>6. CommitAlone'
  BY <1>1 DEF DiagnosticsInv, CommitAlone
<1> QED BY <1>4, <1>5, <1>6 DEF DiagnosticsInv

\* A new view: whatever is stored for an open document will be dropped, and a closed one has nothing.
LEMMA InvalidateDiagnostics ==
    ASSUME LspType, LspType', DiagnosticsInv, Invalidate, UNCHANGED <<calls, pluginResultCh>>,
           Drops \subseteq work', \A x \in work' : x.op \in {"drop", "respond"}
    PROVE  DiagnosticsInv'
<1>1. /\ store'.documents = store.documents /\ store'.pendingLintURIs = store.pendingLintURIs
      /\ store'.diagnostics = store.diagnostics /\ store'.docGeneration = store.docGeneration
  BY InvalidateStore
<1>2. KeepsResults
  BY DEF KeepsResults, Enriching
<1>3. FreshInv'
  <2>1. ASSUME NEW d \in Docs PROVE WillDo(Replacing, d) \/ store'.diagnostics[d] = Empty
    <3>1. CASE d \in OpenDocs
      <4>1. PICK x : x = [op |-> "drop", doc |-> d]
        OBVIOUS
      <4>2. x \in Drops /\ x.op = "drop" /\ x.doc = d
        BY <3>1, <4>1 DEF Drops
      <4> QED BY <4>2 DEF WillDo, Replacing
    <3>2. CASE d \notin OpenDocs
      BY <1>1, <3>2 DEF OpenDocs, DiagnosticsInv, ClosedInv, IsOpen
    <3> QED BY <3>1, <3>2
  <2> QED BY <2>1, FreshKept DEF DiagnosticsInv
<1>4. \A d \in Docs : ~WillDo({"push", "lint"}, d) /\ ~WillDo({"lint"}, d)
  BY DEF WillDo
<1>5. ClosedInv'
  BY <1>1, <1>4, ClosedKept DEF DiagnosticsInv
<1>6. ResultsInv' /\ OnceInv'
  BY <1>1, <1>2, <1>4, ResultsCalm DEF LspType
<1>7. CommitAlone'
  BY DEF CommitAlone
<1> QED BY <1>3, <1>5, <1>6, <1>7 DEF DiagnosticsInv

\* A config refresh commits its snapshot, or keeps the last good one.
LEMMA CommitDiagnostics ==
    ASSUME LspType, LspType', DiagnosticsInv, NEW w \in work, Commit(w)
    PROVE  DiagnosticsInv'
<1>1. PICK a : a = [op |-> "respond", to |-> "refreshed", doc |-> w.doc]
  OBVIOUS
<1>2. a.op = "respond" /\ UNCHANGED <<calls, pluginResultCh>> /\ w.op = "commit" /\ work = {w}
  BY <1>1 DEF Commit, DiagnosticsInv, CommitAlone
<1>3. CASE Invalidate /\ work' = Drops \cup {a}
  <2>1. \A x \in Drops : x.op = "drop"
    BY DEF Drops
  <2> QED BY <1>2, <1>3, <2>1, InvalidateDiagnostics
<1>4. CASE work' = {a} /\ UNCHANGED store
  <2>1. \A d \in Docs : ~Doing(Replacing, d) /\ ~WillDo({"push", "lint"}, d) /\ ~WillDo({"lint"}, d)
    BY <1>2, <1>4 DEF Doing, WillDo, Replacing
  <2>2. KeepsResults
    BY <1>2 DEF KeepsResults, Enriching
  <2>3. FreshInv' /\ ClosedInv'
    BY <1>4, <2>1, FreshKept, ClosedKept DEF DiagnosticsInv
  <2>4. ResultsInv' /\ OnceInv'
    BY <1>2, <1>4, <2>1, <2>2, ResultsCalm DEF LspType
  <2>5. CommitAlone'
    BY <1>2, <1>4 DEF CommitAlone
  <2> QED BY <2>3, <2>4, <2>5 DEF DiagnosticsInv
<1> QED BY <1>1, <1>3, <1>4 DEF Commit

\* The arms that lint documents start with an idle loop and take open documents only.
LEMMA ArmDiagnostics ==
    ASSUME LspType, LspType', DiagnosticsInv, OnRefresh \/ OnDebounce
    PROVE  DiagnosticsInv'
<1>1. PICK D \in SUBSET Docs : D \subseteq OpenDocs /\ work' = [op : {"push"}, doc : D]
  <2>1. CASE OnRefresh
    BY <2>1 DEF OnRefresh, OpenDocs
  <2>2. CASE OnDebounce
    <3>1. store.pendingLintURIs \subseteq Docs
      BY DEF LspType, StoreType
    <3>2. store.pendingLintURIs \subseteq OpenDocs
      BY <3>1 DEF DiagnosticsInv, ClosedInv, IsOpen, OpenDocs
    <3> QED BY <2>2, <3>1, <3>2 DEF OnDebounce
  <2> QED BY <2>1, <2>2
<1>2. work = {} /\ UNCHANGED <<calls, pluginResultCh>>
  BY DEF OnRefresh, OnDebounce, Idle
<1>3. /\ store'.documents = store.documents /\ store'.diagnostics = store.diagnostics
      /\ store'.docGeneration = store.docGeneration /\ store'.view = store.view
      /\ store'.pendingLintURIs \subseteq store.pendingLintURIs
  <2>1. CASE OnRefresh
    BY <2>1 DEF OnRefresh
  <2>2. CASE OnDebounce
    BY <2>2, UrisStore DEF OnDebounce
  <2> QED BY <2>1, <2>2
<1>4. KeepsResults
  BY <1>2 DEF KeepsResults, Enriching
<1>5. \A x \in work' : x.op = "push" /\ x.doc \in OpenDocs
  BY <1>1
<1>6. \A d \in Docs : /\ ~Doing(Replacing, d) /\ ~WillDo({"lint"}, d)
                      /\ WillDo({"push", "lint"}, d) => store.documents[d] # Closed
  BY <1>2, <1>5 DEF Doing, WillDo, OpenDocs
<1>7. FreshInv' /\ ClosedInv'
  BY <1>3, <1>6, FreshKept, ClosedKept DEF DiagnosticsInv
<1>8. ResultsInv' /\ OnceInv'
  BY <1>2, <1>3, <1>4, <1>6, ResultsCalm DEF LspType
<1>9. CommitAlone'
  BY <1>5 DEF CommitAlone
<1> QED BY <1>7, <1>8, <1>9 DEF DiagnosticsInv

\* A report with one plugin half.
LEMMA MergedReport ==
    ASSUME NEW s \in Reports, s.native, s.plugin = <<>>, NEW x \in Sources, x.text = s.text, x.view = s.view,
           NEW m, m = [s EXCEPT !.plugin = Append(@, x)]
    PROVE  Sound(m, s.text, s.view)
<1>1. m.text = s.text /\ m.view = s.view /\ m.plugin = Append(<<>>, x)
  BY DEF Reports
<1>2. m.native
  BY DEF Reports
<1>3. Len(Append(<<>>, x)) = 1 /\ DOMAIN Append(<<>>, x) = {1} /\ Append(<<>>, x)[1] = x
  <2>1. <<>> \in Seq(Sources) /\ Len(<<>>) = 0
    OBVIOUS
  <2>2. Append(<<>>, x) = <<x>>
    BY <2>1
  <2> QED BY <2>2
<1>4. x = [text |-> s.text, view |-> s.view]
  BY DEF Sources
<1> QED BY <1>1, <1>2, <1>3, <1>4 DEF Sound

\* The result taken from the channel is merged if it is of the document's generation; no other is.
LEMMA MergeDiagnostics ==
    ASSUME LspType, LspType', DiagnosticsInv, MergePluginDiagnostics
    PROVE  DiagnosticsInv'
<1>1. /\ work = {} /\ pluginResultCh # <<>> /\ pluginResultCh' = Tail(pluginResultCh) /\ calls' = calls
      /\ pluginResultCh \in Seq(Results)
  BY DEF MergePluginDiagnostics, Idle, LspType, QueueType
<1>2. PICK ch \in Seq(Results) : ch = pluginResultCh
  BY <1>1
<1>3. PICK n \in Nat \ {0} : n = Len(ch)
  BY <1>1, <1>2
<1>4. PICK r \in Results : r = Head(ch)
  BY <1>1, <1>2, TailFacts
<1>5. /\ r = ch[1] /\ 1 \in 1..n /\ DOMAIN ch = 1..n
      /\ DOMAIN pluginResultCh' = 1..(n - 1)
      /\ \A k \in 1..(n - 1) : k + 1 \in 1..n /\ k + 1 # 1 /\ pluginResultCh'[k] = ch[k + 1]
  <2>1. pluginResultCh' = Tail(ch)
    BY <1>1, <1>2
  <2>2. ch # <<>>
    BY <1>1, <1>2
  <2>3. Tail(ch) \in Seq(Results) /\ Len(Tail(ch)) = n - 1 /\ \A k \in 1..(n - 1) : Tail(ch)[k] = ch[k + 1]
    BY <1>3, <2>2, TailFacts
  <2> QED BY <1>2, <1>3, <1>4, <2>1, <2>2, <2>3, TailFacts
<1>6. /\ \A k \in 1..n : Timely(ch[k]) /\ ch[k] \in Results
      /\ \A i \in Enriching : Timely(calls[i].result) /\ calls[i].result \in Results
      /\ \A k, l \in 1..n : Same(ch[k], ch[l]) => k = l
      /\ \A k \in 1..n, i \in Enriching : ~Same(ch[k], calls[i].result)
      /\ \A i, j \in Enriching : Same(calls[i].result, calls[j].result) => i = j
  BY <1>2, <1>5, ResultTypes DEF DiagnosticsInv, ResultsInv, OnceInv
<1>7. Timely(r) /\ r.uri \in Docs
  BY <1>5, <1>6 DEF Results
<1>8. Enriching' = Enriching
  BY <1>1 DEF Enriching
<1>9. ASSUME \A q \in Results : Timely(q) /\ ~Same(q, r) => Timely(q)'
      PROVE  ResultsInv' /\ OnceInv'
  <2>1. ASSUME NEW k \in DOMAIN pluginResultCh' PROVE Timely(pluginResultCh[k])'
    <3>1. PICK q \in Results : q = ch[k + 1]
      BY <1>5, <1>6
    <3>2. Timely(q) /\ ~Same(q, r) /\ q = pluginResultCh'[k]
      BY <1>5, <1>6, <3>1
    <3>3. Timely(q)'
      BY <1>9, <3>2
    <3> QED BY <3>2, <3>3 DEF Timely, Doing
  <2>2. ASSUME NEW i \in Enriching' PROVE Timely(calls[i].result)'
    <3>1. PICK q \in Results : q = calls[i].result
      BY <1>6, <1>8
    <3>2. Timely(q) /\ ~Same(q, r) /\ q = calls'[i].result
      BY <1>1, <1>5, <1>6, <1>8, <3>1 DEF Same
    <3>3. Timely(q)'
      BY <1>9, <3>2
    <3> QED BY <3>2, <3>3 DEF Timely, Doing
  <2>3. \A k, l \in DOMAIN pluginResultCh' : Same(pluginResultCh'[k], pluginResultCh'[l]) => k = l
    <3>1. ASSUME NEW k \in 1..(n - 1), NEW l \in 1..(n - 1), Same(pluginResultCh'[k], pluginResultCh'[l])
          PROVE  k = l
      <4>1. k + 1 = l + 1
        BY <1>5, <1>6, <3>1
      <4> QED BY <4>1
    <3> QED BY <1>5, <3>1
  <2>4. \A k \in DOMAIN pluginResultCh', i \in Enriching' : ~Same(pluginResultCh'[k], calls'[i].result)
    BY <1>1, <1>5, <1>6, <1>8
  <2>5. \A i, j \in Enriching' : Same(calls'[i].result, calls'[j].result) => i = j
    BY <1>1, <1>6, <1>8
  <2> QED BY <2>1, <2>2, <2>3, <2>4, <2>5 DEF ResultsInv, OnceInv, Same
<1>10. CASE Admitted(r)
  <2>1. /\ store' = [store EXCEPT !.diagnostics[r.uri].plugin = Append(@, [text |-> r.text, view |-> r.view])]
        /\ work' = {[op |-> "republish", doc |-> r.uri]}
    BY <1>2, <1>4, <1>10 DEF MergePluginDiagnostics
  <2>2. /\ store'.documents = store.documents
        /\ store'.docGeneration = store.docGeneration /\ store'.view = store.view
        /\ store'.pendingLintURIs = store.pendingLintURIs
        /\ \A d \in Docs : d # r.uri => store'.diagnostics[d] = store.diagnostics[d]
        /\ store'.diagnostics[r.uri] =
              [store.diagnostics[r.uri] EXCEPT !.plugin = Append(@, [text |-> r.text, view |-> r.view])]
    BY <2>1, MergeStore
  <2>3. PICK s \in Reports : s = store.diagnostics[r.uri]
    BY <1>7 DEF LspType, StoreType
  <2>4. s.native /\ s.plugin = <<>> /\ s.text = r.text /\ s.view = r.view
    BY <1>7, <1>10, <2>3 DEF Admitted, Timely
  <2>5. \A d \in Docs : ~Doing(Replacing, d)
    BY <1>1 DEF Doing
  <2>6. \A d \in Docs : Sound(store.diagnostics[d], store.documents[d], store.view)
    BY <2>5 DEF DiagnosticsInv, FreshInv, Replacing
  <2>7. s # Empty
    BY <2>4 DEF Empty
  <2>8. s.text = store.documents[r.uri] /\ s.view = store.view
    BY <1>7, <2>3, <2>6, <2>7 DEF Sound
  <2>9. PICK x \in Sources : x = [text |-> r.text, view |-> r.view]
    BY DEF Results, Sources
  <2>10. x.text = s.text /\ x.view = s.view /\ store'.diagnostics[r.uri] = [s EXCEPT !.plugin = Append(@, x)]
    BY <2>2, <2>3, <2>4, <2>9
  <2>11. Sound(store'.diagnostics[r.uri], s.text, s.view)
    BY <2>4, <2>10, MergedReport
  <2>12. FreshInv'
    <3>1. ASSUME NEW d \in Docs PROVE Sound(store'.diagnostics[d], store'.documents[d], store'.view)
      <4>1. CASE d = r.uri
        BY <2>2, <2>8, <2>11, <4>1
      <4>2. CASE d # r.uri
        BY <2>2, <2>6, <4>2
      <4> QED BY <4>1, <4>2
    <3> QED BY <3>1 DEF FreshInv, Sound, Doing
  <2>13. \A y \in work' : y.op = "republish"
    BY <2>1
  <2>14. \A d \in Docs : ~WillDo({"push", "lint"}, d) /\ ~WillDo({"lint"}, d)
    BY <2>13 DEF WillDo
  <2>15. ClosedInv'
    <3>1. store.documents[r.uri] # Closed
      BY <1>10 DEF Admitted, OpenDocs
    <3> QED BY <2>2, <2>14, <3>1, ClosedKept DEF DiagnosticsInv
  <2>16. CommitAlone'
    BY <2>13 DEF CommitAlone
  <2>17. ASSUME NEW q \in Results, Timely(q), ~Same(q, r) PROVE Timely(q)'
    <3>1. q.uri \in Docs /\ store.docGeneration[q.uri] \in Nat
      BY DEF Results, LspType, StoreType
    <3>2. q.generation # store.docGeneration[q.uri] \/ q.uri # r.uri
      BY <1>10, <2>17 DEF Same, Admitted
    <3>3. q.uri # r.uri => store'.diagnostics[q.uri] = store.diagnostics[q.uri]
      BY <2>2, <3>1
    <3> QED BY <2>2, <2>14, <2>17, <3>1, <3>2, <3>3, TimelyKept DEF LspType
  <2> QED BY <1>9, <2>12, <2>15, <2>16, <2>17 DEF DiagnosticsInv
<1>11. CASE ~Admitted(r)
  <2>1. UNCHANGED <<store, work>>
    BY <1>2, <1>4, <1>11 DEF MergePluginDiagnostics
  <2>2. FreshInv' /\ ClosedInv' /\ CommitAlone'
    BY <2>1 DEF DiagnosticsInv, FreshInv, ClosedInv, CommitAlone, Doing, IsOpen, Sound
  <2>3. \A q \in Results : Timely(q) => Timely(q)'
    BY <2>1 DEF Timely, Doing
  <2> QED BY <1>9, <2>2, <2>3 DEF DiagnosticsInv
<1> QED BY <1>10, <1>11

\* A save that reaches the dispatch loop finds its document open.
LEMMA SaveFindsOpen ==
    ASSUME LspType, ProtocolInv, inbound # <<>>, inbound[1].op = "save"
    PROVE  inbound[1].doc \in OpenDocs
<1>1. 1 \in 1..Len(inbound)
  BY DEF LspType, QueueType
<1>2. OpenAfter(inbound, OpenDocs, inbound[1].doc, 1)
  BY <1>1 DEF ProtocolInv, Consistent
<1>3. 1..(1 - 1) = {}
  OBVIOUS
<1> QED BY <1>2, <1>3 DEF OpenAfter

\* The handlers of the editor's messages.
LEMMA RequestDiagnostics ==
    ASSUME LspType, LspType', ProtocolInv, DiagnosticsInv, HandleRequest
    PROVE  DiagnosticsInv'
<1>1. /\ Head(inbound) \in Posts /\ inbound # <<>> /\ work = {} /\ Head(inbound) = inbound[1]
      /\ pluginResultCh' = pluginResultCh
  BY HeadPost DEF HandleRequest
<1>2. PICK p \in Posts : p = inbound[1]
  BY <1>1
<1>3. \/ DidOpen(p) \/ DidChange(p) \/ DidSave(p) \/ DidClose(p)
      \/ FixAllCodeAction(p) \/ ConfigRefresh(p) \/ DidChangeWatchedFiles(p)
  BY <1>1, <1>2 DEF HandleRequest
<1>4. p.doc \in Docs /\ p.text # Closed
  BY DEF Posts, Closed
<1>5. \A d \in Docs : ~Doing(Replacing, d)
  BY <1>1 DEF Doing
<1>6. calls' = calls => KeepsResults
  BY DEF KeepsResults, Enriching
<1>7. ASSUME NEW kind \in {"fixAll", "config"}, calls' = Started(Call(kind, NoResult)) PROVE KeepsResults
  <2>1. /\ NextId \notin DOMAIN calls /\ DOMAIN calls' = DOMAIN calls \cup {NextId}
        /\ calls'[NextId].kind = kind /\ \A j \in DOMAIN calls : calls'[j] = calls[j]
    BY <1>7, StartFacts
  <2> QED BY <1>7, <2>1 DEF KeepsResults, Enriching
<1>8. CASE DidOpen(p)
  <2>1. /\ store'.diagnostics = store.diagnostics
        /\ store'.docGeneration = store.docGeneration /\ store'.view = store.view
        /\ store'.pendingLintURIs = store.pendingLintURIs
        /\ \A d \in Docs : store'.documents[d] = IF d = p.doc THEN p.text ELSE store.documents[d]
    BY <1>8, OpenStore
  <2>2. PICK x : x = [op |-> "push", doc |-> p.doc]
    OBVIOUS
  <2>3. work' = {x} /\ x.op = "push" /\ x.doc = p.doc /\ calls' = calls
    BY <1>8, <2>2 DEF DidOpen
  <2>4. WillDo(Replacing, p.doc) /\ \A d \in Docs : ~WillDo({"lint"}, d) /\ (WillDo({"push", "lint"}, d) => d = p.doc)
    BY <2>3 DEF WillDo, Replacing
  <2>5. FreshInv'
    BY <1>5, <2>1, <2>4, FreshKept DEF DiagnosticsInv
  <2>6. ClosedInv'
    BY <1>4, <2>1, <2>4, ClosedKept DEF DiagnosticsInv
  <2>7. ResultsInv' /\ OnceInv'
    BY <1>1, <1>6, <2>1, <2>3, <2>4, ResultsCalm DEF LspType
  <2>8. CommitAlone'
    BY <2>3 DEF CommitAlone
  <2> QED BY <2>5, <2>6, <2>7, <2>8 DEF DiagnosticsInv
<1>9. CASE DidChange(p) \/ DidClose(p)
  <2>1. /\ store'.view = store.view
        /\ \A d \in Docs :
              /\ store'.documents[d] = IF d = p.doc THEN (IF p.op = "close" THEN Closed ELSE p.text)
                                       ELSE store.documents[d]
              /\ store'.docGeneration[d] = IF d = p.doc THEN store.docGeneration[d] + 1 ELSE store.docGeneration[d]
              /\ store'.diagnostics[d] = IF d = p.doc THEN Empty ELSE store.diagnostics[d]
        /\ store'.pendingLintURIs = IF p.op = "close" THEN store.pendingLintURIs \ {p.doc}
                                    ELSE store.pendingLintURIs \cup {p.doc}
    BY <1>9, ChangeStore
  <2>2. KeepsResults
    BY <1>4, <1>9, CancelFacts DEF DidChange, DidClose
  <2>3. \A x \in work' : x.op = "republish"
    BY <1>1, <1>9 DEF DidChange, DidClose
  <2>4. \A d \in Docs : ~WillDo({"push", "lint"}, d) /\ ~WillDo({"lint"}, d)
    BY <2>3 DEF WillDo
  <2>5. FreshInv'
    BY <1>5, <2>1, FreshKept DEF DiagnosticsInv
  <2>6. ClosedInv'
    <3>1. ASSUME NEW d \in Docs, store'.documents[d] = Closed
          PROVE  store'.diagnostics[d] = Empty /\ d \notin store'.pendingLintURIs /\ ~WillDo({"push", "lint"}, d)
      <4>1. CASE d = p.doc
        BY <1>4, <2>1, <2>4, <3>1, <4>1
      <4>2. CASE d # p.doc
        <5>1. store.diagnostics[d] = Empty /\ d \notin store.pendingLintURIs
          BY <2>1, <3>1, <4>2 DEF DiagnosticsInv, ClosedInv, IsOpen
        <5> QED BY <2>1, <2>4, <4>2, <5>1
      <4> QED BY <4>1, <4>2
    <3> QED BY <3>1 DEF ClosedInv, IsOpen, WillDo, Doing
  <2>7. ResultsInv' /\ OnceInv'
    BY <1>1, <2>1, <2>2, <2>4, ResultsCalm DEF LspType
  <2>8. CommitAlone'
    BY <2>3 DEF CommitAlone
  <2> QED BY <2>5, <2>6, <2>7, <2>8 DEF DiagnosticsInv
<1>10. CASE DidSave(p)
  <2>1. /\ store'.documents = store.documents /\ store'.diagnostics = store.diagnostics
        /\ store'.docGeneration = store.docGeneration /\ store'.view = store.view
        /\ store'.pendingLintURIs = store.pendingLintURIs \ {p.doc}
    BY <1>10, SaveStore
  <2>2. PICK x : x = [op |-> "push", doc |-> p.doc]
    OBVIOUS
  <2>3. work' = {x} /\ x.op = "push" /\ x.doc = p.doc /\ calls' = calls
    BY <1>10, <2>2 DEF DidSave
  <2>4. \A d \in Docs : ~WillDo({"lint"}, d) /\ (WillDo({"push", "lint"}, d) => d = p.doc)
    BY <2>3 DEF WillDo
  <2>5. store.documents[p.doc] # Closed
    BY <1>1, <1>2, <1>10, SaveFindsOpen DEF DidSave, OpenDocs
  <2>6. FreshInv' /\ ClosedInv'
    BY <1>5, <2>1, <2>4, <2>5, FreshKept, ClosedKept DEF DiagnosticsInv
  <2>7. ResultsInv' /\ OnceInv'
    BY <1>1, <1>6, <2>1, <2>3, <2>4, ResultsCalm DEF LspType
  <2>8. CommitAlone'
    BY <2>3 DEF CommitAlone
  <2> QED BY <2>6, <2>7, <2>8 DEF DiagnosticsInv
<1>11. CASE FixAllCodeAction(p) \/ ConfigRefresh(p)
  <2>1. /\ store'.documents = store.documents /\ store'.diagnostics = store.diagnostics
        /\ store'.docGeneration = store.docGeneration /\ store'.view = store.view
        /\ store'.pendingLintURIs \subseteq store.pendingLintURIs
    BY <1>11, SaveStore DEF ConfigRefresh
  <2>2. PICK x : work' = {x} /\ x.op \in {"respond", "commit"}
    <3>1. PICK a, b : a = [op |-> "respond", to |-> "fixed", doc |-> p.doc] /\ b = [op |-> "commit", doc |-> p.doc]
      OBVIOUS
    <3>2. a.op = "respond" /\ b.op = "commit"
      BY <3>1
    <3>3. work' = {a} \/ work' = {b}
      BY <1>11, <3>1 DEF FixAllCodeAction, ConfigRefresh
    <3> QED BY <3>2, <3>3
  <2>3. KeepsResults
    BY <1>6, <1>7, <1>11 DEF FixAllCodeAction, ConfigRefresh
  <2>4. \A d \in Docs : ~WillDo({"push", "lint"}, d) /\ ~WillDo({"lint"}, d)
    BY <2>2 DEF WillDo
  <2>5. FreshInv' /\ ClosedInv'
    BY <1>5, <2>1, <2>4, FreshKept, ClosedKept DEF DiagnosticsInv
  <2>6. ResultsInv' /\ OnceInv'
    BY <1>1, <2>1, <2>3, <2>4, ResultsCalm DEF LspType
  <2>7. CommitAlone'
    BY <2>2 DEF CommitAlone
  <2> QED BY <2>5, <2>6, <2>7 DEF DiagnosticsInv
<1>12. CASE DidChangeWatchedFiles(p)
  <2>1. Invalidate /\ calls' = calls /\ work' = Drops
    BY <1>12 DEF DidChangeWatchedFiles
  <2>2. \A x \in Drops : x.op = "drop"
    BY DEF Drops
  <2> QED BY <1>1, <2>1, <2>2, InvalidateDiagnostics
<1> QED BY <1>3, <1>8, <1>9, <1>10, <1>11, <1>12

\* Every step keeps stored diagnostics current, or about to be replaced.
LEMMA StoreStep == StoreInv /\ [Next]_vars => StoreInv'
<1> SUFFICES ASSUME StoreInv, [Next]_vars PROVE StoreInv'
  OBVIOUS
<1>0. LspType /\ ProtocolInv /\ DiagnosticsInv
  BY DEF StoreInv
<1>1. LspType' /\ ProtocolInv'
  BY <1>0, TypeStep, ProtocolStep
<1>2. ASSUME HandlerStep PROVE DiagnosticsInv'
  BY <1>0, <1>1, <1>2, SupersedeDiagnostics, LintDiagnostics, EndDiagnostics, CommitDiagnostics DEF HandlerStep
<1>3. ASSUME OnRefresh \/ OnDebounce \/ MergePluginDiagnostics \/ HandleRequest PROVE DiagnosticsInv'
  BY <1>0, <1>1, <1>3, ArmDiagnostics, MergeDiagnostics, RequestDiagnostics
<1>4. ASSUME NEW i \in DOMAIN calls, CallStep(i) PROVE DiagnosticsInv'
  BY <1>0, <1>4, CallDiagnostics
<1>5. ASSUME KeepsResults, UNCHANGED <<pluginResultCh, store, work>> PROVE DiagnosticsInv'
  BY <1>0, <1>5, DiagnosticsSame
<1>6. ASSUME ReadLoop PROVE DiagnosticsInv'
  <2>1. PICK id : calls' = calls \/ calls' = [calls EXCEPT ![id].pc = "answered"]
    BY <1>6 DEF ReadLoop
  <2>2. KeepsResults
    <3>1. CASE calls' = calls
      BY <3>1 DEF KeepsResults, Enriching
    <3>2. CASE calls' = [calls EXCEPT ![id].pc = "answered"]
      BY <1>0, <3>2, MoveFacts
    <3> QED BY <2>1, <3>1, <3>2
  <2> QED BY <1>5, <1>6, <2>2 DEF ReadLoop, channels
<1>7. ASSUME UNCHANGED <<pluginResultCh, store, work, calls>> PROVE DiagnosticsInv'
  BY <1>5, <1>7 DEF KeepsResults, Enriching
<1>8. ASSUME \/ TimerFires \/ WriteLoop \/ SessionRefreshes \/ UNCHANGED vars
             \/ \E d \in Docs : EditorSends(d) \/ FixAllAnswered(d)
             \/ \E i \in asked : EditorAnswers(i)
      PROVE  DiagnosticsInv'
  BY <1>7, <1>8 DEF TimerFires, WriteLoop, SessionRefreshes, vars, channels, EditorSends, FixAllAnswered,
                    EditorAnswers, Send
<1>9. DiagnosticsInv'
  BY <1>2, <1>3, <1>4, <1>6, <1>8 DEF Next, DispatchLoop
<1> QED BY <1>1, <1>9 DEF StoreInv

\* Nothing is stored, and nothing under way, at first.
LEMMA StoreInit == Init => StoreInv
<1> SUFFICES ASSUME Init PROVE StoreInv
  OBVIOUS
<1>1. LspType
  BY TypeInit
<1>2. ProtocolInv
  BY DEF Init, ProtocolInv, Consistent
<1>3. FreshInv /\ ClosedInv
  BY DEF Init, FreshInv, ClosedInv, Doing, IsOpen, Sound
<1>4. Enriching = {} /\ DOMAIN pluginResultCh = {}
  BY DEF Init, Enriching
<1>5. ResultsInv /\ OnceInv /\ CommitAlone
  BY <1>4 DEF Init, ResultsInv, OnceInv, CommitAlone
<1> QED BY <1>1, <1>2, <1>3, <1>5 DEF StoreInv, DiagnosticsInv

\* For any documents, capacities and messages: whenever the dispatch loop is at its select, what it
\* keeps of a document was made from the document's present text under the present view, and its
\* plugin reports were merged at most once and from that same text and view.
THEOREM StoredCurrent == Spec => []StoredIsCurrent
<1>1. StoreInv => StoredIsCurrent
  <2> SUFFICES ASSUME StoreInv, Idle, NEW d \in Docs
               PROVE  Sound(store.diagnostics[d], store.documents[d], store.view)
    BY DEF StoredIsCurrent, Sound
  <2> QED BY DEF StoreInv, DiagnosticsInv, FreshInv, Doing, Idle
<1> QED BY <1>1, StoreInit, StoreStep, PTL DEF Spec

-----------------------------------------------------------------------------
(* What the editor will show.                                              *)

Outbound == Asks \cup Notices \cup Responses

Publications(q, d) == {k \in 1..Len(q) : q[k].op = "publish" /\ q[k].doc = d}

\* What is shown of d, now s, once q has been written.
ShownAfter(q, d, s) == IF Publications(q, d) = {} THEN s ELSE q[Max(Publications(q, d))].report

\* The greatest element of a set of positions is the only one that is.
LEMMA LastIs ==
    ASSUME NEW n \in Nat, NEW S \in SUBSET (1..n), NEW x \in S, \A y \in S : y <= x
    PROVE  Max(S) = x
<1>1. Max(S) \in S /\ \A y \in S : Max(S) >= y
  BY LastExists
<1>2. PICK y \in S : y = Max(S)
  BY <1>1
<1>3. y \in Int /\ x \in Int
  OBVIOUS
<1>4. y >= x /\ y <= x
  BY <1>1, <1>2
<1> QED BY <1>2, <1>3, <1>4

\* A message that is not about the document's diagnostics.
LEMMA ShownOther ==
    ASSUME NEW q \in Seq(Outbound), NEW m \in Outbound, NEW d, NEW s, ~(m.op = "publish" /\ m.doc = d)
    PROVE  ShownAfter(Append(q, m), d, s) = ShownAfter(q, d, s)
<1> DEFINE p == Append(q, m)
           n == Len(q)
<1>1. n \in Nat /\ Len(p) = n + 1 /\ (\A i \in 1..n : p[i] = q[i]) /\ p[n + 1] = m
  BY AppendFacts
<1> HIDE DEF p, n
<1>2. \A k \in 1..(n + 1) : k = n + 1 \/ k \in 1..n
  BY <1>1
<1>3. Publications(p, d) = Publications(q, d)
  <2>1. \A k \in 1..n : k \in 1..(n + 1)
    BY <1>1
  <2> QED BY <1>1, <1>2, <2>1 DEF Publications, n
<1>4. CASE Publications(q, d) # {}
  <2>1. Publications(q, d) \in SUBSET (1..n)
    BY DEF Publications, n
  <2>2. Max(Publications(q, d)) \in 1..n
    BY <1>1, <1>4, <2>1, LastExists
  <2> QED BY <1>1, <1>3, <2>2 DEF ShownAfter, p
<1>5. CASE Publications(q, d) = {}
  BY <1>3, <1>5 DEF ShownAfter, p
<1> QED BY <1>4, <1>5

\* The last publication is the one that counts.
LEMMA ShownNew ==
    ASSUME NEW q \in Seq(Outbound), NEW m \in Outbound, NEW s, m.op = "publish"
    PROVE  ShownAfter(Append(q, m), m.doc, s) = m.report
<1> DEFINE p == Append(q, m)
           n == Len(q)
<1>1. n \in Nat /\ Len(p) = n + 1 /\ p[n + 1] = m
  BY AppendFacts
<1> HIDE DEF p, n
<1>2. n + 1 \in Publications(p, m.doc) /\ Publications(p, m.doc) \in SUBSET (1..(n + 1)) /\ n + 1 \in Nat
  BY <1>1 DEF Publications
<1>3. Max(Publications(p, m.doc)) = n + 1
  <2>1. \A y \in Publications(p, m.doc) : y <= n + 1
    BY <1>1, <1>2
  <2> QED BY <1>2, <2>1, LastIs
<1> QED BY <1>1, <1>2, <1>3 DEF ShownAfter, p

\* Writing the first message shows it and changes nothing of what will be shown at last.
LEMMA ShownWritten ==
    ASSUME NEW q \in Seq(Outbound), q # <<>>, NEW d, NEW s, NEW t,
           q[1].op = "publish" /\ q[1].doc = d => t = q[1].report,
           ~(q[1].op = "publish" /\ q[1].doc = d) => t = s
    PROVE  ShownAfter(Tail(q), d, t) = ShownAfter(q, d, s)
<1> DEFINE p == Tail(q)
           n == Len(q)
           P == Publications(p, d)
           Q == Publications(q, d)
<1>1. n \in Nat \ {0} /\ Len(p) = n - 1 /\ \A i \in 1..(n - 1) : p[i] = q[i + 1]
  BY TailFacts
<1> HIDE DEF p, n
<1>2. P \in SUBSET (1..(n - 1)) /\ Q \in SUBSET (1..n) /\ n - 1 \in Nat
  BY <1>1 DEF Publications, n
<1>3. \A k \in 1..(n - 1) : k \in P <=> k + 1 \in Q
  <2>1. \A k \in 1..(n - 1) : k + 1 \in 1..n
    BY <1>1
  <2> QED BY <1>1, <2>1 DEF Publications, n
<1>4. 1 \in Q <=> q[1].op = "publish" /\ q[1].doc = d
  <2>1. 1 \in 1..n
    BY <1>1
  <2> QED BY <2>1 DEF Publications, n
<1>5. \A k \in Q : k # 1 => k - 1 \in 1..(n - 1) /\ (k - 1) + 1 = k
  BY <1>1, <1>2
<1> HIDE DEF P, Q
<1>6. CASE P # {}
  <2>1. PICK m \in 1..(n - 1) : m = Max(P) /\ m \in P /\ \A y \in P : m >= y
    BY <1>2, <1>6, LastExists
  <2>2. m + 1 \in Q
    BY <1>3, <2>1
  <2>3. ASSUME NEW y \in Q PROVE y <= m + 1
    <3>1. CASE y = 1
      BY <3>1
    <3>2. CASE y # 1
      <4>1. y - 1 \in P /\ y \in Nat
        BY <1>2, <1>3, <1>5, <3>2
      <4>2. m >= y - 1
        BY <2>1, <4>1
      <4> QED BY <4>1, <4>2
    <3> QED BY <3>1, <3>2
  <2>4. Max(Q) = m + 1
    BY <1>1, <1>2, <2>2, <2>3, LastIs
  <2> QED BY <1>1, <1>6, <2>1, <2>2, <2>4 DEF ShownAfter, P, Q, p
<1>7. CASE P = {} /\ 1 \in Q
  <2>1. Q = {1}
    BY <1>3, <1>5, <1>7
  <2>2. Max(Q) = 1
    <3>1. 1 \in Q /\ n \in Nat /\ \A y \in Q : y <= 1
      BY <1>1, <2>1
    <3> QED BY <1>2, <3>1, LastIs
  <2> QED BY <1>4, <1>7, <2>2 DEF ShownAfter, P, Q, p
<1>8. CASE P = {} /\ 1 \notin Q
  <2>1. Q = {}
    BY <1>3, <1>5, <1>8
  <2> QED BY <1>4, <1>8, <2>1 DEF ShownAfter, P, Q, p
<1> QED BY <1>6, <1>7, <1>8

\* What will be shown, before and after a step.
LEMMA PublishedIs ==
    ASSUME LspType, LspType', NEW d \in Docs
    PROVE  /\ LastPublished(d) = ShownAfter(outgoingQueue, d, editor.shown[d])
           /\ LastPublished(d)' = ShownAfter(outgoingQueue', d, editor'.shown[d])
           /\ outgoingQueue \in Seq(Outbound) /\ outgoingQueue' \in Seq(Outbound)
<1>1. outgoingQueue \in Seq(Outbound) /\ outgoingQueue' \in Seq(Outbound)
  BY DEF LspType, QueueType, Outbound
<1>2. DOMAIN outgoingQueue = 1..Len(outgoingQueue) /\ DOMAIN outgoingQueue' = 1..Len(outgoingQueue')
  BY <1>1
<1>3. Publishes(d) = Publications(outgoingQueue, d) /\ Publishes(d)' = Publications(outgoingQueue', d)
  BY <1>2 DEF Publishes, Publications
<1> QED BY <1>1, <1>3 DEF LastPublished, ShownAfter

WillShow(d) == ShownAfter(outgoingQueue', d, editor'.shown[d])

WillMirror(d) ==
    \/ WillDo({"republish"}, d)
    \/ /\ store'.diagnostics[d] # Empty => WillShow(d) = store'.diagnostics[d]
       /\ store'.documents[d] = Closed => WillShow(d) = Empty

\* The invariant after a step, document by document.
LEMMA MirrorAfter ==
    ASSUME LspType, LspType', \A d \in Docs : WillMirror(d)
    PROVE  MirrorInv'
<1>1. \A d \in Docs : LastPublished(d)' = WillShow(d)
  BY PublishedIs DEF WillShow
<1> QED BY <1>1 DEF MirrorInv, WillMirror, WillDo, Doing, IsOpen

\* What will be shown stays, and so do the diagnostics unless they are dropped.
LEMMA MirrorKept ==
    ASSUME LspType, LspType', MirrorInv, NEW d \in Docs,
           WillShow(d) = ShownAfter(outgoingQueue, d, editor.shown[d]),
           store'.diagnostics[d] \in {store.diagnostics[d], Empty},
           store'.documents[d] = Closed => store.documents[d] = Closed,
           Doing({"republish"}, d) => WillDo({"republish"}, d)
    PROVE  WillMirror(d)
<1>1. \/ Doing({"republish"}, d)
      \/ /\ store.diagnostics[d] # Empty => WillShow(d) = store.diagnostics[d]
         /\ store.documents[d] = Closed => WillShow(d) = Empty
  BY PublishedIs DEF MirrorInv, IsOpen
<1> QED BY <1>1 DEF WillMirror

\* Nothing is published.
LEMMA ShowsSame ==
    ASSUME LspType, editor'.shown = editor.shown,
           \/ outgoingQueue' = outgoingQueue
           \/ \E m \in Outbound : m.op # "publish" /\ outgoingQueue' = Append(outgoingQueue, m)
    PROVE  \A d \in Docs : WillShow(d) = ShownAfter(outgoingQueue, d, editor.shown[d])
<1>1. outgoingQueue \in Seq(Outbound)
  BY DEF LspType, QueueType, Outbound
<1>2. CASE outgoingQueue' = outgoingQueue
  BY <1>2 DEF WillShow
<1>3. ASSUME NEW m \in Outbound, m.op # "publish", outgoingQueue' = Append(outgoingQueue, m), NEW d \in Docs
      PROVE  WillShow(d) = ShownAfter(outgoingQueue, d, editor.shown[d])
  BY <1>1, <1>3, ShownOther DEF WillShow
<1> QED BY <1>2, <1>3

\* A publication decides what will be shown of its document, and of no other.
LEMMA ShowsPublished ==
    ASSUME LspType, editor' = editor, NEW d \in Docs, NEW r \in Reports, Publish(d, r)
    PROVE  /\ WillShow(d) = r
           /\ \A e \in Docs : e # d => WillShow(e) = ShownAfter(outgoingQueue, e, editor.shown[e])
<1>1. outgoingQueue \in Seq(Outbound)
  BY DEF LspType, QueueType, Outbound
<1>2. PICK m \in Outbound : m = [op |-> "publish", doc |-> d, report |-> r]
  BY DEF Outbound, Notices
<1>3. m.op = "publish" /\ m.doc = d /\ m.report = r /\ outgoingQueue' = Append(outgoingQueue, m)
  BY <1>2 DEF Publish
<1>4. WillShow(d) = r
  BY <1>1, <1>3, ShownNew DEF WillShow
<1>5. ASSUME NEW e \in Docs, e # d PROVE WillShow(e) = ShownAfter(outgoingQueue, e, editor.shown[e])
  BY <1>1, <1>3, <1>5, ShownOther DEF WillShow
<1> QED BY <1>4, <1>5

\* Steps that publish nothing and touch neither the maps nor the handler.
LEMMA MirrorSame ==
    ASSUME LspType, LspType', MirrorInv, UNCHANGED <<store, work>>,
           \A d \in Docs : WillShow(d) = ShownAfter(outgoingQueue, d, editor.shown[d])
    PROVE  MirrorInv'
<1>1. \A d \in Docs : Doing({"republish"}, d) => WillDo({"republish"}, d)
  BY DEF Doing, WillDo
<1>2. \A d \in Docs : WillMirror(d)
  BY <1>1, MirrorKept
<1> QED BY <1>2, MirrorAfter

\* The handler's steps.
LEMMA MirrorHandler ==
    ASSUME StoreInv, LspType', MirrorInv, HandlerStep
    PROVE  MirrorInv'
<1>0. LspType /\ ClosedInv /\ CommitAlone
  BY DEF StoreInv, DiagnosticsInv
<1>1. PICK w \in work : Supersede(w) \/ Lint(w) \/ Republish(w) \/ Respond(w) \/ Commit(w)
  BY DEF HandlerStep
<1>2. editor' = editor
  BY <1>1 DEF Supersede, Lint, Republish, Respond, Commit
<1>3. w.doc \in Docs
  BY <1>0, WorkTypes
<1>4. CASE Supersede(w)
  <2>1. outgoingQueue' = outgoingQueue /\ w.op # "republish" /\ work \ {w} \subseteq work'
    BY <1>4 DEF Supersede, channels
  <2>2. \A d \in Docs : Doing({"republish"}, d) => WillDo({"republish"}, d)
    BY <2>1 DEF Doing, WillDo
  <2>3. \A d \in Docs : WillShow(d) = ShownAfter(outgoingQueue, d, editor.shown[d])
    BY <1>0, <1>2, <2>1, ShowsSame
  <2>4. store'.documents = store.documents /\ \A d \in Docs : store'.diagnostics[d] \in {store.diagnostics[d], Empty}
    BY <1>0, <1>4, SupersedeStore
  <2>5. \A d \in Docs : WillMirror(d)
    BY <1>0, <2>2, <2>3, <2>4, MirrorKept
  <2> QED BY <1>0, <2>5, MirrorAfter
<1>5. CASE Lint(w)
  <2>1. w.op = "lint" /\ work' = work \ {w}
    BY <1>5 DEF Lint
  <2>2. /\ store'.documents = store.documents
        /\ \A d \in Docs : d # w.doc => store'.diagnostics[d] = store.diagnostics[d]
    BY <1>0, <1>5, LintStore
  <2>3. PICK r \in Reports : Publish(w.doc, r) /\ store'.diagnostics[w.doc] \in {r, Empty}
    BY <1>0, <1>5, LintStore
  <2>4. store.documents[w.doc] # Closed
    BY <1>0, <1>3, <2>1 DEF ClosedInv, IsOpen, Doing
  <2>5. \A d \in Docs : Doing({"republish"}, d) => WillDo({"republish"}, d)
    BY <2>1 DEF Doing, WillDo
  <2>6. /\ WillShow(w.doc) = r
        /\ \A e \in Docs : e # w.doc => WillShow(e) = ShownAfter(outgoingQueue, e, editor.shown[e])
    BY <1>0, <1>2, <1>3, <2>3, ShowsPublished
  <2>7. WillMirror(w.doc)
    BY <2>2, <2>3, <2>4, <2>6 DEF WillMirror
  <2>8. \A d \in Docs : d # w.doc => WillMirror(d)
    BY <1>0, <2>2, <2>5, <2>6, MirrorKept
  <2> QED BY <1>0, <2>7, <2>8, MirrorAfter
<1>6. CASE Republish(w)
  <2>1. w.op = "republish" /\ work' = work \ {w} /\ store' = store /\ Publish(w.doc, store.diagnostics[w.doc])
    BY <1>6 DEF Republish
  <2>2. PICK r \in Reports : r = store.diagnostics[w.doc]
    BY <1>0, <1>3 DEF LspType, StoreType
  <2>3. /\ WillShow(w.doc) = r
        /\ \A e \in Docs : e # w.doc => WillShow(e) = ShownAfter(outgoingQueue, e, editor.shown[e])
    BY <1>0, <1>2, <1>3, <2>1, <2>2, ShowsPublished
  <2>4. store.documents[w.doc] = Closed => r = Empty
    BY <1>0, <1>3, <2>2 DEF ClosedInv, IsOpen
  <2>5. WillMirror(w.doc)
    BY <2>1, <2>2, <2>3, <2>4 DEF WillMirror
  <2>6. \A d \in Docs : d # w.doc => (Doing({"republish"}, d) => WillDo({"republish"}, d))
    BY <2>1 DEF Doing, WillDo
  <2>7. \A d \in Docs : d # w.doc => WillMirror(d)
    BY <1>0, <2>1, <2>3, <2>6, MirrorKept
  <2> QED BY <1>0, <2>5, <2>7, MirrorAfter
<1>7. CASE Respond(w)
  <2>1. PICK m \in Outbound : m.op # "publish" /\ outgoingQueue' = Append(outgoingQueue, m)
    <3>1. w.to \in {"fixed", "refreshed"}
      BY <1>0, <1>7, WorkTypes DEF Respond
    <3>2. PICK m : m = [op |-> w.to, doc |-> w.doc]
      OBVIOUS
    <3>3. m \in Responses /\ m.op # "publish"
      BY <1>3, <3>1, <3>2 DEF Responses
    <3> QED BY <1>7, <3>2, <3>3 DEF Respond, Outbound
  <2>2. \A d \in Docs : WillShow(d) = ShownAfter(outgoingQueue, d, editor.shown[d])
    BY <1>0, <1>2, <2>1, ShowsSame
  <2>3. \A d \in Docs : ~Doing({"republish"}, d)
    BY <1>7 DEF Respond, Doing
  <2>4. store' = store
    BY <1>7 DEF Respond
  <2>5. \A d \in Docs : WillMirror(d)
    BY <1>0, <2>2, <2>3, <2>4, MirrorKept
  <2> QED BY <1>0, <2>5, MirrorAfter
<1>8. CASE Commit(w)
  <2>1. outgoingQueue' = outgoingQueue /\ w.op = "commit" /\ work = {w}
    BY <1>0, <1>8 DEF Commit, CommitAlone
  <2>2. store'.documents = store.documents /\ store'.diagnostics = store.diagnostics
    BY <1>0, <1>8, InvalidateStore DEF Commit
  <2>3. \A d \in Docs : ~Doing({"republish"}, d)
    BY <2>1 DEF Doing
  <2>4. \A d \in Docs : WillShow(d) = ShownAfter(outgoingQueue, d, editor.shown[d])
    BY <1>0, <1>2, <2>1, ShowsSame
  <2>5. \A d \in Docs : WillMirror(d)
    BY <1>0, <2>2, <2>3, <2>4, MirrorKept
  <2> QED BY <1>0, <2>5, MirrorAfter
<1> QED BY <1>1, <1>4, <1>5, <1>6, <1>7, <1>8

\* The arms of the select and the handlers of messages start with an idle loop and publish nothing.
LEMMA MirrorArm ==
    ASSUME StoreInv, LspType', MirrorInv,
           OnRefresh \/ OnDebounce \/ MergePluginDiagnostics \/ HandleRequest
    PROVE  MirrorInv'
<1>0. LspType
  BY DEF StoreInv
<1>1. work = {} /\ editor' = editor /\ outgoingQueue' = outgoingQueue
  BY DEF OnRefresh, OnDebounce, MergePluginDiagnostics, HandleRequest, Idle
<1>2. \A d \in Docs : ~Doing({"republish"}, d)
  BY <1>1 DEF Doing
<1>3. \A d \in Docs : WillShow(d) = ShownAfter(outgoingQueue, d, editor.shown[d])
  BY <1>0, <1>1, ShowsSame
<1>4. ASSUME \A d \in Docs : \/ WillDo({"republish"}, d)
                             \/ /\ store'.diagnostics[d] \in {store.diagnostics[d], Empty}
                                /\ store'.documents[d] = Closed => store.documents[d] = Closed
      PROVE  MirrorInv'
  <2>1. ASSUME NEW d \in Docs PROVE WillMirror(d)
    <3>1. CASE WillDo({"republish"}, d)
      BY <3>1 DEF WillMirror
    <3>2. CASE /\ store'.diagnostics[d] \in {store.diagnostics[d], Empty}
               /\ store'.documents[d] = Closed => store.documents[d] = Closed
      BY <1>0, <1>2, <1>3, <3>2, MirrorKept
    <3> QED BY <1>4, <3>1, <3>2
  <2> QED BY <1>0, <2>1, MirrorAfter
<1>5. ASSUME NEW d, work' = {[op |-> "republish", doc |-> d]} PROVE WillDo({"republish"}, d)
  <2>1. PICK x : x = [op |-> "republish", doc |-> d]
    OBVIOUS
  <2>2. x \in work' /\ x.op = "republish" /\ x.doc = d
    BY <1>5, <2>1
  <2> QED BY <2>2 DEF WillDo
<1>6. CASE OnRefresh \/ OnDebounce
  <2>1. store'.documents = store.documents /\ store'.diagnostics = store.diagnostics
    BY <1>0, <1>6, UrisStore DEF OnRefresh, OnDebounce
  <2> QED BY <1>4, <2>1
<1>7. CASE MergePluginDiagnostics
  <2>1. PICK r : r = Head(pluginResultCh)
    OBVIOUS
  <2>2. r \in Results
    BY <1>0, <1>7, <2>1, TailFacts DEF MergePluginDiagnostics, LspType, QueueType
  <2>3. CASE Admitted(r)
    <3>1. /\ store' = [store EXCEPT !.diagnostics[r.uri].plugin = Append(@, [text |-> r.text, view |-> r.view])]
          /\ work' = {[op |-> "republish", doc |-> r.uri]}
      BY <1>7, <2>1, <2>3 DEF MergePluginDiagnostics
    <3>2. store'.documents = store.documents /\ \A d \in Docs : d # r.uri => store'.diagnostics[d] = store.diagnostics[d]
      BY <1>0, <2>2, <3>1, MergeStore
    <3>3. WillDo({"republish"}, r.uri)
      BY <1>5, <3>1
    <3> QED BY <1>4, <3>2, <3>3
  <2>4. CASE ~Admitted(r)
    <3>1. store' = store
      BY <1>7, <2>1, <2>4 DEF MergePluginDiagnostics
    <3> QED BY <1>4, <3>1
  <2> QED BY <2>3, <2>4
<1>8. CASE HandleRequest
  <2>1. PICK p \in Posts : p = Head(inbound)
    BY <1>0, <1>8, HeadPost
  <2>2. \/ DidOpen(p) \/ DidChange(p) \/ DidSave(p) \/ DidClose(p)
        \/ FixAllCodeAction(p) \/ ConfigRefresh(p) \/ DidChangeWatchedFiles(p)
    BY <1>8, <2>1 DEF HandleRequest
  <2>3. p.doc \in Docs /\ p.text # Closed
    BY DEF Posts, Closed
  <2>4. CASE DidOpen(p)
    <3>1. /\ store'.diagnostics = store.diagnostics
          /\ \A d \in Docs : store'.documents[d] = IF d = p.doc THEN p.text ELSE store.documents[d]
      BY <1>0, <2>4, OpenStore
    <3> QED BY <1>4, <2>3, <3>1
  <2>5. CASE DidChange(p) \/ DidClose(p)
    <3>1. \A d \in Docs :
              /\ store'.documents[d] = IF d = p.doc THEN (IF p.op = "close" THEN Closed ELSE p.text)
                                       ELSE store.documents[d]
              /\ store'.diagnostics[d] = IF d = p.doc THEN Empty ELSE store.diagnostics[d]
      BY <1>0, <2>5, ChangeStore
    <3>2. CASE DidChange(p)
      <4>1. p.op # "close"
        BY <3>2 DEF DidChange
      <4> QED BY <1>4, <2>3, <3>1, <4>1
    <3>3. CASE DidClose(p)
      <4>1. WillDo({"republish"}, p.doc)
        BY <1>5, <3>3 DEF DidClose
      <4> QED BY <1>4, <3>1, <4>1
    <3> QED BY <2>5, <3>2, <3>3
  <2>6. CASE \/ DidSave(p) \/ FixAllCodeAction(p) \/ ConfigRefresh(p) \/ DidChangeWatchedFiles(p)
    <3>1. store'.documents = store.documents /\ store'.diagnostics = store.diagnostics
      BY <1>0, <2>6, SaveStore, InvalidateStore DEF ConfigRefresh, DidChangeWatchedFiles
    <3> QED BY <1>4, <3>1
  <2> QED BY <2>2, <2>4, <2>5, <2>6
<1> QED BY <1>6, <1>7, <1>8

\* Every step keeps the editor in line with the store.
LEMMA MirrorStep == StoreInv /\ MirrorInv /\ [Next]_vars => MirrorInv'
<1> SUFFICES ASSUME StoreInv, MirrorInv, [Next]_vars PROVE MirrorInv'
  OBVIOUS
<1>0. LspType /\ LspType'
  BY TypeStep DEF StoreInv
<1>1. ASSUME DispatchLoop PROVE MirrorInv'
  BY <1>0, <1>1, MirrorHandler, MirrorArm DEF DispatchLoop
<1>2. ASSUME UNCHANGED <<store, work>>, editor'.shown = editor.shown,
             \/ outgoingQueue' = outgoingQueue
             \/ \E m \in Outbound : m.op # "publish" /\ outgoingQueue' = Append(outgoingQueue, m)
      PROVE  MirrorInv'
  BY <1>0, <1>2, ShowsSame, MirrorSame
<1>3. ASSUME TimerFires \/ ReadLoop \/ SessionRefreshes \/ UNCHANGED vars \/ \E i \in asked : EditorAnswers(i)
      PROVE  MirrorInv'
  BY <1>2, <1>3 DEF TimerFires, ReadLoop, SessionRefreshes, vars, channels, EditorAnswers
<1>4. ASSUME NEW d \in Docs, EditorSends(d) \/ FixAllAnswered(d) PROVE MirrorInv'
  BY <1>0, <1>2, <1>4, EditorFacts, FixFacts DEF channels
<1>5. ASSUME NEW i \in DOMAIN calls, CallStep(i) PROVE MirrorInv'
  <2>1. UNCHANGED <<store, work, editor>>
    BY <1>5 DEF CallStep
  <2>2. i \in Nat
    BY <1>0 DEF LspType, CallType
  <2>3. PICK a, b : a = [op |-> "call", id |-> i] /\ b = [op |-> "cancel", id |-> i]
    OBVIOUS
  <2>4. a \in Outbound /\ b \in Outbound /\ a.op # "publish" /\ b.op # "publish"
    BY <2>2, <2>3 DEF Outbound, Asks
  <2>5. outgoingQueue' \in {outgoingQueue, Append(outgoingQueue, a), Append(outgoingQueue, b)}
    BY <1>5, <2>3 DEF CallStep, SendCall, AbandonCall, TakeAnswer, DeliverResult, DropResult
  <2> QED BY <1>2, <2>1, <2>4, <2>5
<1>6. ASSUME WriteLoop PROVE MirrorInv'
  <2>1. PICK q \in Seq(Outbound) : q = outgoingQueue
    BY <1>0 DEF LspType, QueueType, Outbound
  <2>2. q # <<>> /\ outgoingQueue' = Tail(q) /\ UNCHANGED <<store, work>>
    BY <1>6, <2>1 DEF WriteLoop
  <2>3. PICK m \in Outbound : m = q[1] /\ m = Head(outgoingQueue)
    BY <2>1, <2>2, TailFacts
  <2>4. editor.shown \in [Docs -> Reports]
    BY <1>0 DEF LspType, EditorType
  <2>5. ASSUME NEW d \in Docs
        PROVE  /\ m.op = "publish" /\ m.doc = d => editor'.shown[d] = m.report
               /\ ~(m.op = "publish" /\ m.doc = d) => editor'.shown[d] = editor.shown[d]
    <3>1. CASE m.op = "publish"
      <4>1. editor' = [editor EXCEPT !.shown[m.doc] = m.report]
        BY <1>6, <2>3, <3>1 DEF WriteLoop
      <4>2. editor'.shown = [editor.shown EXCEPT ![m.doc] = m.report]
        BY <1>0, <4>1 DEF LspType, EditorType
      <4> QED BY <2>4, <3>1, <4>2
    <3>2. CASE m.op = "fixed"
      <4>1. editor' = [editor EXCEPT !.fixing[m.doc] = "answered"]
        BY <1>6, <2>3, <3>2 DEF WriteLoop
      <4> QED BY <1>0, <3>2, <4>1 DEF LspType, EditorType
    <3>3. CASE m.op \notin {"publish", "fixed"}
      <4>1. editor' = editor
        BY <1>6, <2>3, <3>3 DEF WriteLoop
      <4> QED BY <3>3, <4>1
    <3> QED BY <3>1, <3>2, <3>3
  <2>6. \A d \in Docs : WillShow(d) = ShownAfter(outgoingQueue, d, editor.shown[d])
    <3> TAKE d \in Docs
    <3>1. PICK s, t : s = editor.shown[d] /\ t = editor'.shown[d]
      OBVIOUS
    <3>2. ShownAfter(Tail(q), d, t) = ShownAfter(q, d, s)
      <4>1. /\ q[1].op = "publish" /\ q[1].doc = d => t = q[1].report
            /\ ~(q[1].op = "publish" /\ q[1].doc = d) => t = s
        BY <2>3, <2>5, <3>1
      <4> QED BY <2>2, <4>1, ShownWritten
    <3> QED BY <2>1, <2>2, <3>1, <3>2 DEF WillShow
  <2> QED BY <1>0, <2>2, <2>6, MirrorSame
<1> QED BY <1>1, <1>3, <1>4, <1>5, <1>6 DEF Next

\* Nothing is shown and nothing stored at first.
LEMMA MirrorInit == Init => MirrorInv
BY DEF Init, MirrorInv, LastPublished, Publishes

\* For any documents, capacities and messages: whenever the dispatch loop is at its select, what the
\* editor shows, or will show once the outgoing queue is written, is what the server keeps, and a
\* closed document is left with nothing.
THEOREM EditorMirrors == Spec => []EditorMirrorsStore
<1>1. MirrorInv => EditorMirrorsStore
  BY DEF MirrorInv, EditorMirrorsStore, Doing, Idle, IsOpen, OpenDocs
<1> QED BY <1>1, StoreInit, StoreStep, MirrorInit, MirrorStep, PTL DEF Spec
============
