-------------------------- MODULE IpcChannelProofs --------------------------
(***************************************************************************)
(* Safety of internal/ipc/channel.go for any number of callers, handlers   *)
(* and answers.                                                            *)
(***************************************************************************)
EXTENDS IpcChannel, TLAPS

\* The thread sets as the proofs use them.
LEMMA ThreadSets ==
    /\ Requests \subseteq Writers /\ Notes \subseteq Writers /\ Inbounds \subseteq Writers
    /\ Writers \subseteq Threads /\ Reader \in Threads /\ App \in Threads
    /\ Reader \notin Writers /\ App \notin Writers /\ None \notin Threads
    /\ \A t \in Writers : t \in Requests \/ t \in Notes \/ t \in Inbounds
    /\ \A t \in Threads : t \in Writers \/ t = Reader \/ t = App
BY ThreadsDistinct DEF Writers, Threads

\* Appending keeps a sequence's type.
LEMMA AppendType ==
    ASSUME NEW S, NEW s \in Seq(S), NEW e \in S
    PROVE  Append(s, e) \in Seq(S)
OBVIOUS

\* What an appended sequence holds.
LEMMA AppendFacts ==
    ASSUME NEW S, NEW s \in Seq(S), NEW e
    PROVE  /\ Len(s) \in Nat /\ Len(Append(s, e)) = Len(s) + 1
           /\ \A i \in 1..Len(s) : Append(s, e)[i] = s[i]
           /\ Append(s, e)[Len(s) + 1] = e
OBVIOUS

\* Moving one goroutine keeps the program counters well typed.
LEMMA GotoType ==
    ASSUME pc \in [Threads -> PCs], NEW t \in Threads, NEW w \in PCs, Goto(t, w)
    PROVE  pc' \in [Threads -> PCs]
BY DEF Goto

\* Dropping a pending entry keeps the table well typed.
LEMMA WithoutType ==
    ASSUME pending \in SUBSET (Nat \X Requests), NEW id
    PROVE  Without(id) \in SUBSET (Nat \X Requests)
BY DEF Without

\* A writer that gives up changes only its own bookkeeping.
LEMMA GiveUpType ==
    ASSUME TypeOK, NEW t \in Writers, GiveUp(t)
    PROVE  /\ pending' \in SUBSET (Nat \X Requests)
           /\ pc' \in [Threads -> PCs]
           /\ result' \in [Requests \cup Notes -> Results]
           /\ receipt' \in [Inbounds -> {"none", "open", "ok", "err"}]
<1>1. pending' \in SUBSET (Nat \X Requests)
  BY WithoutType DEF GiveUp, TypeOK
<1>2. pc' \in [Threads -> PCs]
  BY GotoType, ThreadSets DEF GiveUp, TypeOK, PCs
<1>3. result' \in [Requests \cup Notes -> Results]
  BY DEF GiveUp, TypeOK, Results
<1>4. receipt' \in [Inbounds -> {"none", "open", "ok", "err"}]
  BY DEF GiveUp, FailReceipt, TypeOK
<1> QED BY <1>1, <1>2, <1>3, <1>4

\* Every step of every goroutine keeps the channel's state well formed.
LEMMA TypeStep == TypeOK /\ [Next]_vars => TypeOK'
<1> SUFFICES ASSUME TypeOK, [Next]_vars PROVE TypeOK'
  OBVIOUS
<1>1. ASSUME NEW r \in Requests, Register(r) PROVE TypeOK'
  <2>1. pc' \in [Threads -> PCs]
    BY <1>1, GotoType, ThreadSets DEF Register, PCs, TypeOK
  <2>2. pending' \in SUBSET (Nat \X Requests)
    <3>1. <<nextID, r>> \in Nat \X Requests
      BY DEF TypeOK
    <3>2. Without(nextID) \in SUBSET (Nat \X Requests)
      BY WithoutType DEF TypeOK
    <3> QED BY <1>1, <3>1, <3>2 DEF Register, TypeOK
  <2>3. nextID' \in Nat \ {0}
    BY <1>1 DEF Register, TypeOK
  <2>4. ids' \in [Requests -> Nat]
    BY <1>1 DEF Register, TypeOK
  <2>5. result' \in [Requests \cup Notes -> Results]
    BY <1>1 DEF Register, TypeOK, Results
  <2> QED BY <1>1, <2>1, <2>2, <2>3, <2>4, <2>5 DEF Register, TypeOK, locks, serving, peer
<1>2. ASSUME NEW r \in Requests, Select(r) PROVE TypeOK'
  <2>1. pc' \in [Threads -> PCs]
    BY <1>2, GotoType, ThreadSets DEF Select, PCs, TypeOK
  <2>2. pending' \in SUBSET (Nat \X Requests)
    BY <1>2, WithoutType DEF Select, TypeOK
  <2>3. buf' \in [Requests -> Seq(Answers)]
    <3>1. buf \in [Requests -> Seq(Answers)] /\ buf[r] \in Seq(Answers)
      BY DEF TypeOK
    <3>2. buf[r] # <<>> => Tail(buf[r]) \in Seq(Answers)
      BY <3>1
    <3> QED BY <1>2, <3>1, <3>2 DEF Select
  <2>4. result' \in [Requests \cup Notes -> Results]
    <3>1. CASE buf[r] # <<>> /\ result' = [result EXCEPT ![r] = Head(buf[r]).kind]
      <4>0. buf[r] \in Seq(Answers)
        BY DEF TypeOK
      <4>1. Head(buf[r]) \in Answers
        BY <3>1, <4>0
      <4>2. Head(buf[r]).kind \in Results
        BY <4>1 DEF Answers, Results
      <4> QED BY <3>1, <4>2 DEF TypeOK
    <3> QED BY <1>2, <3>1 DEF Select, TypeOK, Results
  <2> QED BY <1>2, <2>1, <2>2, <2>3, <2>4 DEF Select, TypeOK, locks, calls, serving, peer
<1>3. ASSUME NEW r \in Requests, Cancel(r) PROVE TypeOK'
  BY <1>3 DEF Cancel, TypeOK, locks, serving, peer
<1>4. ASSUME NEW n \in Notes, Notify(n) PROVE TypeOK'
  <2>1. pc' \in [Threads -> PCs]
    BY <1>4, GotoType, ThreadSets DEF Notify, PCs, TypeOK
  <2>2. result' \in [Requests \cup Notes -> Results]
    BY <1>4 DEF Notify, TypeOK, Results
  <2> QED BY <1>4, <2>1, <2>2 DEF Notify, TypeOK, locks, calls, serving, peer
<1>5. ASSUME NEW t \in Writers, Admit(t) PROVE TypeOK'
  <2>1. CASE GiveUp(t) /\ UNCHANGED writeMu
    BY <1>5, <2>1, GiveUpType DEF Admit, TypeOK, calls, peer
  <2>2. CASE writeMu' = t /\ Goto(t, "writing") /\ UNCHANGED <<pending, result, receipt>>
    <3>1. pc' \in [Threads -> PCs]
      BY <2>2, GotoType, ThreadSets DEF PCs, TypeOK
    <3> QED BY <1>5, <2>2, <3>1 DEF Admit, TypeOK, calls, peer
  <2> QED BY <1>5, <2>1, <2>2 DEF Admit
<1>6. ASSUME NEW t \in Writers, WriteBytes(t) PROVE TypeOK'
  <2>1. \A w \in BOOLEAN : Frame(t, w) \in Frames
    <3>1. CASE t \in Requests
      BY <3>1, ThreadsDistinct DEF Frame, Frames, Kind, Seals, TypeOK
    <3>2. CASE t \in Notes
      BY <3>2, ThreadsDistinct DEF Frame, Frames, Kind, Seals
    <3>3. CASE t \in Inbounds
      <4>1. reply[t].kind \in {"response", "error"} /\ reply[t].seal \in BOOLEAN
        BY <3>3 DEF TypeOK, Replies
      <4> QED BY <3>3, <4>1, ThreadsDistinct DEF Frame, Frames, Kind, Seals
    <3> QED BY <3>1, <3>2, <3>3, ThreadSets
  <2>2. pc' \in [Threads -> PCs]
    BY <1>6, GotoType, ThreadSets DEF WriteBytes, PCs, TypeOK
  <2>3. wire' \in Seq(Frames)
    <3>1. wire \in Seq(Frames) /\ Frame(t, TRUE) \in Frames /\ Frame(t, FALSE) \in Frames
      BY <2>1 DEF TypeOK
    <3>2. \/ wire' = Append(wire, Frame(t, TRUE))
          \/ wire' = Append(wire, Frame(t, FALSE))
          \/ wire' = wire
      BY <1>6 DEF WriteBytes
    <3>3. Append(wire, Frame(t, TRUE)) \in Seq(Frames) /\ Append(wire, Frame(t, FALSE)) \in Seq(Frames)
      BY <3>1, AppendType
    <3> QED BY <3>1, <3>2, <3>3
  <2> QED BY <1>6, <2>2, <2>3 DEF WriteBytes, TypeOK, locks, calls, serving, peer
<1>7. ASSUME NEW t \in Writers, Release(t) PROVE TypeOK'
  <2>1. pc' \in [Threads -> PCs]
    BY <1>7, GotoType, ThreadSets DEF Release, PCs, TypeOK
  <2>2. sealErr' \in SealErrs
    BY <1>7 DEF Release, SealWith, SealErrs, TypeOK
  <2>3. /\ result' \in [Requests \cup Notes -> Results]
        /\ receipt' \in [Inbounds -> {"none", "open", "ok", "err"}]
    BY <1>7 DEF Release, ReceiptOutcome, Results, TypeOK
  <2> QED BY <1>7, <2>1, <2>2, <2>3 DEF Release, TypeOK, calls, peer
<1>8. ASSUME NEW t \in Writers, AfterFault(t) PROVE TypeOK'
  BY <1>8, GiveUpType DEF AfterFault, TypeOK, locks, calls, peer
<1>9. ASSUME NEW t \in Threads, CloseMark(t) PROVE TypeOK'
  <2>1. pc' \in [Threads -> PCs]
    BY <1>9, GotoType DEF CloseMark, PCs, TypeOK
  <2> QED BY <1>9, <2>1 DEF CloseMark, SealWith, SealErrs, TypeOK, calls, serving, peer
<1>10. ASSUME NEW t \in Threads, ClosePublish(t) PROVE TypeOK'
  <2>1. pc' \in [Threads -> PCs]
    BY <1>10, GotoType DEF ClosePublish, PCs, TypeOK
  <2> QED BY <1>10, <2>1 DEF ClosePublish, WakeWaiters, TypeOK, calls, serving, peer
<1>11. ASSUME CallClose PROVE TypeOK'
  <2>1. pc' \in [Threads -> PCs]
    BY <1>11, GotoType, ThreadSets DEF CallClose, PCs, TypeOK
  <2> QED BY <1>11, <2>1 DEF CallClose, TypeOK, locks, calls, serving, peer
<1>12. ASSUME ReadFrame PROVE TypeOK'
  <2> DEFINE m == Head(inbox)
  <2>1. m \in Messages /\ inbox' \in Seq(Messages)
    BY <1>12 DEF ReadFrame, TypeOK
  <2>2. CASE m.kind = "eof"
    <3>1. pc' \in [Threads -> PCs] /\ UNCHANGED <<pending, buf, target, reply>>
      BY <1>12, <2>2, GotoType, ThreadSets DEF ReadFrame, PCs, TypeOK
    <3> QED BY <1>12, <2>1, <3>1 DEF ReadFrame, TypeOK, locks, calls
  <2>3. CASE m.kind \in {"response", "error"}
    <3>1. UNCHANGED <<pc, target, reply>> /\ (pending' = pending \/ pending' = Without(m.id))
      BY <1>12, <2>3 DEF ReadFrame
    <3>2. buf' \in [Requests -> Seq(Answers)]
      <4>1. CASE buf' = buf
        BY <4>1 DEF TypeOK
      <4>2. ASSUME NEW p \in pending, buf' = [buf EXCEPT ![p[2]] = Append(@, m)]
            PROVE  buf' \in [Requests -> Seq(Answers)]
        <5>1. m \in Answers
          BY <2>1, <2>3 DEF Messages
        <5> QED BY <4>2, <5>1 DEF TypeOK
      <4> QED BY <1>12, <2>3, <4>1, <4>2 DEF ReadFrame
    <3>3. pending' \in SUBSET (Nat \X Requests)
      BY <3>1, WithoutType DEF TypeOK
    <3> QED BY <1>12, <2>1, <3>1, <3>2, <3>3 DEF ReadFrame, TypeOK, locks, calls
  <2>4. CASE m.kind = "request"
    <3>1. m.to \in Inbounds
      BY <2>1, <2>4 DEF Messages, Answers
    <3>2. PlainError \in Replies
      BY DEF PlainError, Replies
    <3>3. pc' \in [Threads -> PCs]
      <4>1. CASE Goto(m.to, "handling")
        BY <3>1, <4>1, GotoType, ThreadSets DEF PCs, TypeOK
      <4>2. CASE pc' = [pc EXCEPT ![m.to] = "queued", ![Reader] = "inline"]
        BY <3>1, <4>2, ThreadSets DEF PCs, TypeOK
      <4> QED BY <1>12, <2>4, <4>1, <4>2 DEF ReadFrame
    <3>4. UNCHANGED <<pending, buf>> /\ target' \in Threads \cup {None}
      BY <1>12, <2>4, <3>1, ThreadSets DEF ReadFrame, TypeOK
    <3>5. reply' \in [Inbounds -> Replies]
      BY <1>12, <2>4, <3>1, <3>2 DEF ReadFrame, TypeOK
    <3> QED BY <1>12, <2>1, <3>3, <3>4, <3>5 DEF ReadFrame, TypeOK, locks, calls
  <2> QED BY <2>1, <2>2, <2>3, <2>4 DEF Messages, Answers
<1>13. ASSUME InlineDone PROVE TypeOK'
  <2>1. pc' \in [Threads -> PCs]
    BY <1>13, GotoType, ThreadSets DEF InlineDone, PCs, TypeOK
  <2> QED BY <1>13, <2>1 DEF InlineDone, TypeOK, locks, calls, peer
<1>14. ASSUME NEW j \in Inbounds, HandlerReturns(j) PROVE TypeOK'
  <2>1. pc' \in [Threads -> PCs]
    BY <1>14, GotoType, ThreadSets DEF HandlerReturns, PCs, TypeOK
  <2>2. /\ reply' \in [Inbounds -> Replies]
        /\ receipt' \in [Inbounds -> {"none", "open", "ok", "err"}]
    BY <1>14 DEF HandlerReturns, TypeOK
  <2> QED BY <1>14, <2>1, <2>2 DEF HandlerReturns, TypeOK, locks, calls, peer
<1>15. ASSUME NEW j \in Inbounds, PeerRequests(j) PROVE TypeOK'
  <2>1. [kind |-> "request", id |-> 0, to |-> j] \in Messages
    BY DEF Messages
  <2> QED BY <1>15, <2>1 DEF PeerRequests, TypeOK, locks, calls, serving
<1>16. ASSUME PeerAnswers PROVE TypeOK'
  <2>1. PICK i \in 1..Len(wire), k \in {"response", "error"} :
           /\ wire[i].kind = "request"
           /\ inbox' = Append(inbox, [kind |-> k, id |-> wire[i].id, to |-> wire[i].from])
    BY <1>16 DEF PeerAnswers
  <2>2. inbox' \in Seq(Messages)
    <3>1. wire[i] \in Frames
      BY DEF TypeOK
    <3>2. wire[i].id \in Nat /\ wire[i].from \in Requests
      BY <2>1, <3>1 DEF Frames
    <3>3. [kind |-> k, id |-> wire[i].id, to |-> wire[i].from] \in Messages
      BY <3>2 DEF Messages, Answers
    <3> QED BY <2>1, <3>3 DEF TypeOK
  <2> QED BY <1>16, <2>2 DEF PeerAnswers, TypeOK, locks, calls, serving
<1>17. ASSUME PeerCloses PROVE TypeOK'
  <2>1. [kind |-> "eof", id |-> 0, to |-> None] \in Messages
    BY DEF Messages
  <2> QED BY <1>17, <2>1 DEF PeerCloses, TypeOK, locks, calls, serving
<1>18. CASE UNCHANGED vars
  BY <1>18 DEF vars, TypeOK
<1> QED
  BY <1>1, <1>2, <1>3, <1>4, <1>5, <1>6, <1>7, <1>8, <1>9, <1>10, <1>11, <1>12,
     <1>13, <1>14, <1>15, <1>16, <1>17, <1>18 DEF Next, WriterStep, Closer

\* Init is well typed.
LEMMA TypeInit == Init => TypeOK
<1> SUFFICES ASSUME Init PROVE TypeOK
  OBVIOUS
<1>1. pc \in [Threads -> PCs]
  BY DEF Init, PCs
<1>2. PlainError \in Replies
  BY DEF PlainError, Replies
<1>3. wire \in Seq(Frames) /\ inbox \in Seq(Messages) /\ buf \in [Requests -> Seq(Answers)]
  BY DEF Init
<1>4. reply \in [Inbounds -> Replies]
  BY <1>2 DEF Init
<1>5. sealErr \in SealErrs /\ result \in [Requests \cup Notes -> Results]
  BY DEF Init, SealErrs, Results
<1>6. /\ receipt \in [Inbounds -> {"none", "open", "ok", "err"}]
      /\ nextID \in Nat \ {0} /\ ids \in [Requests -> Nat]
  BY DEF Init, FirstID
<1> QED BY <1>1, <1>3, <1>4, <1>5, <1>6 DEF Init, TypeOK

\* The state of the channel is well formed in every reachable state.
THEOREM TypeCorrect == Spec => []TypeOK
BY TypeInit, TypeStep, PTL DEF Spec

-----------------------------------------------------------------------------
(* The write side: who holds c.writeMu, and when the wire may still grow *)

InWrite == {"writing", "wrote", "faulted"}

\* c.writeMu is held exactly by the goroutine inside its write section.
LockHeld == \A t \in Threads : pc[t] \in InWrite <=> writeMu = t

\* A request frame in flight is for a handler that has not started, and for
\* no other frame in flight.
FreshInbound ==
    \A i \in 1..Len(inbox) : inbox[i].kind = "request" =>
        /\ pc[inbox[i].to] = "idle"
        /\ \A k \in 1..Len(inbox) : k # i => inbox[k].to # inbox[i].to

OpenWire == \A i \in 1..Len(wire) : ~Final(wire[i])

\* Until the seal is set nothing final is on the wire, except by the hand of
\* the goroutine still holding the lock.
SealGuards ==
    /\ closed => sealErr # "none"
    /\ writeMu = None /\ sealErr = "none" => OpenWire
    /\ \A t \in Writers : pc[t] = "writing" => OpenWire
    /\ \A t \in Writers : pc[t] = "wrote" /\ ~Seals(t) => OpenWire

WriteInv == TypeOK /\ LockHeld /\ FreshInbound /\ SealGuards /\ WireStaysFramed

\* Only frames that are whole and not terminal can stand before the last one.
LEMMA OpenIsFramed == TypeOK /\ OpenWire => WireStaysFramed
BY DEF TypeOK, OpenWire, WireStaysFramed

\* A goroutine that moves outside its write section disturbs nothing.
LEMMA QuietMove ==
    ASSUME WriteInv, TypeOK', NEW t \in Threads, NEW w \in PCs,
           pc[t] \notin InWrite, w \notin InWrite,
           t \in Inbounds => pc[t] # "idle",
           Goto(t, w), UNCHANGED <<closed, sealErr, writeMu, wire, inbox>>,
           \A u \in Inbounds : u # t => reply'[u] = reply[u]
    PROVE  WriteInv'
<1>1. \A u \in Threads : pc'[u] = IF u = t THEN w ELSE pc[u]
  BY DEF Goto, WriteInv, TypeOK
<1>2. LockHeld'
  BY <1>1 DEF WriteInv, LockHeld
<1>3. FreshInbound'
  <2> SUFFICES ASSUME NEW i \in 1..Len(inbox), inbox[i].kind = "request"
               PROVE  pc'[inbox[i].to] = "idle"
    BY DEF FreshInbound, WriteInv
  <2>1. inbox[i] \in Messages
    BY DEF WriteInv, TypeOK
  <2>2. inbox[i].to \in Inbounds
    BY <2>1 DEF Messages, Answers
  <2> QED BY <1>1, <2>2, ThreadSets DEF WriteInv, FreshInbound
<1>4. SealGuards'
  <2>1. \A u \in Writers : pc'[u] \in {"writing", "wrote"} => pc'[u] = pc[u] /\ Seals(u)' = Seals(u)
    BY <1>1, ThreadSets DEF InWrite, Seals
  <2>2. OpenWire' = OpenWire
    BY DEF OpenWire, Final
  <2> QED BY <2>1, <2>2 DEF WriteInv, SealGuards
<1>5. WireStaysFramed'
  BY DEF WriteInv, WireStaysFramed, Final
<1> QED BY <1>2, <1>3, <1>4, <1>5 DEF WriteInv

\* A step that moves no goroutine and leaves the write side alone keeps the
\* invariant as long as the inbox stays fresh.
LEMMA QuietInbox ==
    ASSUME WriteInv, TypeOK', FreshInbound',
           UNCHANGED <<pc, closed, sealErr, writeMu, wire, reply>>
    PROVE  WriteInv'
<1>1. LockHeld'
  BY DEF WriteInv, LockHeld
<1>2. SealGuards'
  BY DEF WriteInv, SealGuards, OpenWire, Final, Seals
<1>3. WireStaysFramed'
  BY DEF WriteInv, WireStaysFramed, Final
<1> QED BY <1>1, <1>2, <1>3 DEF WriteInv

\* Taking the first frame off the inbox.
LEMMA ReadFresh ==
    ASSUME TypeOK, FreshInbound, inbox # <<>>, inbox' = Tail(inbox),
           \A t \in Inbounds : pc'[t] = pc[t] \/ t = Head(inbox).to
    PROVE  FreshInbound'
<1>1. /\ Len(inbox) \in Nat /\ Len(inbox) > 0 /\ Len(inbox') = Len(inbox) - 1
      /\ \A i \in 1..Len(inbox') : inbox'[i] = inbox[i + 1] /\ i + 1 \in 1..Len(inbox)
      /\ Head(inbox) = inbox[1]
  BY DEF TypeOK
<1> SUFFICES ASSUME NEW i \in 1..Len(inbox'), inbox'[i].kind = "request"
             PROVE  /\ pc'[inbox'[i].to] = "idle"
                    /\ \A k \in 1..Len(inbox') : k # i => inbox'[k].to # inbox'[i].to
  BY DEF FreshInbound
<1>2. i + 1 \in 1..Len(inbox) /\ inbox[i + 1].kind = "request" /\ inbox'[i] = inbox[i + 1]
  BY <1>1
<1>3. inbox[i + 1].to \in Inbounds
  <2>1. inbox[i + 1] \in Messages
    BY <1>2 DEF TypeOK
  <2> QED BY <1>2, <2>1 DEF Messages, Answers
<1>4. pc[inbox[i + 1].to] = "idle" /\ \A k \in 1..Len(inbox) : k # i + 1 => inbox[k].to # inbox[i + 1].to
  BY <1>2 DEF FreshInbound
<1>5. 1 \in 1..Len(inbox) /\ 1 # i + 1
  BY <1>1
<1>6. inbox[i + 1].to # Head(inbox).to
  BY <1>1, <1>4, <1>5
<1>7. pc'[inbox'[i].to] = "idle"
  BY <1>2, <1>3, <1>4, <1>6
<1>8. ASSUME NEW k \in 1..Len(inbox'), k # i PROVE inbox'[k].to # inbox'[i].to
  <2>1. k + 1 \in 1..Len(inbox) /\ k + 1 # i + 1 /\ inbox'[k] = inbox[k + 1]
    BY <1>1, <1>8
  <2> QED BY <1>2, <1>4, <2>1
<1> QED BY <1>7, <1>8

\* A frame sent by the peer keeps the inbox fresh if it is an answer, an end
\* of stream, or the first request of an idle handler.
LEMMA SendFresh ==
    ASSUME TypeOK, FreshInbound, NEW m, inbox' = Append(inbox, m), UNCHANGED pc,
           m.kind = "request" => pc[m.to] = "idle",
           m.kind = "request" \/ m.to \notin Inbounds,
           \A i \in 1..Len(inbox) : m.kind = "request" => inbox[i].to # m.to
    PROVE  FreshInbound'
<1>1. /\ Len(inbox) \in Nat /\ Len(inbox') = Len(inbox) + 1
      /\ \A i \in 1..Len(inbox) : inbox'[i] = inbox[i]
      /\ inbox'[Len(inbox) + 1] = m
  BY DEF TypeOK
<1>2. \A i \in 1..Len(inbox') : i \in 1..Len(inbox) \/ i = Len(inbox) + 1
  BY <1>1
<1>3. \A i \in 1..Len(inbox) : inbox[i].kind = "request" => inbox[i].to \in Inbounds
  <2> SUFFICES ASSUME NEW i \in 1..Len(inbox), inbox[i].kind = "request"
               PROVE  inbox[i].to \in Inbounds
    OBVIOUS
  <2>1. inbox[i] \in Messages
    BY DEF TypeOK
  <2> QED BY <2>1 DEF Messages, Answers
<1> SUFFICES ASSUME NEW i \in 1..Len(inbox'), inbox'[i].kind = "request"
             PROVE  /\ pc[inbox'[i].to] = "idle"
                    /\ \A k \in 1..Len(inbox') : k # i => inbox'[k].to # inbox'[i].to
  BY DEF FreshInbound
<1>4. CASE i \in 1..Len(inbox)
  <2>1. inbox'[i] = inbox[i] /\ inbox[i].to \in Inbounds /\ pc[inbox[i].to] = "idle"
    BY <1>1, <1>3, <1>4 DEF FreshInbound
  <2>2. \A k \in 1..Len(inbox) : k # i => inbox'[k].to # inbox'[i].to
    BY <1>1, <1>4, <2>1 DEF FreshInbound
  <2>3. m.to # inbox[i].to
    BY <1>4, <2>1
  <2> QED BY <1>1, <1>2, <2>1, <2>2, <2>3
<1>5. CASE i = Len(inbox) + 1
  BY <1>1, <1>2, <1>5
<1> QED BY <1>2, <1>4, <1>5

\* Every step preserves the write-side invariant.
LEMMA WriteStep == WriteInv /\ [Next]_vars => WriteInv'
<1> SUFFICES ASSUME WriteInv, [Next]_vars PROVE WriteInv'
  OBVIOUS
<1> TypeOK /\ TypeOK'
  BY TypeStep DEF WriteInv
<1>1. ASSUME NEW r \in Requests, Register(r) PROVE WriteInv'
  <2>1. PICK w \in {"done", "queued"} : Goto(r, w)
    BY <1>1 DEF Register
  <2> QED BY <1>1, <2>1, QuietMove, ThreadSets, ThreadsDistinct
          DEF Register, locks, serving, peer, PCs, InWrite
<1>2. ASSUME NEW r \in Requests, Select(r) PROVE WriteInv'
  BY <1>2, QuietMove, ThreadSets, ThreadsDistinct
     DEF Select, locks, serving, peer, PCs, InWrite
<1>3. ASSUME NEW r \in Requests, Cancel(r) PROVE WriteInv'
  <2>1. FreshInbound'
    BY <1>3 DEF Cancel, WriteInv, FreshInbound, peer
  <2> QED BY <1>3, <2>1, QuietInbox DEF Cancel, locks, serving
<1>4. ASSUME NEW n \in Notes, Notify(n) PROVE WriteInv'
  <2>1. PICK w \in {"done", "queued"} : Goto(n, w)
    BY <1>4 DEF Notify
  <2> QED BY <1>4, <2>1, QuietMove, ThreadSets, ThreadsDistinct
          DEF Notify, locks, serving, peer, PCs, InWrite
<1>5. ASSUME NEW t \in Writers, Admit(t) PROVE WriteInv'
  <2>1. CASE GiveUp(t) /\ UNCHANGED writeMu
    BY <1>5, <2>1, QuietMove, ThreadSets DEF Admit, GiveUp, peer, PCs, InWrite
  <2>2. CASE Admitted /\ writeMu' = t /\ Goto(t, "writing")
    <3>1. \A u \in Threads : pc'[u] = IF u = t THEN "writing" ELSE pc[u]
      BY <2>2, ThreadSets DEF Goto, TypeOK
    <3>2. writeMu = None /\ pc[t] = "queued" /\ UNCHANGED <<closed, sealErr, wire, reply, inbox>>
      BY <1>5 DEF Admit, WriteLockFree, peer
    <3>3. LockHeld'
      BY <2>2, <3>1, <3>2, ThreadSets DEF WriteInv, LockHeld, InWrite
    <3>4. FreshInbound'
      <4> SUFFICES ASSUME NEW i \in 1..Len(inbox), inbox[i].kind = "request"
                   PROVE  pc'[inbox[i].to] = "idle"
        BY <3>2 DEF FreshInbound, WriteInv
      <4>1. inbox[i] \in Messages
        BY DEF TypeOK
      <4>2. inbox[i].to \in Inbounds
        BY <4>1 DEF Messages, Answers
      <4> QED BY <3>1, <3>2, <4>2, ThreadSets DEF WriteInv, FreshInbound
    <3>5. OpenWire /\ OpenWire'
      BY <2>2, <3>2 DEF WriteInv, SealGuards, Admitted, OpenWire, Final
    <3>6. SealGuards'
      BY <3>2, <3>5 DEF WriteInv, SealGuards
    <3>7. WireStaysFramed'
      BY <3>2 DEF WriteInv, WireStaysFramed, Final
    <3> QED BY <3>3, <3>4, <3>6, <3>7 DEF WriteInv
  <2> QED BY <1>5, <2>1, <2>2 DEF Admit
<1>6. ASSUME NEW t \in Writers, WriteBytes(t) PROVE WriteInv'
  <2>1. PICK w \in {"wrote", "faulted"} :
           /\ Goto(t, w)
           /\ w = "wrote" => wire' = Append(wire, Frame(t, TRUE))
           /\ \/ wire' = wire
              \/ \E b \in BOOLEAN : wire' = Append(wire, Frame(t, b))
    BY <1>6 DEF WriteBytes
  <2>2. \A u \in Threads : pc'[u] = IF u = t THEN w ELSE pc[u]
    BY <2>1, ThreadSets DEF Goto, TypeOK
  <2>3. pc[t] = "writing" /\ UNCHANGED <<closed, sealErr, writeMu, reply, inbox>>
    BY <1>6 DEF WriteBytes, locks, serving, peer
  <2>4. writeMu = t /\ \A u \in Threads : u # t => pc[u] \notin InWrite
    BY <2>3, ThreadSets DEF WriteInv, LockHeld, InWrite
  <2>5. LockHeld'
    BY <2>2, <2>3, <2>4 DEF WriteInv, LockHeld, InWrite
  <2>6. FreshInbound'
    <3> SUFFICES ASSUME NEW i \in 1..Len(inbox), inbox[i].kind = "request"
                 PROVE  pc'[inbox[i].to] = "idle"
      BY <2>3 DEF FreshInbound, WriteInv
    <3>1. inbox[i] \in Messages
      BY DEF TypeOK
    <3>2. inbox[i].to \in Inbounds
      BY <3>1 DEF Messages, Answers
    <3> QED BY <2>2, <2>3, <3>2, ThreadSets DEF WriteInv, FreshInbound
  <2>7. OpenWire
    BY <2>3 DEF WriteInv, SealGuards
  <2>8. WireStaysFramed'
    <3>1. CASE wire' = wire
      BY <2>7, <3>1, OpenIsFramed DEF WireStaysFramed, Final
    <3>2. ASSUME NEW b \in BOOLEAN, wire' = Append(wire, Frame(t, b))
          PROVE  WireStaysFramed'
      <4>1. /\ Len(wire) \in Nat /\ Len(wire') = Len(wire) + 1
            /\ \A i \in 1..Len(wire) : wire'[i] = wire[i]
        BY <3>2 DEF TypeOK
      <4> QED BY <2>7, <4>1 DEF OpenWire, WireStaysFramed, Final
    <3> QED BY <2>1, <3>1, <3>2
  <2>9. w = "wrote" /\ ~Seals(t)' => OpenWire'
    <3> SUFFICES ASSUME w = "wrote", ~Seals(t)' PROVE OpenWire'
      OBVIOUS
    <3>1. ~Final(Frame(t, TRUE))
      BY <2>3 DEF Final, Frame, Seals
    <3>2. /\ Len(wire) \in Nat /\ Len(wire') = Len(wire) + 1
          /\ \A i \in 1..Len(wire) : wire'[i] = wire[i]
          /\ wire'[Len(wire) + 1] = Frame(t, TRUE)
      <4>1. wire' = Append(wire, Frame(t, TRUE)) /\ wire \in Seq(Frames)
        BY <2>1 DEF TypeOK
      <4> QED BY <4>1, AppendFacts
    <3>3. \A i \in 1..Len(wire') : i \in 1..Len(wire) \/ i = Len(wire) + 1
      BY <3>2
    <3> QED BY <2>7, <3>1, <3>2, <3>3 DEF OpenWire, Final
  <2>10. SealGuards'
    BY <2>2, <2>3, <2>4, <2>9, ThreadSets DEF WriteInv, SealGuards, InWrite
  <2> QED BY <2>5, <2>6, <2>8, <2>10 DEF WriteInv
<1>7. ASSUME NEW t \in Writers, Release(t) PROVE WriteInv'
  <2>1. PICK w \in {"closing", "select", "done"} : Goto(t, w)
    BY <1>7 DEF Release
  <2>2. \A u \in Threads : pc'[u] = IF u = t THEN w ELSE pc[u]
    BY <2>1, ThreadSets DEF Goto, TypeOK
  <2>3. /\ pc[t] \in {"wrote", "faulted"} /\ writeMu' = None
        /\ UNCHANGED <<closed, wire, reply, inbox>>
    BY <1>7 DEF Release, peer
  <2>4. writeMu = t /\ \A u \in Threads : u # t => pc[u] \notin InWrite
    BY <2>3, ThreadSets DEF WriteInv, LockHeld, InWrite
  <2>5. LockHeld'
    BY <2>2, <2>3, <2>4, ThreadSets DEF LockHeld, InWrite
  <2>6. FreshInbound'
    <3> SUFFICES ASSUME NEW i \in 1..Len(inbox), inbox[i].kind = "request"
                 PROVE  pc'[inbox[i].to] = "idle"
      BY <2>3 DEF FreshInbound, WriteInv
    <3>1. inbox[i] \in Messages
      BY DEF TypeOK
    <3>2. inbox[i].to \in Inbounds
      BY <3>1 DEF Messages, Answers
    <3> QED BY <2>2, <2>3, <3>2, ThreadSets DEF WriteInv, FreshInbound
  <2>7. OpenWire' = OpenWire
    BY <2>3 DEF OpenWire, Final
  <2>8. sealErr' = "none" => sealErr = "none" /\ pc[t] = "wrote" /\ ~Seals(t)
    BY <1>7 DEF Release, SealWith
  <2>9. SealGuards'
    BY <2>2, <2>3, <2>4, <2>7, <2>8, ThreadSets DEF WriteInv, SealGuards, InWrite
  <2>10. WireStaysFramed'
    BY <2>3 DEF WriteInv, WireStaysFramed, Final
  <2> QED BY <2>5, <2>6, <2>9, <2>10 DEF WriteInv
<1>8. ASSUME NEW t \in Writers, AfterFault(t) PROVE WriteInv'
  BY <1>8, QuietMove, ThreadSets DEF AfterFault, GiveUp, locks, peer, PCs, InWrite
<1>9. ASSUME NEW t \in Threads, CloseMark(t) PROVE WriteInv'
  <2>1. CASE closed /\ Goto(t, "closed") /\ UNCHANGED <<pending, closed, sealErr>>
    BY <1>9, <2>1, QuietMove DEF CloseMark, serving, peer, PCs, InWrite
  <2>2. CASE Goto(t, "publishing") /\ SealWith("closed")
    <3>1. \A u \in Threads : pc'[u] = IF u = t THEN "publishing" ELSE pc[u]
      BY <2>2 DEF Goto, TypeOK
    <3>2. pc[t] = "closing" /\ UNCHANGED <<writeMu, wire, reply, inbox>>
      BY <1>9 DEF CloseMark, serving, peer
    <3>3. sealErr' # "none"
      BY <2>2 DEF SealWith
    <3>4. LockHeld'
      BY <3>1, <3>2 DEF WriteInv, LockHeld, InWrite
    <3>5. FreshInbound'
      <4> SUFFICES ASSUME NEW i \in 1..Len(inbox), inbox[i].kind = "request"
                   PROVE  pc'[inbox[i].to] = "idle"
        BY <3>2 DEF FreshInbound, WriteInv
      <4>1. inbox[i] \in Messages
        BY DEF TypeOK
      <4>2. inbox[i].to \in Inbounds
        BY <4>1 DEF Messages, Answers
      <4> QED BY <3>1, <3>2, <4>2, ThreadSets DEF WriteInv, FreshInbound
    <3>6. OpenWire' = OpenWire /\ \A u \in Writers : Seals(u)' = Seals(u)
      BY <3>2 DEF OpenWire, Final, Seals
    <3>7. SealGuards'
      BY <3>1, <3>2, <3>3, <3>6, ThreadSets DEF WriteInv, SealGuards
    <3>8. WireStaysFramed'
      BY <3>2 DEF WriteInv, WireStaysFramed, Final
    <3> QED BY <3>4, <3>5, <3>7, <3>8 DEF WriteInv
  <2> QED BY <1>9, <2>1, <2>2 DEF CloseMark
<1>10. ASSUME NEW t \in Threads, ClosePublish(t) PROVE WriteInv'
  BY <1>10, QuietMove DEF ClosePublish, serving, peer, PCs, InWrite
<1>11. ASSUME CallClose PROVE WriteInv'
  BY <1>11, QuietMove, ThreadSets DEF CallClose, locks, serving, peer, PCs, InWrite
<1>12. ASSUME ReadFrame PROVE WriteInv'
  <2> DEFINE m == Head(inbox)
  <2>1. /\ m \in Messages /\ inbox # <<>> /\ pc[Reader] = "read"
        /\ inbox' = Tail(inbox) /\ UNCHANGED <<closed, sealErr, writeMu, wire>>
    BY <1>12 DEF ReadFrame, TypeOK, locks
  <2>2. m.kind = "request" => m.to \in Inbounds /\ pc[m.to] = "idle"
    <3>1. m.kind = "request" => m.to \in Inbounds
      BY <2>1 DEF Messages, Answers
    <3>2. m = inbox[1] /\ 1 \in 1..Len(inbox)
      BY <2>1 DEF TypeOK
    <3> QED BY <3>1, <3>2 DEF WriteInv, FreshInbound
  <2>3. CASE m.kind \in {"response", "error"}
    <3>1. UNCHANGED <<pc, reply>>
      BY <1>12, <2>3 DEF ReadFrame
    <3>2. FreshInbound'
      BY <2>1, <3>1, ReadFresh DEF WriteInv
    <3> QED BY <2>1, <3>1, <3>2, QuietInbox
  <2>4. CASE m.kind = "eof" \/ (m.kind = "request" /\ handlerSet)
    <3>1. PICK u \in Threads, w \in {"closing", "handling"} :
             /\ Goto(u, w) /\ pc[u] \notin InWrite
             /\ u \in Inbounds => u = m.to
      BY <1>12, <2>1, <2>2, <2>4, ThreadSets DEF ReadFrame, InWrite
    <3>2. \A x \in Threads : pc'[x] = IF x = u THEN w ELSE pc[x]
      BY <3>1 DEF Goto, TypeOK
    <3>3. UNCHANGED reply
      BY <1>12, <2>4 DEF ReadFrame
    <3>4. FreshInbound'
      BY <2>1, <3>1, <3>2, ReadFresh, ThreadSets DEF WriteInv
    <3>5. LockHeld'
      BY <2>1, <3>1, <3>2 DEF WriteInv, LockHeld, InWrite
    <3>6. OpenWire' = OpenWire /\ \A x \in Writers : Seals(x)' = Seals(x)
      BY <2>1, <3>3 DEF OpenWire, Final, Seals
    <3>7. SealGuards'
      BY <2>1, <3>2, <3>6, ThreadSets DEF WriteInv, SealGuards
    <3>8. WireStaysFramed'
      BY <2>1 DEF WriteInv, WireStaysFramed, Final
    <3> QED BY <3>4, <3>5, <3>7, <3>8 DEF WriteInv
  <2>5. CASE m.kind = "request" /\ ~handlerSet
    <3>1. /\ pc' = [pc EXCEPT ![m.to] = "queued", ![Reader] = "inline"]
          /\ reply' = [reply EXCEPT ![m.to] = PlainError]
      BY <1>12, <2>5 DEF ReadFrame
    <3>2. \A x \in Threads : pc'[x] = IF x = Reader THEN "inline"
                                     ELSE IF x = m.to THEN "queued" ELSE pc[x]
      BY <2>2, <2>5, <3>1, ThreadSets DEF TypeOK
    <3>3. FreshInbound'
      BY <2>1, <2>2, <3>2, ReadFresh, ThreadSets DEF WriteInv
    <3>4. LockHeld'
      BY <2>1, <2>2, <2>5, <3>2, ThreadSets DEF WriteInv, LockHeld, InWrite
    <3>5. OpenWire' = OpenWire
      BY <2>1 DEF OpenWire, Final
    <3>6. \A x \in Writers : pc'[x] \in {"writing", "wrote"} =>
             pc'[x] = pc[x] /\ Seals(x)' = Seals(x)
      BY <3>1, <3>2, ThreadSets DEF Seals, TypeOK
    <3>7. SealGuards'
      BY <2>1, <3>5, <3>6 DEF WriteInv, SealGuards
    <3>8. WireStaysFramed'
      BY <2>1 DEF WriteInv, WireStaysFramed, Final
    <3> QED BY <3>3, <3>4, <3>7, <3>8 DEF WriteInv
  <2> QED BY <1>12, <2>3, <2>4, <2>5 DEF ReadFrame
<1>13. ASSUME InlineDone PROVE WriteInv'
  BY <1>13, QuietMove, ThreadSets DEF InlineDone, locks, peer, PCs, InWrite
<1>14. ASSUME NEW j \in Inbounds, HandlerReturns(j) PROVE WriteInv'
  <2>1. \A u \in Inbounds : u # j => reply'[u] = reply[u]
    BY <1>14 DEF HandlerReturns, TypeOK
  <2> QED BY <1>14, <2>1, QuietMove, ThreadSets DEF HandlerReturns, locks, peer, PCs, InWrite
<1>15. ASSUME NEW j \in Inbounds, PeerRequests(j) PROVE WriteInv'
  <2>1. FreshInbound'
    BY <1>15, SendFresh DEF PeerRequests, WriteInv
  <2> QED BY <1>15, <2>1, QuietInbox DEF PeerRequests, locks, serving
<1>16. ASSUME PeerAnswers PROVE WriteInv'
  <2>1. PICK i \in 1..Len(wire), k \in {"response", "error"} :
           /\ wire[i].kind = "request"
           /\ inbox' = Append(inbox, [kind |-> k, id |-> wire[i].id, to |-> wire[i].from])
    BY <1>16 DEF PeerAnswers
  <2>2. wire[i] \in Frames
    BY DEF TypeOK
  <2>3. wire[i].from \notin Inbounds
    BY <2>1, <2>2, ThreadsDistinct DEF Frames
  <2>4. FreshInbound'
    BY <1>16, <2>1, <2>3, SendFresh DEF PeerAnswers, WriteInv
  <2> QED BY <1>16, <2>4, QuietInbox DEF PeerAnswers, locks, serving
<1>17. ASSUME PeerCloses PROVE WriteInv'
  <2>1. None \notin Inbounds
    BY ThreadSets
  <2>2. FreshInbound'
    BY <1>17, <2>1, SendFresh DEF PeerCloses, WriteInv
  <2> QED BY <1>17, <2>2, QuietInbox DEF PeerCloses, locks, serving
<1>18. CASE UNCHANGED vars
  <2>1. FreshInbound'
    BY <1>18 DEF vars, WriteInv, FreshInbound
  <2> QED BY <1>18, <2>1, QuietInbox DEF vars
<1> QED
  BY <1>1, <1>2, <1>3, <1>4, <1>5, <1>6, <1>7, <1>8, <1>9, <1>10, <1>11, <1>12,
     <1>13, <1>14, <1>15, <1>16, <1>17, <1>18 DEF Next, WriterStep, Closer

\* The write side starts out free and empty.
LEMMA WriteInit == Init => WriteInv
<1> SUFFICES ASSUME Init PROVE WriteInv
  OBVIOUS
<1>1. LockHeld
  BY ThreadSets DEF Init, LockHeld, InWrite
<1>2. FreshInbound /\ OpenWire /\ WireStaysFramed
  BY DEF Init, FreshInbound, OpenWire, WireStaysFramed
<1>3. SealGuards
  BY <1>2 DEF Init, SealGuards
<1> QED BY <1>1, <1>2, <1>3, TypeInit DEF WriteInv

\* Nothing ever follows a truncated or a terminal frame on the wire, however
\* many writers queue for c.writeMu.
THEOREM WireFramed == Spec => []WireStaysFramed
<1>1. WriteInv => WireStaysFramed
  BY DEF WriteInv
<1> QED BY <1>1, WriteInit, WriteStep, PTL DEF Spec

\* A step of the channel is a step of the sealed log, or none.
LEMMA LogStep == WriteInv /\ [Next]_vars => [Log!Next]_(Log!logVars)
<1> SUFFICES ASSUME WriteInv, [Next]_vars PROVE [Log!Next]_(Log!logVars)
  OBVIOUS
<1> DEFINE sealed == sealErr # "none" /\ writeMu = None
<1>1. CASE wire' = wire /\ sealErr' = sealErr /\ writeMu' = writeMu
  BY <1>1 DEF Log!logVars
<1>2. ASSUME NEW t \in Writers, Admit(t) PROVE [Log!Next]_(Log!logVars)
  <2>1. wire' = wire /\ sealErr' = sealErr
        /\ (writeMu' = writeMu \/ sealErr = "none")
    BY <1>2 DEF Admit, Admitted
  <2> QED BY <2>1 DEF Log!logVars
<1>3. ASSUME NEW t \in Writers, WriteBytes(t) PROVE [Log!Next]_(Log!logVars)
  <2>1. pc[t] = "writing" /\ sealErr' = sealErr /\ writeMu' = writeMu
    BY <1>3 DEF WriteBytes, locks
  <2>2. writeMu = t /\ t # None /\ OpenWire
    BY <2>1, ThreadSets DEF WriteInv, LockHeld, InWrite, SealGuards
  <2>3. CASE wire' = wire
    BY <2>1, <2>3 DEF Log!logVars
  <2>4. ASSUME NEW f, wire' = Append(wire, f) PROVE Log!Extend
    <3>1. wire \in Seq(Frames)
      BY DEF WriteInv, TypeOK
    <3>2. /\ Len(wire) \in Nat /\ Len(wire') = Len(wire) + 1
          /\ \A i \in 1..Len(wire) : wire'[i] = wire[i]
      BY <2>4, <3>1, AppendFacts
    <3>3. wire # <<>> => ~Final(wire[Len(wire)])
      <4>1. wire # <<>> => Len(wire) \in 1..Len(wire)
        BY <3>1, <3>2
      <4> QED BY <2>2, <4>1 DEF OpenWire
    <3> QED BY <2>1, <2>2, <3>2, <3>3 DEF Log!Extend, Log!Open
  <2> QED BY <1>3, <2>3, <2>4 DEF WriteBytes, Log!Next
<1>4. ASSUME NEW t \in Writers, Release(t) PROVE [Log!Next]_(Log!logVars)
  <2>1. wire' = wire /\ writeMu' = None /\ pc[t] \in InWrite
    BY <1>4 DEF Release, InWrite
  <2>2. writeMu # None
    BY <2>1, ThreadSets DEF WriteInv, LockHeld
  <2> QED BY <2>1, <2>2 DEF Log!Next, Log!Seal, Log!logVars
<1>5. ASSUME NEW t \in Threads, CloseMark(t) PROVE [Log!Next]_(Log!logVars)
  <2>1. wire' = wire /\ writeMu' = writeMu /\ (sealErr' = sealErr \/ (sealErr = "none" /\ sealErr' # "none"))
    BY <1>5 DEF CloseMark, SealWith
  <2> QED BY <2>1 DEF Log!Next, Log!Seal, Log!logVars
<1>6. \/ wire' = wire /\ sealErr' = sealErr /\ writeMu' = writeMu
      \/ \E t \in Writers : Admit(t) \/ WriteBytes(t) \/ Release(t)
      \/ \E t \in Threads : CloseMark(t)
  BY DEF Next, WriterStep, Closer, Register, Select, Cancel, Notify, AfterFault,
         ClosePublish, CallClose, ReadFrame, InlineDone, HandlerReturns,
         PeerRequests, PeerAnswers, PeerCloses, locks, vars
<1> QED BY <1>1, <1>2, <1>3, <1>4, <1>5, <1>6

\* The channel's wire implements the sealed log of SealedLog: frames are only
\* appended, none after one that ends the stream, and none once the seal is
\* set and the last admitted writer has left.
THEOREM WireImplementsLog == Spec => WireIsSealedLog
<1>1. Init => Log!Init
  BY DEF Init, Log!Init
<1> QED BY <1>1, WriteInit, WriteStep, LogStep, PTL DEF Spec, WireIsSealedLog, Log!Spec

-----------------------------------------------------------------------------
(* Routing answers to the SendRequest that waits for them *)

\* Request ids are drawn once, and every copy of one names its owner.
IdsOwned ==
    /\ \A r \in Requests : ids[r] < nextID
    /\ \A r \in Requests : pc[r] = "idle" => ids[r] = 0
    /\ \A r \in Requests : pc[r] \in {"queued", "writing"} => ids[r] # 0
    /\ \A r, s \in Requests : ids[r] = ids[s] /\ ids[r] # 0 => r = s

IdsTravel ==
    /\ \A p \in pending : p[1] # 0 /\ ids[p[2]] = p[1]
    /\ \A i \in 1..Len(wire) : wire[i].kind = "request" =>
          wire[i].id # 0 /\ ids[wire[i].from] = wire[i].id
    /\ \A i \in 1..Len(inbox) : inbox[i].kind \in {"response", "error"} =>
          inbox[i].id # 0 /\ ids[inbox[i].to] = inbox[i].id
    /\ \A r \in Requests : buf[r] # <<>> => ids[r] # 0

RouteInv == TypeOK /\ IdsOwned /\ IdsTravel /\ AnswersReachTheirCaller

\* A step that draws no id and creates no new copy of one, and takes messages
\* off at most the front of a slot, keeps the routing invariant.
LEMMA RouteQuiet ==
    ASSUME RouteInv, TypeOK', UNCHANGED <<ids, nextID, wire>>,
           pending' \subseteq pending,
           \A r \in Requests : buf'[r] = buf[r] \/ (buf[r] # <<>> /\ buf'[r] = Tail(buf[r])),
           \A i \in 1..Len(inbox') : inbox'[i].kind \in {"response", "error"} =>
                \E k \in 1..Len(inbox) : inbox'[i] = inbox[k],
           \A r \in Requests : /\ pc'[r] = "idle" => pc[r] = "idle"
                               /\ pc'[r] \in {"queued", "writing"} => pc[r] \in {"queued", "writing"}
    PROVE  RouteInv'
<1>1. IdsOwned'
  BY DEF RouteInv, IdsOwned
<1>2. \A r \in Requests : buf[r] = <<>> => buf'[r] = <<>>
  OBVIOUS
<1>3. IdsTravel'
  <2>1. \A i \in 1..Len(inbox') : inbox'[i].kind \in {"response", "error"} =>
          inbox'[i].id # 0 /\ ids'[inbox'[i].to] = inbox'[i].id
    BY DEF RouteInv, IdsTravel
  <2>2. \A r \in Requests : buf'[r] # <<>> => ids'[r] # 0
    BY <1>2 DEF RouteInv, IdsTravel
  <2> QED BY <2>1, <2>2 DEF RouteInv, IdsTravel
<1>4. AnswersReachTheirCaller'
  <2>1. ASSUME NEW r \in Requests, NEW k \in 1..Len(buf'[r]) PROVE buf'[r][k].to = r
    <3>1. CASE buf'[r] = buf[r]
      BY <3>1 DEF RouteInv, AnswersReachTheirCaller
    <3>2. CASE buf[r] # <<>> /\ buf'[r] = Tail(buf[r])
      <4>1. buf[r] \in Seq(Answers)
        BY DEF RouteInv, TypeOK
      <4>2. k + 1 \in 1..Len(buf[r]) /\ buf'[r][k] = buf[r][k + 1]
        BY <3>2, <4>1
      <4> QED BY <4>2 DEF RouteInv, AnswersReachTheirCaller
    <3> QED BY <3>1, <3>2
  <2>2. \A p \in pending' : buf'[p[2]] = <<>>
    <3> SUFFICES ASSUME NEW p \in pending' PROVE buf'[p[2]] = <<>>
      OBVIOUS
    <3>1. p \in pending /\ p[2] \in Requests
      BY DEF RouteInv, TypeOK
    <3> QED BY <1>2, <3>1 DEF RouteInv, AnswersReachTheirCaller
  <2> QED BY <2>1, <2>2 DEF AnswersReachTheirCaller
<1> QED BY <1>1, <1>3, <1>4 DEF RouteInv

\* Every step preserves the routing invariant.
LEMMA RouteStep == RouteInv /\ [Next]_vars => RouteInv'
<1> SUFFICES ASSUME RouteInv, [Next]_vars PROVE RouteInv'
  OBVIOUS
<1> TypeOK /\ TypeOK'
  BY TypeStep DEF RouteInv
<1>a. \A t \in Threads, w \in PCs : Goto(t, w) =>
         \A r \in Threads : pc'[r] = IF r = t THEN w ELSE pc[r]
  BY DEF Goto, TypeOK
<1>b. Requests \subseteq Threads /\ Writers \subseteq Threads
  BY ThreadSets
<1>1. ASSUME NEW r \in Requests, Register(r) PROVE RouteInv'
  <2>1. CASE closed
    <3>1. \A s \in Requests : pc'[s] = IF s = r THEN "done" ELSE pc[s]
      BY <1>1, <2>1, <1>a, <1>b DEF Register, PCs
    <3> QED BY <1>1, <2>1, <3>1, RouteQuiet DEF Register, peer
  <2>2. CASE ~closed
    <3>1. \A s \in Requests : pc'[s] = IF s = r THEN "queued" ELSE pc[s]
      BY <1>1, <2>2, <1>a, <1>b DEF Register, PCs
    <3>2. /\ pending' = Without(nextID) \cup {<<nextID, r>>}
          /\ \A s \in Requests : ids'[s] = IF s = r THEN nextID ELSE ids[s]
          /\ nextID' = nextID + 1 /\ nextID \in Nat \ {0}
          /\ UNCHANGED <<buf, wire, inbox>>
      BY <1>1, <2>2 DEF Register, TypeOK, peer
    <3>3. ids[r] = 0 /\ buf[r] = <<>> /\ \A s \in Requests : ids[s] \in Nat /\ ids[s] < nextID
      BY <1>1 DEF Register, RouteInv, IdsOwned, IdsTravel, TypeOK
    <3>4. IdsOwned'
      BY <3>1, <3>2, <3>3 DEF RouteInv, IdsOwned
    <3>5. \A s \in Requests : ids[s] # 0 => ids'[s] = ids[s]
      BY <3>2, <3>3
    <3>6. \A p \in pending' : p[1] # 0 /\ ids'[p[2]] = p[1] /\ buf'[p[2]] = <<>>
      <4> SUFFICES ASSUME NEW p \in pending'
                   PROVE  p[1] # 0 /\ ids'[p[2]] = p[1] /\ buf'[p[2]] = <<>>
        OBVIOUS
      <4>1. CASE p = <<nextID, r>>
        BY <3>2, <3>3, <4>1
      <4>2. CASE p \in pending
        <5>1. p[2] \in Requests
          BY <4>2 DEF TypeOK
        <5> QED BY <3>2, <3>5, <4>2, <5>1 DEF RouteInv, IdsTravel, AnswersReachTheirCaller
      <4> QED BY <3>2, <4>1, <4>2 DEF Without
    <3>7. \A i \in 1..Len(wire) : wire[i].kind = "request" =>
             wire[i].id # 0 /\ ids'[wire[i].from] = wire[i].id
      <4> SUFFICES ASSUME NEW i \in 1..Len(wire), wire[i].kind = "request"
                   PROVE  wire[i].id # 0 /\ ids'[wire[i].from] = wire[i].id
        OBVIOUS
      <4>1. wire[i] \in Frames
        BY DEF TypeOK
      <4>2. wire[i].from \in Requests
        BY <4>1 DEF Frames
      <4> QED BY <3>5, <4>2 DEF RouteInv, IdsTravel
    <3>8. \A i \in 1..Len(inbox) : inbox[i].kind \in {"response", "error"} =>
             inbox[i].id # 0 /\ ids'[inbox[i].to] = inbox[i].id
      <4> SUFFICES ASSUME NEW i \in 1..Len(inbox), inbox[i].kind \in {"response", "error"}
                   PROVE  inbox[i].id # 0 /\ ids'[inbox[i].to] = inbox[i].id
        OBVIOUS
      <4>1. inbox[i] \in Messages
        BY DEF TypeOK
      <4>2. inbox[i].to \in Requests
        BY <4>1 DEF Messages, Answers
      <4> QED BY <3>5, <4>2 DEF RouteInv, IdsTravel
    <3>9. IdsTravel'
      BY <3>2, <3>5, <3>6, <3>7, <3>8 DEF RouteInv, IdsTravel
    <3>10. AnswersReachTheirCaller'
      BY <3>2, <3>6 DEF RouteInv, AnswersReachTheirCaller
    <3> QED BY <3>4, <3>9, <3>10 DEF RouteInv
  <2> QED BY <2>1, <2>2
<1>2. ASSUME NEW r \in Requests, Select(r) PROVE RouteInv'
  <2>1. \A s \in Requests : pc'[s] = IF s = r THEN "done" ELSE pc[s]
    BY <1>2, <1>a, <1>b DEF Select, PCs
  <2>2. \A s \in Requests : buf'[s] = buf[s] \/ (buf[s] # <<>> /\ buf'[s] = Tail(buf[s]))
    BY <1>2 DEF Select, TypeOK
  <2>3. pending' \subseteq pending /\ UNCHANGED <<ids, nextID, wire, inbox>>
    BY <1>2 DEF Select, Without, calls, peer
  <2> QED BY <2>1, <2>2, <2>3, RouteQuiet
<1>3. ASSUME NEW r \in Requests, Cancel(r) PROVE RouteInv'
  BY <1>3, RouteQuiet DEF Cancel, peer
<1>4. ASSUME NEW n \in Notes, Notify(n) PROVE RouteInv'
  <2>1. \A s \in Requests : pc'[s] = pc[s]
    BY <1>4, <1>a, <1>b, ThreadSets, ThreadsDistinct DEF Notify, PCs
  <2> QED BY <1>4, <2>1, RouteQuiet DEF Notify, calls, peer
<1>5. ASSUME NEW t \in Writers, Admit(t) PROVE RouteInv'
  <2>1. \A s \in Requests : pc'[s] = pc[s] \/ pc'[s] = "done"
                            \/ (pc'[s] = "writing" /\ pc[s] = "queued")
    BY <1>5, <1>a, <1>b DEF Admit, GiveUp, PCs
  <2>2. pending' \subseteq pending /\ UNCHANGED <<ids, nextID, wire, inbox, buf>>
    BY <1>5 DEF Admit, GiveUp, Without, calls, peer
  <2> QED BY <2>1, <2>2, RouteQuiet
<1>6. ASSUME NEW t \in Writers, WriteBytes(t) PROVE RouteInv'
  <2>1. \A s \in Requests : pc'[s] = pc[s] \/ pc'[s] \in {"wrote", "faulted"}
    BY <1>6, <1>a, <1>b DEF WriteBytes, PCs
  <2>2. UNCHANGED <<pending, ids, nextID, inbox, buf>> /\ pc[t] = "writing"
    BY <1>6 DEF WriteBytes, calls, peer
  <2>3. IdsOwned'
    BY <2>1, <2>2 DEF RouteInv, IdsOwned
  <2>4. ASSUME NEW i \in 1..Len(wire'), wire'[i].kind = "request"
        PROVE  wire'[i].id # 0 /\ ids[wire'[i].from] = wire'[i].id
    <3>1. CASE i \in 1..Len(wire) /\ wire'[i] = wire[i]
      BY <2>4, <3>1 DEF RouteInv, IdsTravel
    <3>2. CASE \E b \in BOOLEAN : wire'[i] = Frame(t, b)
      <4>1. t \in Requests
        <5>1. Kind(t) = "request"
          BY <2>4, <3>2 DEF Frame
        <5>2. t \in Inbounds => reply[t].kind # "request"
          BY DEF TypeOK, Replies
        <5> QED BY <5>1, <5>2, ThreadSets DEF Kind
      <4> QED BY <2>2, <3>2, <4>1 DEF Frame, RouteInv, IdsOwned
    <3>3. \/ wire' = wire
          \/ \E b \in BOOLEAN : wire' = Append(wire, Frame(t, b))
      BY <1>6 DEF WriteBytes
    <3>4. ASSUME NEW b \in BOOLEAN, wire' = Append(wire, Frame(t, b))
          PROVE  (i \in 1..Len(wire) /\ wire'[i] = wire[i]) \/ wire'[i] = Frame(t, b)
      <4>1. wire \in Seq(Frames)
        BY DEF TypeOK
      <4> QED BY <3>4, <4>1, AppendFacts
    <3> QED BY <3>1, <3>2, <3>3, <3>4
  <2>5. IdsTravel'
    BY <2>2, <2>4 DEF RouteInv, IdsTravel
  <2>6. AnswersReachTheirCaller'
    BY <2>2 DEF RouteInv, AnswersReachTheirCaller
  <2> QED BY <2>3, <2>5, <2>6 DEF RouteInv
<1>7. ASSUME NEW t \in Writers, Release(t) PROVE RouteInv'
  <2>1. \A s \in Requests : pc'[s] = pc[s] \/ pc'[s] \in {"closing", "select", "done"}
    BY <1>7, <1>a, <1>b DEF Release, PCs
  <2> QED BY <1>7, <2>1, RouteQuiet DEF Release, calls, peer
<1>8. ASSUME NEW t \in Writers, AfterFault(t) PROVE RouteInv'
  <2>1. \A s \in Requests : pc'[s] = pc[s] \/ pc'[s] = "done"
    BY <1>8, <1>a, <1>b DEF AfterFault, GiveUp, PCs
  <2>2. pending' \subseteq pending /\ UNCHANGED <<ids, nextID, wire, inbox, buf>>
    BY <1>8 DEF AfterFault, GiveUp, Without, calls, peer
  <2> QED BY <2>1, <2>2, RouteQuiet
<1>9. ASSUME NEW t \in Threads, CloseMark(t) PROVE RouteInv'
  <2>1. \A s \in Requests : pc'[s] = pc[s] \/ pc'[s] \in {"closed", "publishing"}
    BY <1>9, <1>a, <1>b DEF CloseMark, PCs
  <2>2. pending' \subseteq pending /\ UNCHANGED <<ids, nextID, wire, inbox, buf>>
    BY <1>9 DEF CloseMark, calls, peer
  <2> QED BY <2>1, <2>2, RouteQuiet
<1>10. ASSUME NEW t \in Threads, ClosePublish(t) PROVE RouteInv'
  <2>1. \A s \in Requests : pc'[s] = pc[s] \/ pc'[s] = "closed"
    BY <1>10, <1>a, <1>b DEF ClosePublish, PCs
  <2> QED BY <1>10, <2>1, RouteQuiet DEF ClosePublish, calls, peer
<1>11. ASSUME CallClose PROVE RouteInv'
  <2>1. \A s \in Requests : pc'[s] = pc[s]
    BY <1>11, <1>a, <1>b, ThreadSets DEF CallClose, PCs
  <2> QED BY <1>11, <2>1, RouteQuiet DEF CallClose, calls, peer
<1>12. ASSUME ReadFrame PROVE RouteInv'
  <2> DEFINE m == Head(inbox)
  <2>1. /\ m \in Messages /\ inbox # <<>> /\ pc[Reader] = "read"
        /\ inbox' = Tail(inbox) /\ UNCHANGED <<ids, nextID, wire>>
    BY <1>12 DEF ReadFrame, TypeOK, calls
  <2>2. \A i \in 1..Len(inbox') : \E k \in 1..Len(inbox) : inbox'[i] = inbox[k]
    <3> SUFFICES ASSUME NEW i \in 1..Len(inbox') PROVE i + 1 \in 1..Len(inbox) /\ inbox'[i] = inbox[i + 1]
      OBVIOUS
    <3> QED BY <2>1 DEF TypeOK
  <2>3. CASE m.kind \in {"eof", "request"}
    <3>1. m.kind = "request" => m.to \in Inbounds
      BY <2>1 DEF Messages, Answers
    <3>2. UNCHANGED <<pending, buf>> /\ \A s \in Requests : pc'[s] = pc[s]
      <4>1. CASE m.kind = "eof"
        BY <1>12, <4>1, <1>a, <1>b, ThreadSets DEF ReadFrame, PCs
      <4>2. CASE m.kind = "request"
        BY <1>12, <3>1, <4>2, <1>a, <1>b, ThreadSets, ThreadsDistinct, SMTT(30) DEF ReadFrame, PCs, TypeOK
      <4> QED BY <2>3, <4>1, <4>2
    <3> QED BY <2>1, <2>2, <3>2, RouteQuiet
  <2>4. CASE pending' = pending /\ buf' = buf /\ pc' = pc
    BY <2>1, <2>2, <2>4, RouteQuiet
  <2>5. ASSUME NEW p \in pending, p[1] = m.id, m.kind \in {"response", "error"},
               buf' = [buf EXCEPT ![p[2]] = Append(@, m)],
               pending' = Without(m.id), pc' = pc, buf[p[2]] = <<>>
        PROVE  RouteInv'
    <3>1. m = inbox[1] /\ 1 \in 1..Len(inbox)
      BY <2>1 DEF TypeOK
    <3>2. m.id # 0 /\ ids[m.to] = m.id
      BY <2>5, <3>1 DEF RouteInv, IdsTravel
    <3>3. m.to \in Requests /\ p[2] \in Requests /\ ids[p[2]] = m.id
      <4>1. m.to \in Requests
        BY <2>1, <2>5 DEF Messages, Answers
      <4> QED BY <2>5, <4>1 DEF RouteInv, IdsTravel, TypeOK
    <3>4. p[2] = m.to
      BY <3>2, <3>3 DEF RouteInv, IdsOwned
    <3>5. \A s \in Requests : buf'[s] = IF s = p[2] THEN <<m>> ELSE buf[s]
      <4>1. Append(buf[p[2]], m) = <<m>>
        BY <2>5
      <4> QED BY <2>5, <3>3, <4>1 DEF TypeOK
    <3>6. IdsOwned'
      BY <2>1, <2>5 DEF RouteInv, IdsOwned
    <3>7. IdsTravel'
      <4>1. \A i \in 1..Len(inbox') : inbox'[i].kind \in {"response", "error"} =>
               inbox'[i].id # 0 /\ ids[inbox'[i].to] = inbox'[i].id
        BY <2>2 DEF RouteInv, IdsTravel
      <4>2. \A s \in Requests : buf'[s] # <<>> => ids[s] # 0
        BY <3>2, <3>3, <3>5 DEF RouteInv, IdsTravel
      <4>3. pending' \subseteq pending
        BY <2>5 DEF Without
      <4> QED BY <2>1, <4>1, <4>2, <4>3 DEF RouteInv, IdsTravel
    <3>8. AnswersReachTheirCaller'
      <4>1. \A s \in Requests : \A k \in 1..Len(buf'[s]) : buf'[s][k].to = s
        <5> SUFFICES ASSUME NEW s \in Requests, NEW k \in 1..Len(buf'[s]) PROVE buf'[s][k].to = s
          OBVIOUS
        <5>1. CASE s = p[2]
          BY <3>4, <3>5, <5>1
        <5>2. CASE s # p[2]
          BY <3>5, <5>2 DEF RouteInv, AnswersReachTheirCaller
        <5> QED BY <5>1, <5>2
      <4>2. \A q \in pending' : buf'[q[2]] = <<>>
        <5> SUFFICES ASSUME NEW q \in pending' PROVE buf'[q[2]] = <<>>
          OBVIOUS
        <5>1. q \in pending /\ q[1] # m.id /\ q[2] \in Requests
          BY <2>5 DEF Without, TypeOK
        <5>2. q[2] # p[2]
          BY <3>3, <5>1 DEF RouteInv, IdsTravel
        <5> QED BY <3>5, <5>1, <5>2 DEF RouteInv, AnswersReachTheirCaller
      <4> QED BY <4>1, <4>2 DEF AnswersReachTheirCaller
    <3> QED BY <3>6, <3>7, <3>8 DEF RouteInv
  <2> QED BY <1>12, <2>3, <2>4, <2>5 DEF ReadFrame
<1>13. ASSUME InlineDone PROVE RouteInv'
  <2>1. \A s \in Requests : pc'[s] = pc[s]
    BY <1>13, <1>a, <1>b, ThreadSets DEF InlineDone, PCs
  <2> QED BY <1>13, <2>1, RouteQuiet DEF InlineDone, calls, peer
<1>14. ASSUME NEW j \in Inbounds, HandlerReturns(j) PROVE RouteInv'
  <2>1. \A s \in Requests : pc'[s] = pc[s]
    BY <1>14, <1>a, <1>b, ThreadSets, ThreadsDistinct DEF HandlerReturns, PCs
  <2> QED BY <1>14, <2>1, RouteQuiet DEF HandlerReturns, calls, peer
<1>15. ASSUME NEW f, inbox' = Append(inbox, f), UNCHANGED <<pending, pc, buf, ids, nextID, wire>>,
              f.kind \in {"response", "error"} => f.id # 0 /\ ids[f.to] = f.id
       PROVE  RouteInv'
  <2>1. inbox \in Seq(Messages)
    BY DEF TypeOK
  <2>2. \A i \in 1..Len(inbox') : (i \in 1..Len(inbox) /\ inbox'[i] = inbox[i]) \/ inbox'[i] = f
    BY <1>15, <2>1, AppendFacts
  <2>3. IdsOwned' /\ AnswersReachTheirCaller'
    BY <1>15 DEF RouteInv, IdsOwned, AnswersReachTheirCaller
  <2>4. IdsTravel'
    BY <1>15, <2>2 DEF RouteInv, IdsTravel
  <2> QED BY <2>3, <2>4 DEF RouteInv
<1>16. ASSUME NEW j \in Inbounds, PeerRequests(j) PROVE RouteInv'
  BY <1>16, <1>15 DEF PeerRequests, calls
<1>17. ASSUME PeerAnswers PROVE RouteInv'
  <2>1. PICK i \in 1..Len(wire), k \in {"response", "error"} :
           /\ wire[i].kind = "request"
           /\ inbox' = Append(inbox, [kind |-> k, id |-> wire[i].id, to |-> wire[i].from])
    BY <1>17 DEF PeerAnswers
  <2>2. wire[i].id # 0 /\ ids[wire[i].from] = wire[i].id
    BY <2>1 DEF RouteInv, IdsTravel
  <2> QED BY <1>17, <2>1, <2>2, <1>15 DEF PeerAnswers, calls
<1>18. ASSUME PeerCloses PROVE RouteInv'
  BY <1>18, <1>15 DEF PeerCloses, calls
<1>19. CASE UNCHANGED vars
  BY <1>19, RouteQuiet DEF vars
<1> QED
  BY <1>1, <1>2, <1>3, <1>4, <1>5, <1>6, <1>7, <1>8, <1>9, <1>10, <1>11, <1>12,
     <1>13, <1>14, <1>16, <1>17, <1>18, <1>19 DEF Next, WriterStep, Closer

\* dispatch delivers every answer to the SendRequest that drew its id, into a
\* free slot, for any number of callers and any late or repeated answers.
THEOREM AnswersRouted == Spec => []AnswersReachTheirCaller
<1>1. Init => RouteInv
  <2> SUFFICES ASSUME Init PROVE RouteInv
    OBVIOUS
  <2>1. IdsOwned
    BY ThreadSets DEF Init, IdsOwned, FirstID
  <2>2. IdsTravel /\ AnswersReachTheirCaller
    BY DEF Init, IdsTravel, AnswersReachTheirCaller
  <2> QED BY <2>1, <2>2, TypeInit DEF RouteInv
<1>2. RouteInv => AnswersReachTheirCaller
  BY DEF RouteInv
<1> QED BY <1>1, <1>2, RouteStep, PTL DEF Spec

-----------------------------------------------------------------------------
(* What a writer is told *)

\* A writer here has no whole frame on the wire yet, or will never have one.
Unsent == {"idle", "handling", "queued", "writing", "faulted", "closing", "publishing", "closed"}
Written == {"wrote", "select"}

\* The program counter of a writer says whether its frame went out whole.
SentByPc ==
    \A t \in Writers : /\ pc[t] \in Unsent => ~OnWire(t)
                       /\ pc[t] \in Written => OnWire(t)

\* The frame of a reply is the one its handler meant to send.
ReplyKept ==
    \A i \in 1..Len(wire) : wire[i].whole /\ wire[i].from \in Inbounds =>
        wire[i].kind = reply[wire[i].from].kind

\* An outcome is told once, when the writer is through.
ToldAtEnd ==
    /\ \A j \in Inbounds : receipt[j] \in {"ok", "err"} => pc[j] = "done"
    /\ \A t \in Requests \cup Notes : result[t] # "none" => pc[t] = "done"

OutcomeInv == SentByPc /\ ReplyKept /\ ToldAtEnd /\ OutcomeMatchesWire

\* A step that writes nothing keeps the invariant when the writers it moves keep their side of
\* the wire and what it tells them agrees with the wire.
LEMMA OutcomeQuiet ==
    ASSUME TypeOK, TypeOK', OutcomeInv, UNCHANGED wire,
           \A t \in Writers : /\ pc'[t] \in Unsent => pc[t] \in Unsent
                              /\ pc'[t] \in Written => pc[t] \in Written
                              /\ pc[t] = "done" => pc'[t] = "done",
           \A j \in Inbounds : reply'[j] = reply[j] \/ pc[j] \in Unsent,
           \A j \in Inbounds : \/ receipt'[j] = receipt[j]
                               \/ receipt'[j] = "open"
                               \/ pc'[j] = "done" /\ receipt'[j] = "ok" /\ Answered(j)
                               \/ pc'[j] = "done" /\ receipt'[j] = "err" /\ ~Answered(j),
           \A t \in Requests \cup Notes :
                \/ result'[t] = result[t]
                \/ pc'[t] = "done" /\ result'[t] = "unwritten" /\ ~OnWire(t)
                \/ pc'[t] = "done" /\ result'[t] \in {"response", "error", "sent"} /\ OnWire(t)
                \/ pc'[t] = "done" /\ result'[t] \in {"closed", "cancelled"}
    PROVE  OutcomeInv'
<1>1. \A t : OnWire(t)' = OnWire(t) /\ Answered(t)' = Answered(t)
  BY DEF OnWire, Answered
<1>2. SentByPc'
  BY <1>1 DEF OutcomeInv, SentByPc
<1>3. ReplyKept'
  <2> SUFFICES ASSUME NEW i \in 1..Len(wire), wire[i].whole, wire[i].from \in Inbounds
               PROVE  wire[i].kind = reply'[wire[i].from].kind
    BY DEF ReplyKept
  <2>1. OnWire(wire[i].from)
    BY DEF OnWire
  <2>2. pc[wire[i].from] \notin Unsent
    BY <2>1, ThreadSets DEF OutcomeInv, SentByPc
  <2> QED BY <2>2 DEF OutcomeInv, ReplyKept
<1>4. ToldAtEnd'
  <2>1. \A j \in Inbounds : receipt'[j] \in {"ok", "err"} => pc'[j] = "done"
    BY ThreadSets DEF OutcomeInv, ToldAtEnd
  <2>2. \A t \in Requests \cup Notes : result'[t] # "none" => pc'[t] = "done"
    BY ThreadSets DEF OutcomeInv, ToldAtEnd
  <2> QED BY <2>1, <2>2 DEF ToldAtEnd
<1>5. OutcomeMatchesWire'
  <2>1. \A j \in Inbounds : /\ receipt'[j] = "ok" => Answered(j)
                            /\ receipt'[j] = "err" => ~Answered(j)
    BY DEF OutcomeInv, OutcomeMatchesWire
  <2>2. \A n \in Notes : /\ result'[n] = "sent" => OnWire(n)
                         /\ result'[n] = "unwritten" => ~OnWire(n)
    BY DEF OutcomeInv, OutcomeMatchesWire
  <2>3. \A r \in Requests : /\ result'[r] = "unwritten" => ~OnWire(r)
                            /\ result'[r] \in {"response", "error"} => OnWire(r)
    BY DEF OutcomeInv, OutcomeMatchesWire
  <2> QED BY <1>1, <2>1, <2>2, <2>3 DEF OutcomeMatchesWire
<1> QED BY <1>2, <1>3, <1>4, <1>5 DEF OutcomeInv

\* A writer that gives up has no whole frame on the wire, and is told so.
LEMMA OutcomeGiveUp ==
    ASSUME TypeOK, TypeOK', OutcomeInv, NEW t \in Writers, pc[t] \in Unsent, GiveUp(t),
           UNCHANGED <<wire, reply>>
    PROVE  OutcomeInv'
<1>1. \A u \in Writers : pc'[u] = IF u = t THEN "done" ELSE pc[u]
  BY ThreadSets DEF GiveUp, Goto, TypeOK
<1>2. ~OnWire(t)
  BY DEF OutcomeInv, SentByPc
<1>3. ~Answered(t)
  BY <1>2 DEF OnWire, Answered
<1>4. \A j \in Inbounds : receipt'[j] = receipt[j] \/ (j = t /\ receipt'[j] = "err")
  BY DEF GiveUp, FailReceipt, TypeOK
<1>5. \A u \in Requests \cup Notes : result'[u] = result[u] \/ (u = t /\ result'[u] = "unwritten")
  BY DEF GiveUp, TypeOK
<1>6. \A u \in Writers : /\ pc'[u] \in Unsent => pc[u] \in Unsent
                         /\ pc'[u] \in Written => pc[u] \in Written
                         /\ pc[u] = "done" => pc'[u] = "done"
  BY <1>1 DEF Unsent, Written
<1> QED BY <1>1, <1>2, <1>3, <1>4, <1>5, <1>6, OutcomeQuiet, ThreadSets

\* Every step keeps what writers are told in line with the wire.
LEMMA OutcomeStep == WriteInv /\ OutcomeInv /\ [Next]_vars => OutcomeInv'
<1> SUFFICES ASSUME WriteInv, OutcomeInv, [Next]_vars PROVE OutcomeInv'
  OBVIOUS
<1> TypeOK /\ TypeOK'
  BY TypeStep DEF WriteInv
<1>a. \A t \in Threads, w \in PCs : Goto(t, w) =>
         \A u \in Threads : pc'[u] = IF u = t THEN w ELSE pc[u]
  BY DEF Goto, TypeOK
<1>b. ASSUME NEW t \in Threads, NEW w \in PCs, Goto(t, w), UNCHANGED <<wire, reply, receipt, result>>,
             t \in Writers => /\ w \in Unsent => pc[t] \in Unsent
                              /\ w \in Written => pc[t] \in Written
                              /\ pc[t] # "done"
      PROVE  OutcomeInv'
  <2>1. \A u \in Writers : /\ pc'[u] \in Unsent => pc[u] \in Unsent
                           /\ pc'[u] \in Written => pc[u] \in Written
                           /\ pc[u] = "done" => pc'[u] = "done"
    BY <1>a, <1>b, ThreadSets
  <2> QED BY <1>b, <2>1, OutcomeQuiet
<1>1. ASSUME NEW r \in Requests, Register(r) PROVE OutcomeInv'
  <2>1. CASE closed
    <3>1. \A u \in Writers : pc'[u] = IF u = r THEN "done" ELSE pc[u]
      BY <1>1, <2>1, <1>a, ThreadSets DEF Register, PCs
    <3>2. \A u \in Requests \cup Notes : result'[u] = IF u = r THEN "closed" ELSE result[u]
      BY <1>1, <2>1 DEF Register, TypeOK
    <3>3. \A u \in Writers : /\ pc'[u] \in Unsent => pc[u] \in Unsent
                             /\ pc'[u] \in Written => pc[u] \in Written
                             /\ pc[u] = "done" => pc'[u] = "done"
      BY <3>1 DEF Unsent, Written
    <3> QED BY <1>1, <3>1, <3>2, <3>3, OutcomeQuiet, ThreadSets DEF Register, serving
  <2>2. CASE ~closed
    BY <1>1, <2>2, <1>b, ThreadSets DEF Register, serving, PCs, Unsent, Written
  <2> QED BY <2>1, <2>2
<1>2. ASSUME NEW r \in Requests, Select(r) PROVE OutcomeInv'
  <2>1. \A u \in Writers : pc'[u] = IF u = r THEN "done" ELSE pc[u]
    BY <1>2, <1>a, ThreadSets DEF Select, PCs
  <2>2. OnWire(r) /\ pc[r] = "select"
    BY <1>2, ThreadSets DEF Select, OutcomeInv, SentByPc, Written
  <2>3. buf[r] # <<>> => Head(buf[r]).kind \in {"response", "error"}
    <3>1. buf[r] \in Seq(Answers)
      BY DEF TypeOK
    <3>2. buf[r] # <<>> => Head(buf[r]) \in Answers
      BY <3>1
    <3> QED BY <3>2 DEF Answers
  <2>4. \A u \in Requests \cup Notes :
           \/ result'[u] = result[u]
           \/ u = r /\ result'[u] \in {"response", "error", "closed", "cancelled"}
    BY <1>2, <2>3 DEF Select, TypeOK
  <2>5. \A u \in Writers : /\ pc'[u] \in Unsent => pc[u] \in Unsent
                           /\ pc'[u] \in Written => pc[u] \in Written
                           /\ pc[u] = "done" => pc'[u] = "done"
    BY <2>1 DEF Unsent, Written
  <2>6. UNCHANGED <<wire, reply, receipt>>
    BY <1>2 DEF Select, serving
  <2> QED BY <2>1, <2>2, <2>4, <2>5, <2>6, OutcomeQuiet, ThreadSets
<1>3. ASSUME NEW r \in Requests, Cancel(r) PROVE OutcomeInv'
  BY <1>3, OutcomeQuiet DEF Cancel, serving
<1>4. ASSUME NEW n \in Notes, Notify(n) PROVE OutcomeInv'
  <2>1. CASE closed
    <3>1. \A u \in Writers : pc'[u] = IF u = n THEN "done" ELSE pc[u]
      BY <1>4, <2>1, <1>a, ThreadSets DEF Notify, PCs
    <3>2. \A u \in Requests \cup Notes : result'[u] = IF u = n THEN "unwritten" ELSE result[u]
      BY <1>4, <2>1 DEF Notify, TypeOK
    <3>3. ~OnWire(n)
      BY <1>4, ThreadSets DEF Notify, OutcomeInv, SentByPc, Unsent
    <3>4. \A u \in Writers : /\ pc'[u] \in Unsent => pc[u] \in Unsent
                             /\ pc'[u] \in Written => pc[u] \in Written
                             /\ pc[u] = "done" => pc'[u] = "done"
      BY <3>1 DEF Unsent, Written
    <3> QED BY <1>4, <3>1, <3>2, <3>3, <3>4, OutcomeQuiet, ThreadSets DEF Notify, serving
  <2>2. CASE ~closed
    BY <1>4, <2>2, <1>b, ThreadSets DEF Notify, serving, PCs, Unsent, Written
  <2> QED BY <2>1, <2>2
<1>5. ASSUME NEW t \in Writers, Admit(t) PROVE OutcomeInv'
  <2>1. pc[t] \in Unsent /\ UNCHANGED <<wire, reply>>
    BY <1>5 DEF Admit, Unsent
  <2>2. CASE GiveUp(t)
    BY <2>1, <2>2, OutcomeGiveUp
  <2>3. CASE Goto(t, "writing") /\ UNCHANGED <<pending, result, receipt>>
    BY <1>5, <2>1, <2>3, <1>b, ThreadSets DEF Admit, PCs, Unsent, Written
  <2> QED BY <1>5, <2>2, <2>3 DEF Admit
<1>6. ASSUME NEW t \in Writers, WriteBytes(t) PROVE OutcomeInv'
  <2>1. /\ pc[t] = "writing" /\ ~OnWire(t) /\ UNCHANGED <<result, reply, receipt>>
        /\ wire \in Seq(Frames)
    BY <1>6 DEF WriteBytes, serving, OutcomeInv, SentByPc, Unsent, TypeOK
  <2>2. CASE wire' = wire
    <3>1. Goto(t, "faulted")
      <4>1. \A b \in BOOLEAN : Append(wire, Frame(t, b)) # wire
        BY <2>1, AppendFacts
      <4> QED BY <1>6, <2>2, <4>1 DEF WriteBytes
    <3> QED BY <2>1, <2>2, <3>1, <1>b, ThreadSets DEF PCs, Unsent, Written
  <2>3. ASSUME NEW b \in BOOLEAN, wire' = Append(wire, Frame(t, b)),
               Goto(t, IF b THEN "wrote" ELSE "faulted")
        PROVE  OutcomeInv'
    <3>1. /\ Len(wire) \in Nat /\ Len(wire') = Len(wire) + 1
          /\ \A i \in 1..Len(wire) : wire'[i] = wire[i]
          /\ wire'[Len(wire) + 1] = Frame(t, b)
      BY <2>1, <2>3, AppendFacts
    <3>2. Frame(t, b).from = t /\ Frame(t, b).whole = b /\ Frame(t, b).kind = Kind(t)
      BY DEF Frame
    <3>3. \A u \in Writers : pc'[u] = IF u = t THEN (IF b THEN "wrote" ELSE "faulted") ELSE pc[u]
      BY <2>3, <1>a, ThreadSets DEF PCs
    <3>4. \A u : u # t => (OnWire(u)' <=> OnWire(u)) /\ (Answered(u)' <=> Answered(u))
      <4> SUFFICES ASSUME NEW u, u # t
                   PROVE  (OnWire(u)' <=> OnWire(u)) /\ (Answered(u)' <=> Answered(u))
        OBVIOUS
      <4>1. \A i \in 1..Len(wire') : wire'[i].from = u => i \in 1..Len(wire) /\ wire'[i] = wire[i]
        BY <3>1, <3>2
      <4>2. \A i \in 1..Len(wire) : i \in 1..Len(wire') /\ wire'[i] = wire[i]
        BY <3>1
      <4>3. OnWire(u)' <=> OnWire(u)
        BY <4>1, <4>2 DEF OnWire
      <4>4. Answered(u)' <=> Answered(u)
        BY <4>1, <4>2 DEF Answered
      <4> QED BY <4>3, <4>4
    <3>5. OnWire(t)' <=> b
      <4>1. ASSUME b PROVE OnWire(t)'
        <5>1. Len(wire) + 1 \in 1..Len(wire')
          BY <3>1
        <5>2. wire'[Len(wire) + 1].from = t /\ wire'[Len(wire) + 1].whole
          BY <3>1, <3>2, <4>1
        <5> QED BY <5>1, <5>2 DEF OnWire
      <4>2. ASSUME ~b PROVE ~OnWire(t)'
        <5>1. \A i \in 1..Len(wire') : i \in 1..Len(wire) \/ i = Len(wire) + 1
          BY <3>1
        <5> QED BY <2>1, <3>1, <3>2, <4>2, <5>1 DEF OnWire
      <4> QED BY <4>1, <4>2
    <3>6. SentByPc'
      BY <3>3, <3>4, <3>5 DEF OutcomeInv, SentByPc, Unsent, Written
    <3>7. ReplyKept'
      <4> SUFFICES ASSUME NEW i \in 1..Len(wire'), wire'[i].whole, wire'[i].from \in Inbounds
                   PROVE  wire'[i].kind = reply[wire'[i].from].kind
        BY <2>1 DEF ReplyKept
      <4>1. CASE i \in 1..Len(wire)
        BY <3>1, <4>1 DEF OutcomeInv, ReplyKept
      <4>2. CASE i = Len(wire) + 1
        BY <3>1, <3>2, <4>2, ThreadsDistinct DEF Kind
      <4> QED BY <3>1, <4>1, <4>2
    <3>8. /\ t \in Inbounds => receipt[t] \notin {"ok", "err"}
          /\ t \in Requests \cup Notes => result[t] = "none"
      BY <2>1 DEF OutcomeInv, ToldAtEnd
    <3>9. ToldAtEnd'
      BY <2>1, <3>3, <3>8, ThreadSets DEF OutcomeInv, ToldAtEnd
    <3>10. OutcomeMatchesWire'
      BY <2>1, <3>4, <3>8 DEF OutcomeInv, OutcomeMatchesWire
    <3> QED BY <3>6, <3>7, <3>9, <3>10 DEF OutcomeInv
  <2> QED BY <1>6, <2>2, <2>3 DEF WriteBytes
<1>7. ASSUME NEW t \in Writers, Release(t) PROVE OutcomeInv'
  <2>1. UNCHANGED <<wire, reply>>
    BY <1>7 DEF Release
  <2>2. CASE pc[t] = "faulted"
    BY <1>7, <2>1, <2>2, <1>b, ThreadSets DEF Release, PCs, Unsent, Written
  <2>3. CASE pc[t] = "wrote"
    <3>1. \A u \in Writers : pc'[u] = IF u = t THEN (IF t \in Requests THEN "select" ELSE "done") ELSE pc[u]
      BY <1>7, <2>3, <1>a, ThreadSets DEF Release, PCs
    <3>2. OnWire(t)
      BY <2>3 DEF OutcomeInv, SentByPc, Written
    <3>3. \A u \in Requests \cup Notes : result'[u] = result[u] \/ (u = t /\ t \in Notes /\ result'[u] = "sent")
      BY <1>7, <2>3 DEF Release, TypeOK
    <3>4. \A j \in Inbounds : receipt'[j] = receipt[j] \/ (j = t /\ receipt'[j] = ReceiptOutcome(t))
      BY <1>7, <2>3 DEF Release, TypeOK
    <3>5. t \in Inbounds => (Answered(t) <=> reply[t].kind = "response")
      BY <3>2 DEF OutcomeInv, ReplyKept, OnWire, Answered
    <3>6. \A u \in Writers : /\ pc'[u] \in Unsent => pc[u] \in Unsent
                             /\ pc'[u] \in Written => pc[u] \in Written
                             /\ pc[u] = "done" => pc'[u] = "done"
      BY <2>3, <3>1 DEF Unsent, Written
    <3>7. \A j \in Inbounds : \/ receipt'[j] = receipt[j]
                              \/ pc'[j] = "done" /\ receipt'[j] = "ok" /\ Answered(j)
                              \/ pc'[j] = "done" /\ receipt'[j] = "err" /\ ~Answered(j)
      BY <3>1, <3>4, <3>5, ThreadsDistinct, ThreadSets DEF ReceiptOutcome
    <3>8. \A u \in Requests \cup Notes :
             result'[u] = result[u] \/ (pc'[u] = "done" /\ result'[u] = "sent" /\ OnWire(u))
      BY <3>1, <3>2, <3>3, ThreadsDistinct, ThreadSets
    <3> QED BY <2>1, <3>6, <3>7, <3>8, OutcomeQuiet
  <2> QED BY <1>7, <2>2, <2>3 DEF Release
<1>8. ASSUME NEW t \in Writers, AfterFault(t) PROVE OutcomeInv'
  BY <1>8, OutcomeGiveUp DEF AfterFault, Unsent
<1>9. ASSUME NEW t \in Threads, CloseMark(t) PROVE OutcomeInv'
  BY <1>9, <1>b DEF CloseMark, serving, PCs, Unsent, Written
<1>10. ASSUME NEW t \in Threads, ClosePublish(t) PROVE OutcomeInv'
  BY <1>10, <1>b DEF ClosePublish, serving, PCs, Unsent, Written
<1>11. ASSUME CallClose PROVE OutcomeInv'
  BY <1>11, <1>b, ThreadSets DEF CallClose, serving, PCs
<1>12. ASSUME ReadFrame PROVE OutcomeInv'
  <2> DEFINE m == Head(inbox)
  <2>1. m \in Messages /\ inbox # <<>> /\ UNCHANGED <<wire, result, receipt>>
    BY <1>12 DEF ReadFrame, TypeOK
  <2>2. m.kind = "request" => m.to \in Inbounds /\ pc[m.to] = "idle"
    <3>1. m.kind = "request" => m.to \in Inbounds
      BY <2>1 DEF Messages, Answers
    <3>2. m = inbox[1] /\ 1 \in 1..Len(inbox)
      BY <2>1 DEF TypeOK
    <3> QED BY <3>1, <3>2 DEF WriteInv, FreshInbound
  <2>3. \A u \in Writers : pc'[u] = pc[u] \/ (pc[u] = "idle" /\ pc'[u] \in {"handling", "queued"})
    <3>1. CASE m.kind = "eof"
      BY <1>12, <3>1, <1>a, ThreadSets DEF ReadFrame, PCs
    <3>2. CASE m.kind \in {"response", "error"}
      BY <1>12, <3>2 DEF ReadFrame
    <3>3. CASE m.kind = "request"
      <4>1. CASE handlerSet
        BY <1>12, <2>2, <3>3, <4>1, <1>a, ThreadSets DEF ReadFrame, PCs
      <4>2. CASE ~handlerSet
        BY <1>12, <2>2, <3>3, <4>2, ThreadSets DEF ReadFrame, TypeOK
      <4> QED BY <4>1, <4>2
    <3> QED BY <2>1, <3>1, <3>2, <3>3 DEF Messages, Answers
  <2>4. \A j \in Inbounds : reply'[j] = reply[j] \/ pc[j] = "idle"
    BY <1>12, <2>2 DEF ReadFrame, TypeOK
  <2>5. \A u \in Writers : /\ pc'[u] \in Unsent => pc[u] \in Unsent
                           /\ pc'[u] \in Written => pc[u] \in Written
                           /\ pc[u] = "done" => pc'[u] = "done"
    BY <2>3 DEF Unsent, Written
  <2> QED BY <2>1, <2>4, <2>5, OutcomeQuiet DEF Unsent
<1>13. ASSUME InlineDone PROVE OutcomeInv'
  BY <1>13, <1>b, ThreadSets DEF InlineDone, PCs
<1>14. ASSUME NEW j \in Inbounds, HandlerReturns(j) PROVE OutcomeInv'
  <2>1. \A u \in Writers : pc'[u] = IF u = j THEN "queued" ELSE pc[u]
    BY <1>14, <1>a, ThreadSets DEF HandlerReturns, PCs
  <2>2. \A u \in Inbounds : reply'[u] = reply[u] \/ pc[u] \in Unsent
    BY <1>14 DEF HandlerReturns, TypeOK, Unsent
  <2>3. \A u \in Inbounds : receipt'[u] = receipt[u] \/ receipt'[u] = "open"
    BY <1>14 DEF HandlerReturns, TypeOK
  <2>4. \A u \in Writers : /\ pc'[u] \in Unsent => pc[u] \in Unsent
                           /\ pc'[u] \in Written => pc[u] \in Written
                           /\ pc[u] = "done" => pc'[u] = "done"
    BY <1>14, <2>1 DEF HandlerReturns, Unsent, Written
  <2>5. UNCHANGED <<wire, result>>
    BY <1>14 DEF HandlerReturns
  <2> QED BY <2>2, <2>3, <2>4, <2>5, OutcomeQuiet
<1>15. CASE UNCHANGED <<pc, wire, reply, receipt, result>>
  BY <1>15, OutcomeQuiet
<1>16. ASSUME (\E j \in Inbounds : PeerRequests(j)) \/ PeerAnswers \/ PeerCloses \/ UNCHANGED vars
       PROVE  OutcomeInv'
  BY <1>15, <1>16 DEF PeerRequests, PeerAnswers, PeerCloses, serving, vars
<1> QED
  BY <1>1, <1>2, <1>3, <1>4, <1>5, <1>6, <1>7, <1>8, <1>9, <1>10, <1>11, <1>12,
     <1>13, <1>14, <1>16 DEF Next, WriterStep, Closer

\* What every writer is told agrees with what the peer can read: a receipt is completed without
\* error exactly when the whole intended response is on the wire, and a write error is returned
\* only for a frame the peer never gets whole, for any number of writers, faults and closes.
THEOREM OutcomeTruthful == Spec => []OutcomeMatchesWire
<1>1. Init => OutcomeInv
  <2> SUFFICES ASSUME Init PROVE OutcomeInv
    OBVIOUS
  <2>1. \A t : ~OnWire(t) /\ ~Answered(t)
    BY DEF Init, OnWire, Answered
  <2>2. SentByPc
    BY <2>1, ThreadSets DEF Init, SentByPc, Written
  <2>3. ReplyKept /\ ToldAtEnd
    BY DEF Init, ReplyKept, ToldAtEnd
  <2>4. OutcomeMatchesWire
    BY <2>1 DEF Init, OutcomeMatchesWire
  <2> QED BY <2>2, <2>3, <2>4 DEF OutcomeInv
<1>2. OutcomeInv => OutcomeMatchesWire
  BY DEF OutcomeInv
<1> QED BY <1>1, <1>2, OutcomeStep, WriteInit, WriteStep, PTL DEF Spec
=============================================================================
