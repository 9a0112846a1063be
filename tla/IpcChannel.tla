----------------------------- MODULE IpcChannel -----------------------------
(***************************************************************************)
(* The Go end of the CLI transport: internal/ipc/channel.go.               *)
(*                                                                         *)
(* Every goroutine that touches the Channel is a thread with a program     *)
(* counter: the callers of SendRequest (Requests) and SendNotification     *)
(* (Notes), one handler goroutine per inbound request (Inbounds), the read *)
(* loop (Reader) and the owner that calls Close (App).  A step is what the *)
(* code does between two points where another goroutine can observe it: a  *)
(* critical section of c.mu is one step, a frame write under c.writeMu is  *)
(* three (admission, bytes, release).                                      *)
(***************************************************************************)
EXTENDS Integers, Sequences, FiniteSets

CONSTANTS
    Requests,    \* invocations of SendRequest
    Notes,       \* invocations of SendNotification
    Inbounds,    \* requests the peer may send us
    Reader, App, \* the read-loop goroutine and the caller of Close
    None,        \* no thread
    MaxAnswers   \* bound: response/error frames the peer sends

Writers == Requests \cup Notes \cup Inbounds
Threads == Writers \cup {Reader, App}

ASSUME ThreadsDistinct ==
    /\ Requests \cap Notes = {}
    /\ Requests \cap Inbounds = {}
    /\ Notes \cap Inbounds = {}
    /\ Reader \notin Writers
    /\ App \notin Writers
    /\ Reader # App
    /\ None \notin Threads

ASSUME MaxAnswersNat == MaxAnswers \in Nat

VARIABLES
    pending,    \* c.pending: <<id, request>> pairs
    nextID,     \* c.nextID
    ids,        \* the id each SendRequest drew, 0 before it has one
    closed,     \* c.closed
    sealErr,    \* c.writeSealErr, "none" while c.writeSealed is false
    done,       \* c.done has been closed (c.inCtx is cancelled with it)
    writeMu,    \* the thread holding c.writeMu
    pc,         \* where each goroutine is
    buf,        \* each request's one-slot response channel
    result,     \* what each SendRequest / SendNotification returned
    cancelled,  \* requests whose context is done (cancelled or timed out)
    reply,      \* what each inbound handler returned
    receipt,    \* ResponseReceipt of each tracked reply
    target,     \* the thread Reader is delivering to or writing for
    handlerSet, \* SetInboundHandler was called before Start
    wire,       \* frames accepted by c.writer, in order
    inbox,      \* frames the peer has sent and Reader has not read
    answers     \* how many response/error frames the peer has sent

vars == <<pending, nextID, ids, closed, sealErr, done, writeMu, pc, buf,
          result, cancelled, reply, receipt, target, handlerSet, wire, inbox,
          answers>>

locks == <<closed, sealErr, done, writeMu>>
calls == <<nextID, ids, cancelled>>
serving == <<reply, receipt, target, handlerSet>>
peer == <<inbox, answers>>

PCs == {"idle", "queued", "writing", "wrote", "faulted", "closing",
        "publishing", "closed", "select", "handling", "read", "inline",
        "done"}
SealErrs == {"none", "terminal", "fault", "closed"}
Results == {"none", "response", "error", "cancelled", "closed", "unwritten",
            "sent"}

(***************************************************************************)
(* What an inbound handler can hand to Channel: a plain result, a tracked  *)
(* or terminal tracked one, or a failure.  A failure is a returned error,  *)
(* a panic, or a result that does not marshal; it is written as an error   *)
(* frame, which seals exactly when the result was tracked.                 *)
(***************************************************************************)
Replies ==
    {rep \in [kind : {"response", "error"}, tracked : BOOLEAN, seal : BOOLEAN] :
        IF rep.kind = "response" THEN rep.seal => rep.tracked
                                 ELSE rep.seal = rep.tracked}

PlainError == [kind |-> "error", tracked |-> FALSE, seal |-> FALSE]

Kind(t) == IF t \in Requests THEN "request"
           ELSE IF t \in Notes THEN "note" ELSE reply[t].kind

\* The terminal argument of writeFrameTracked.
Seals(t) == t \in Inbounds /\ reply[t].seal

\* The frame as the wire sees it; whole is FALSE for a truncated one.
Frame(t, whole) ==
    [from |-> t, kind |-> Kind(t), id |-> IF t \in Requests THEN ids[t] ELSE 0,
     whole |-> whole, seal |-> Seals(t)]

Frames ==
    [from : Requests, kind : {"request"}, id : Nat, whole : BOOLEAN, seal : {FALSE}]
    \cup [from : Notes, kind : {"note"}, id : {0}, whole : BOOLEAN, seal : {FALSE}]
    \cup [from : Inbounds, kind : {"response", "error"}, id : {0},
          whole : BOOLEAN, seal : BOOLEAN]

\* What the peer can have sent; to is the request an answer was meant for.
Answers == [kind : {"response", "error"}, id : Nat, to : Requests]
Messages == Answers
            \cup [kind : {"request"}, id : {0}, to : Inbounds]
            \cup [kind : {"eof"}, id : {0}, to : {None}]

\* The channel's fields, its threads' positions and the two pipes keep their
\* shapes, and c.nextID never rests at 0, the id of a note.
TypeOK ==
    /\ pending \in SUBSET (Nat \X Requests)
    /\ nextID \in Nat \ {0}
    /\ ids \in [Requests -> Nat]
    /\ closed \in BOOLEAN /\ done \in BOOLEAN /\ handlerSet \in BOOLEAN
    /\ sealErr \in SealErrs
    /\ writeMu \in Writers \cup {None}
    /\ pc \in [Threads -> PCs]
    /\ buf \in [Requests -> Seq(Answers)]
    /\ result \in [Requests \cup Notes -> Results]
    /\ cancelled \in SUBSET Requests
    /\ reply \in [Inbounds -> Replies]
    /\ receipt \in [Inbounds -> {"none", "open", "ok", "err"}]
    /\ target \in Threads \cup {None}
    /\ wire \in Seq(Frames)
    /\ inbox \in Seq(Messages)
    /\ answers \in Nat

\* Requests use ids above 0; id 0 marks a notification.
FirstIDZero == 0
FirstID == 1

Init ==
    /\ pending = {} /\ nextID = FirstID /\ ids = [r \in Requests |-> 0]
    /\ closed = FALSE /\ sealErr = "none" /\ done = FALSE /\ writeMu = None
    /\ pc = [t \in Threads |-> IF t = Reader THEN "read" ELSE "idle"]
    /\ buf = [r \in Requests |-> <<>>]
    /\ result = [t \in Requests \cup Notes |-> "none"]
    /\ cancelled = {}
    /\ reply = [j \in Inbounds |-> PlainError]
    /\ receipt = [j \in Inbounds |-> "none"]
    /\ target = None /\ handlerSet \in BOOLEAN
    /\ wire = <<>> /\ inbox = <<>> /\ answers = 0

Goto(t, where) == pc' = [pc EXCEPT ![t] = where]

\* delete(c.pending, id)
WithoutForgotten(id) == pending
Without(id) == {p \in pending : p[1] # id}

-----------------------------------------------------------------------------
(* Callers *)

\* SendRequest up to the write: an id and a pending entry under one c.mu
\* section.  The entry exists before the frame can reach the peer.
Register(r) ==
    /\ pc[r] = "idle"
    /\ \/ /\ closed
          /\ Goto(r, "done") /\ result' = [result EXCEPT ![r] = "closed"]
          /\ UNCHANGED <<pending, nextID, ids>>
       \/ /\ ~closed
          /\ pending' = Without(nextID) \cup {<<nextID, r>>}
          /\ ids' = [ids EXCEPT ![r] = nextID]
          /\ nextID' = nextID + 1
          /\ Goto(r, "queued")
          /\ UNCHANGED result
    /\ UNCHANGED <<locks, buf, cancelled, serving, wire, peer>>

\* SendNotification up to the write.
Notify(n) ==
    /\ pc[n] = "idle"
    /\ \/ /\ closed
          /\ Goto(n, "done") /\ result' = [result EXCEPT ![n] = "unwritten"]
       \/ /\ ~closed /\ Goto(n, "queued") /\ UNCHANGED result
    /\ UNCHANGED <<pending, locks, buf, calls, serving, wire, peer>>

\* A caller's context is cancelled or its deadline passes.
Cancel(r) ==
    /\ pc[r] \notin {"idle", "done"} /\ r \notin cancelled
    /\ cancelled' = cancelled \cup {r}
    /\ UNCHANGED <<pending, nextID, ids, locks, pc, buf, result, serving, wire,
                   peer>>

\* The select at the end of SendRequest.  When several cases are ready, Go
\* picks any of them.
Select(r) ==
    /\ pc[r] = "select"
    /\ \/ /\ buf[r] # <<>>
          /\ result' = [result EXCEPT ![r] = Head(buf[r]).kind]
          /\ buf' = [buf EXCEPT ![r] = Tail(@)]
          /\ UNCHANGED pending
       \/ /\ r \in cancelled
          /\ result' = [result EXCEPT ![r] = "cancelled"]
          /\ pending' = Without(ids[r])
          /\ UNCHANGED buf
       \/ /\ done
          /\ result' = [result EXCEPT ![r] = "closed"]
          /\ UNCHANGED <<pending, buf>>
    /\ Goto(r, "done")
    /\ UNCHANGED <<locks, calls, serving, wire, peer>>

-----------------------------------------------------------------------------
(* Writing a frame: writeFrameTracked *)

\* receipt.complete(err) of a reply whose intended frame was not written.
FailReceiptNever(t) == UNCHANGED receipt
FailReceipt(t) ==
    receipt' = IF t \in Inbounds /\ reply[t].tracked
               THEN [receipt EXCEPT ![t] = "err"] ELSE receipt

\* The end of a writer whose frame was not accepted whole: SendRequest drops
\* its entry, a tracked reply completes its receipt with an error.
GiveUp(t) ==
    /\ Goto(t, "done")
    /\ pending' = IF t \in Requests THEN Without(ids[t]) ELSE pending
    /\ result' = IF t \in Requests \cup Notes
                 THEN [result EXCEPT ![t] = "unwritten"] ELSE result
    /\ FailReceipt(t)

\* writeAdmissionError: a queued writer looks at closed and sealed only once
\* it holds c.writeMu.
AdmittedUnlessClosed == ~closed
Admitted == sealErr = "none" /\ ~closed

\* c.writeMu.Lock()
WriteLockSkipped == TRUE
WriteLockFree == writeMu = None

Admit(t) ==
    /\ pc[t] = "queued" /\ WriteLockFree
    /\ \/ /\ Admitted
          /\ writeMu' = t /\ Goto(t, "writing")
          /\ UNCHANGED <<pending, result, receipt>>
       \/ /\ ~Admitted /\ GiveUp(t) /\ UNCHANGED writeMu
    /\ UNCHANGED <<closed, sealErr, done, buf, calls, reply, target, handlerSet,
                   wire, peer>>

\* WriteFrame: header then body, any short write is a fault.  A fault leaves
\* either nothing or a truncated frame behind.
WriteBytes(t) ==
    /\ pc[t] = "writing"
    /\ \/ wire' = Append(wire, Frame(t, TRUE)) /\ Goto(t, "wrote")
       \/ wire' = Append(wire, Frame(t, FALSE)) /\ Goto(t, "faulted")
       \/ wire' = wire /\ Goto(t, "faulted")
    /\ UNCHANGED <<pending, locks, buf, result, calls, serving, peer>>

\* sealWrites: the first reason wins.
SealWith(why) == sealErr' = IF sealErr = "none" THEN why ELSE sealErr

\* What the receipt says once a frame for the reply is out: an error frame
\* sent in place of the intended response is not a success.
ReceiptAlwaysOk(t) == "ok"
ReceiptOutcome(t) == IF reply[t].kind = "response" THEN "ok" ELSE "err"

\* The rest of the c.writeMu section: seal, complete the receipt, unlock.
Release(t) ==
    /\ writeMu' = None
    /\ \/ /\ pc[t] = "faulted"
          /\ SealWith("fault")
          /\ Goto(t, "closing")
          /\ UNCHANGED <<result, receipt>>
       \/ /\ pc[t] = "wrote"
          /\ IF Seals(t) THEN SealWith("terminal") ELSE UNCHANGED sealErr
          /\ Goto(t, IF t \in Requests THEN "select" ELSE "done")
          /\ result' = IF t \in Notes THEN [result EXCEPT ![t] = "sent"] ELSE result
          /\ receipt' = IF t \in Inbounds /\ reply[t].tracked
                        THEN [receipt EXCEPT ![t] = ReceiptOutcome(t)]
                        ELSE receipt
    /\ UNCHANGED <<pending, closed, done, buf, calls, reply, target, handlerSet,
                   wire, peer>>

-----------------------------------------------------------------------------
(* closeWith, and what its callers do afterwards *)

\* Close()
CallClose ==
    /\ pc[App] = "idle" /\ Goto(App, "closing")
    /\ UNCHANGED <<pending, locks, buf, result, calls, serving, wire, peer>>

\* The c.mu section of closeWith.  Only the first closer goes on to publish.
CloseMark(t) ==
    /\ pc[t] = "closing"
    /\ \/ closed /\ Goto(t, "closed") /\ UNCHANGED <<pending, closed, sealErr>>
       \/ /\ ~closed
          /\ closed' = TRUE /\ pending' = {}
          /\ SealWith("closed")
          /\ Goto(t, "publishing")
    /\ UNCHANGED <<done, writeMu, buf, result, calls, serving, wire, peer>>

\* inCancel and close(c.done), after c.mu is released.
WakeNobody == UNCHANGED done
WakeWaiters == done' = TRUE

ClosePublish(t) ==
    /\ pc[t] = "publishing"
    /\ WakeWaiters
    /\ Goto(t, "closed")
    /\ UNCHANGED <<pending, closed, sealErr, writeMu, buf, result, calls,
                   serving, wire, peer>>

\* A writer returns from closeWith after its write fault.
AfterFault(t) ==
    /\ pc[t] = "closed"
    /\ GiveUp(t)
    /\ UNCHANGED <<locks, buf, calls, reply, target, handlerSet, wire, peer>>

-----------------------------------------------------------------------------
(* The read loop and the inbound handlers *)

\* ReadFrame then dispatch.  The response channel has one slot and dispatch
\* sends on it right after its c.mu section, so it is modelled as part of the
\* same step; the send blocks, and with it the read loop, on a full slot.
ReadFrame ==
    /\ pc[Reader] = "read" /\ inbox # <<>>
    /\ inbox' = Tail(inbox)
    /\ LET m == Head(inbox)
           entry == {p \in pending : p[1] = m.id}
       IN \/ \* io.EOF or an undecodable frame
             /\ m.kind = "eof"
             /\ Goto(Reader, "closing")
             /\ UNCHANGED <<pending, buf, target, reply>>
          \/ \* a response whose SendRequest is still waiting
             /\ m.kind \in {"response", "error"} /\ entry # {}
             /\ \E p \in entry :
                   /\ buf[p[2]] = <<>>
                   /\ buf' = [buf EXCEPT ![p[2]] = Append(@, m)]
             /\ pending' = Without(m.id)
             /\ UNCHANGED <<pc, target, reply>>
          \/ \* an orphan response: reported and dropped
             /\ m.kind \in {"response", "error"} /\ entry = {}
             /\ UNCHANGED <<pc, pending, buf, target, reply>>
          \/ \* a request, served by a goroutine of its own
             /\ m.kind = "request" /\ handlerSet
             /\ Goto(m.to, "handling")
             /\ UNCHANGED <<pending, buf, target, reply>>
          \/ \* a request with no handler: the error frame is written inline
             /\ m.kind = "request" /\ ~handlerSet
             /\ pc' = [pc EXCEPT ![m.to] = "queued", ![Reader] = "inline"]
             /\ target' = m.to
             /\ reply' = [reply EXCEPT ![m.to] = PlainError]
             /\ UNCHANGED <<pending, buf>>
    /\ UNCHANGED <<locks, result, calls, receipt, handlerSet, wire, answers>>

\* The inline error frame is out (or refused) and the loop reads on.
InlineDone ==
    /\ pc[Reader] = "inline" /\ pc[target] = "done"
    /\ Goto(Reader, "read") /\ target' = None
    /\ UNCHANGED <<pending, locks, buf, result, calls, reply, receipt, handlerSet,
                   wire, peer>>

\* handleInboundRequest: the handler returns and its reply goes to be written.
HandlerReturns(j) ==
    /\ pc[j] = "handling"
    /\ \E rep \in Replies :
          /\ reply' = [reply EXCEPT ![j] = rep]
          /\ receipt' = IF rep.tracked THEN [receipt EXCEPT ![j] = "open"] ELSE receipt
    /\ Goto(j, "queued")
    /\ UNCHANGED <<pending, locks, buf, result, calls, target, handlerSet, wire,
                   peer>>

-----------------------------------------------------------------------------
(* The peer (packages/rslint/src/ipc/client.ts seen from here).  It answers  *)
(* only requests that reached it whole, possibly late or more than once,     *)
(* sends each inbound request once, and its stream ends at any time.         *)

PeerOpen == \A i \in 1..Len(inbox) : inbox[i].kind # "eof"

PeerAnswers ==
    /\ answers < MaxAnswers /\ PeerOpen /\ pc[Reader] \in {"read", "inline"}
    /\ \E i \in 1..Len(wire), k \in {"response", "error"} :
          /\ wire[i].kind = "request" /\ wire[i].whole
          /\ inbox' = Append(inbox, [kind |-> k, id |-> wire[i].id, to |-> wire[i].from])
    /\ answers' = answers + 1
    /\ UNCHANGED <<pending, locks, pc, buf, result, calls, serving, wire>>

PeerRequests(j) ==
    /\ pc[j] = "idle" /\ PeerOpen /\ pc[Reader] \in {"read", "inline"}
    /\ \A i \in 1..Len(inbox) : inbox[i].to # j
    /\ inbox' = Append(inbox, [kind |-> "request", id |-> 0, to |-> j])
    /\ UNCHANGED <<pending, locks, pc, buf, result, calls, serving, wire, answers>>

PeerCloses ==
    /\ PeerOpen /\ pc[Reader] \in {"read", "inline"}
    /\ inbox' = Append(inbox, [kind |-> "eof", id |-> 0, to |-> None])
    /\ UNCHANGED <<pending, locks, pc, buf, result, calls, serving, wire, answers>>

-----------------------------------------------------------------------------
WriterStep(t) == Admit(t) \/ WriteBytes(t) \/ Release(t) \/ AfterFault(t)
Closer(t) == CloseMark(t) \/ ClosePublish(t)

Next ==
    \/ \E r \in Requests : Register(r) \/ Select(r) \/ Cancel(r)
    \/ \E n \in Notes : Notify(n)
    \/ \E t \in Writers : WriterStep(t)
    \/ \E t \in Threads : Closer(t)
    \/ CallClose
    \/ ReadFrame \/ InlineDone
    \/ \E j \in Inbounds : HandlerReturns(j) \/ PeerRequests(j)
    \/ PeerAnswers \/ PeerCloses

(***************************************************************************)
(* A goroutine that can run eventually runs; a frame write ends because of *)
(* its write deadline; an inbound handler returns.  Nothing is assumed of  *)
(* the peer, of the callers' contexts, or of whether anyone calls the API. *)
(***************************************************************************)
Fairness ==
    /\ \A r \in Requests : WF_vars(Select(r))
    /\ \A t \in Writers : WF_vars(WriterStep(t))
    /\ \A t \in Threads : WF_vars(Closer(t))
    /\ WF_vars(ReadFrame \/ InlineDone)
    /\ \A j \in Inbounds : WF_vars(HandlerReturns(j))

Spec == Init /\ [][Next]_vars
FairSpec == Spec /\ Fairness

-----------------------------------------------------------------------------
(* Properties *)

\* The byte stream stays framed: only the last frame on the wire can be
\* truncated, and only the last can be a terminal reply.  Writers that queued
\* for c.writeMu before a fault or a terminal reply must find it sealed.
Final(f) == ~f.whole \/ f.seal
WireStaysFramed == \A i \in 1..(Len(wire) - 1) : ~Final(wire[i])

OnWire(t) == \E i \in 1..Len(wire) : wire[i].from = t /\ wire[i].whole
Answered(t) == \E i \in 1..Len(wire) :
                  wire[i].from = t /\ wire[i].whole /\ wire[i].kind = "response"

\* What a writer is told agrees with what the peer can read.  A receipt is
\* completed without error only if the whole intended response is on the
\* wire, and with an error only if it is not; SendNotification and SendRequest
\* report a write error only for a frame the peer never gets whole.
OutcomeMatchesWire ==
    /\ \A j \in Inbounds : /\ receipt[j] = "ok" => Answered(j)
                           /\ receipt[j] = "err" => ~Answered(j)
    /\ \A n \in Notes : /\ result[n] = "sent" => OnWire(n)
                        /\ result[n] = "unwritten" => ~OnWire(n)
    /\ \A r \in Requests : /\ result[r] = "unwritten" => ~OnWire(r)
                           /\ result[r] \in {"response", "error"} => OnWire(r)

\* dispatch hands an answer to the SendRequest it answers and never blocks on
\* it: a caller still in c.pending has its slot free, also when answers come
\* late, twice, or after the caller gave up.
AnswersReachTheirCaller ==
    /\ \A r \in Requests : \A k \in 1..Len(buf[r]) : buf[r][k].to = r
    /\ \A p \in pending : buf[p[2]] = <<>>

\* A waiting SendRequest whose context is done, whose answer is in, or whose
\* channel closed returns.
RequestReturns ==
    \A r \in Requests :
        /\ pc[r] \notin {"idle", "done"}
        /\ closed \/ r \in cancelled \/ \E i \in 1..Len(inbox) : inbox[i].to = r
        ~> pc[r] = "done"

\* Every inbound request is served to its end and no tracked reply leaves its
\* waiter without an outcome, whatever faults and closes happen on the way.
InboundSettles ==
    \A j \in Inbounds : pc[j] = "handling" ~> (pc[j] = "done" /\ receipt[j] # "open")

\* The wire implements the sealed log: the seal takes effect when no writer
\* admitted before it still holds c.writeMu.
Log == INSTANCE SealedLog
       WITH log <- wire, sealed <- sealErr # "none" /\ writeMu = None, Ends <- Final
WireIsSealedLog == Log!Spec
=============================================================================
