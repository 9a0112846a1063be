--------------------------- MODULE LspDiagnostics ---------------------------
(***************************************************************************)
(* The language server's transport and diagnostics (internal/lsp): the     *)
(* read loop, the dispatch loop and the write loop with their bounded      *)
(* queues, the document handlers, the debounce timer, progressive lints    *)
(* whose plugin half runs in a goroutine over a reverse request, fix-all   *)
(* and config refresh, which make reverse requests from the dispatch loop  *)
(* itself, and the editor at the other end.                                *)
(*                                                                         *)
(* A text is its version number.  What a lint reports is the text and the  *)
(* view (committed configs, projects, ignore files) it was made from, with *)
(* the plugin reports appended to it.  The handlers of the dispatch loop   *)
(* are atomic up to the points where the loop can block: a send to the     *)
(* outgoing queue, and the wait for a goroutine or a reverse request.      *)
(***************************************************************************)
EXTENDS Naturals, Sequences, SequencesExt, FiniteSets

CONSTANTS
    Docs,                \* the lintable documents of the workspace
    MaxSends,            \* bound: what the editor and the session start
    ReqCap,              \* capacity of requestQueue
    OutCap,              \* capacity of outgoingQueue
    ResultCap,           \* capacity of pluginResultCh
    SaveFollowsFixAll    \* the editor asks for fixAll only while saving

ASSUME CapsAssumption == /\ {MaxSends, ReqCap, OutCap, ResultCap} \subseteq Nat \ {0}
                         /\ SaveFollowsFixAll \in BOOLEAN

VARIABLES
    editor,    \* what the user sees: text of each document, reports shown, saves under way
    sends,     \* how much the editor and the session have started
    inbound,   \* editor -> server: what the read loop has queued, holds, or has yet to read
    asked,     \* reverse requests the editor has received and not answered
    outgoingQueue, pluginResultCh, refreshCh, debounceCh,
    timer,     \* the debounce timer is armed
    store,     \* the dispatch loop's own maps
    inflight,  \* inflightPluginDispatch: document -> the goroutine to cancel
    calls,     \* sendRequest calls under way, by id
    work,      \* what the handler running on the dispatch loop has left to do
    awaiting   \* the call the dispatch loop is blocked on

channels == <<outgoingQueue, pluginResultCh, refreshCh, debounceCh, timer>>
vars == <<editor, sends, inbound, asked, channels, store, inflight, calls, work, awaiting>>

NoCall == 0
Closed == 0
Empty == [text |-> 0, view |-> 0, native |-> FALSE, plugin |-> <<>>]

Init ==
    /\ editor = [text |-> [d \in Docs |-> Closed], shown |-> [d \in Docs |-> Empty],
                 fixing |-> [d \in Docs |-> "no"]]
    /\ sends = 0 /\ inbound = <<>> /\ asked = {}
    /\ outgoingQueue = <<>> /\ pluginResultCh = <<>>
    /\ refreshCh = FALSE /\ debounceCh = FALSE /\ timer = FALSE
    /\ store = [documents |-> [d \in Docs |-> Closed], diagnostics |-> [d \in Docs |-> Empty],
                docGeneration |-> [d \in Docs |-> 0], pendingLintURIs |-> {}, view |-> 1]
    /\ inflight = [d \in Docs |-> NoCall]
    /\ calls = <<>>
    /\ work = {} /\ awaiting = NoCall

-----------------------------------------------------------------------------
(* Calls: sendRequest on the goroutine, or on the dispatch loop, that made it. *)

OpenDocs == {d \in Docs : store.documents[d] # Closed}

NoResult == <<>>

Call(kind, result) == [kind |-> kind, pc |-> "queue", ctxDone |-> FALSE, result |-> result]

\* clientSeq never repeats an id; ids are only compared, so any id nobody holds stands for the next.
Held == {awaiting} \cup DOMAIN calls \cup asked \cup {m.id : m \in {x \in Range(outgoingQueue) \cup Range(inbound) :
                                                     x.op \in {"call", "cancel", "answer"}}}
NextId == Min(1..(Cardinality(Held) + 1) \ Held)

Started(c) == [i \in DOMAIN calls \cup {NextId} |-> IF i = NextId THEN c ELSE calls[i]]

\* The goroutine's deferred calls: clearInflightPluginDispatch, then close(done).
Finish(i) ==
    /\ calls' = [j \in DOMAIN calls \ {i} |-> calls[j]]
    /\ inflight' = [d \in Docs |-> IF inflight[d] = i THEN NoCall ELSE inflight[d]]

SendCall(i) ==
    /\ calls[i].pc = "queue" /\ Len(outgoingQueue) < OutCap
    /\ outgoingQueue' = Append(outgoingQueue, [op |-> "call", id |-> i])
    /\ calls' = [calls EXCEPT ![i].pc = "wait"]
    /\ UNCHANGED <<pluginResultCh, inflight>>

\* Mutant: plugin requests have no deadline.
ContextCancelled(i) == calls[i].ctxDone

\* A superseded goroutine's context is cancelled, and that of a plugin request ends with
\* pluginReverseTimeout at the latest; a config request inherits a context that does not end.
ContextDone(i) == calls[i].ctxDone \/ calls[i].kind \in {"enrich", "fixAll"}

\* ctx.Done wins; the cancel notification is dropped when the queue is full.
AbandonCall(i) ==
    /\ calls[i].pc \in {"queue", "wait", "answered"} /\ ContextDone(i)
    /\ Finish(i)
    /\ outgoingQueue' = IF calls[i].pc = "wait" /\ Len(outgoingQueue) < OutCap
                        THEN Append(outgoingQueue, [op |-> "cancel", id |-> i])
                        ELSE outgoingQueue
    /\ UNCHANGED pluginResultCh

\* An error, or the answer the dispatch loop waits for, ends the call; plugin reports are delivered.
TakeAnswer(i) ==
    /\ calls[i].pc = "answered"
    /\ \/ Finish(i)
       \/ /\ calls[i].kind = "enrich"
          /\ calls' = [calls EXCEPT ![i].pc = "deliver"]
          /\ UNCHANGED inflight
    /\ UNCHANGED <<outgoingQueue, pluginResultCh>>

\* First the buffered send; only a full buffer also watches ctx.Done.
DeliverResult(i) ==
    /\ calls[i].pc \in {"deliver", "blocked"}
    /\ \/ /\ Len(pluginResultCh) < ResultCap
          /\ pluginResultCh' = Append(pluginResultCh, calls[i].result)
          /\ Finish(i)
       \/ /\ calls[i].pc = "deliver" /\ Len(pluginResultCh) = ResultCap
          /\ calls' = [calls EXCEPT ![i].pc = "blocked"]
          /\ UNCHANGED <<pluginResultCh, inflight>>
    /\ UNCHANGED outgoingQueue

\* Mutant: the second send does not watch ctx.Done.
DropNever(i) == FALSE

DropResult(i) ==
    /\ calls[i].pc = "blocked" /\ ContextDone(i)
    /\ Finish(i)
    /\ UNCHANGED <<outgoingQueue, pluginResultCh>>

CallStep(i) ==
    /\ \/ SendCall(i) \/ AbandonCall(i) \/ TakeAnswer(i) \/ DeliverResult(i) \/ DropResult(i)
    /\ UNCHANGED <<editor, sends, inbound, asked, refreshCh, debounceCh, timer, store, work, awaiting>>

-----------------------------------------------------------------------------
(* The dispatch loop: the steps of the handler that is running on it.      *)

LoopFree == awaiting \notin DOMAIN calls
Idle == work = {} /\ LoopFree

\* cancelInflightPluginDispatch: detach the handle, cancel it, wait for done.
CancelInflight(d) ==
    LET i == inflight[d] IN
    /\ inflight' = [inflight EXCEPT ![d] = NoCall]
    /\ calls' = IF i = NoCall THEN calls ELSE [calls EXCEPT ![i].ctxDone = TRUE]
    /\ awaiting' = i

\* The head of pushDiagnostics, and invalidateOpenDocumentDiagnostics per document.
Supersede(w) ==
    /\ w.op \in {"push", "drop"} /\ LoopFree /\ \A x \in work : x.op # "lint"
    /\ store' = [store EXCEPT !.docGeneration[w.doc] = @ + 1,
                              !.diagnostics[w.doc] = IF w.op = "drop" THEN Empty ELSE @]
    /\ CancelInflight(w.doc)
    /\ work' = (work \ {w}) \cup (IF w.op = "push" THEN {[op |-> "lint", doc |-> w.doc]} ELSE {})
    /\ UNCHANGED <<editor, sends, inbound, asked, channels>>

\* Mutant: a publish that finds the queue full is dropped.
PublishBestEffort(d, report) ==
    outgoingQueue' = IF Len(outgoingQueue) < OutCap
                     THEN Append(outgoingQueue, [op |-> "publish", doc |-> d, report |-> report])
                     ELSE outgoingQueue

Publish(d, report) ==
    /\ Len(outgoingQueue) < OutCap
    /\ outgoingQueue' = Append(outgoingQueue, [op |-> "publish", doc |-> d, report |-> report])

\* The rest of pushDiagnostics: an unavailable config or a failed pipeline clears the
\* document; otherwise the baseline is stored and published, and a plugin run submitted.
Lint(w) ==
    LET d == w.doc
        report(native) == [text |-> store.documents[d], view |-> store.view, native |-> native, plugin |-> <<>>]
        result == [uri |-> d, generation |-> store.docGeneration[d],
                   text |-> store.documents[d], view |-> store.view]
    IN /\ w.op = "lint" /\ LoopFree
       /\ work' = work \ {w}
       /\ \/ /\ store' = [store EXCEPT !.diagnostics[d] = Empty]
             /\ Publish(d, report(FALSE))
             /\ UNCHANGED <<calls, inflight>>
          \/ /\ store' = [store EXCEPT !.diagnostics[d] = report(TRUE)]
             /\ Publish(d, report(TRUE))
             /\ \/ UNCHANGED <<calls, inflight>>
                \/ /\ calls' = Started(Call("enrich", result))
                   /\ inflight' = [inflight EXCEPT ![d] = NextId]
       /\ UNCHANGED <<editor, sends, inbound, asked, pluginResultCh, refreshCh,
                      debounceCh, timer, awaiting>>

\* The publish that ends mergePluginDiagnostics, and the one that ends handleDidClose.
Republish(w) ==
    /\ w.op = "republish" /\ LoopFree
    /\ Publish(w.doc, store.diagnostics[w.doc])
    /\ work' = work \ {w}
    /\ UNCHANGED <<editor, sends, inbound, asked, pluginResultCh, refreshCh, debounceCh,
                   timer, store, inflight, calls, awaiting>>

\* sendResult, the last thing a request's handler does.
Respond(w) ==
    /\ w.op = "respond" /\ work = {w} /\ LoopFree /\ Len(outgoingQueue) < OutCap
    /\ outgoingQueue' = Append(outgoingQueue, [op |-> w.to, doc |-> w.doc])
    /\ work' = {}
    /\ UNCHANGED <<editor, sends, inbound, asked, pluginResultCh, refreshCh, debounceCh,
                   timer, store, inflight, calls, awaiting>>

\* Mutant: the open documents are not linted again.
InvalidateQuietly ==
    /\ store' = [store EXCEPT !.view = @ + 1]
    /\ UNCHANGED refreshCh

\* invalidateOpenDocumentDiagnostics, the new view, RefreshDiagnostics.
Invalidate ==
    /\ store' = [store EXCEPT !.view = @ + 1]
    /\ refreshCh' = TRUE

Drops == [op : {"drop"}, doc : OpenDocs]

\* refreshConfig after its reverse requests: commitDiscoveredConfigSnapshot, or the last-good kept.
Commit(w) ==
    /\ w.op = "commit" /\ LoopFree
    /\ \/ Invalidate /\ work' = Drops \cup {[op |-> "respond", to |-> "refreshed", doc |-> w.doc]}
       \/ /\ work' = {[op |-> "respond", to |-> "refreshed", doc |-> w.doc]}
          /\ UNCHANGED <<store, refreshCh>>
    /\ UNCHANGED <<editor, sends, inbound, asked, outgoingQueue, pluginResultCh,
                   debounceCh, timer, inflight, calls, awaiting>>

HandlerStep == \E w \in work : Supersede(w) \/ Lint(w) \/ Republish(w) \/ Respond(w) \/ Commit(w)

-----------------------------------------------------------------------------
(* The dispatch loop: its select, whose arms may all be ready.             *)

OnRefresh ==
    /\ Idle /\ refreshCh
    /\ refreshCh' = FALSE
    /\ work' = [op : {"push"}, doc : OpenDocs]
    /\ UNCHANGED <<editor, sends, inbound, asked, outgoingQueue, pluginResultCh,
                   debounceCh, timer, store, inflight, calls, awaiting>>

OnDebounce ==
    /\ Idle /\ debounceCh
    /\ debounceCh' = FALSE
    /\ work' = [op : {"push"}, doc : store.pendingLintURIs]
    /\ store' = [store EXCEPT !.pendingLintURIs = {}]
    /\ UNCHANGED <<editor, sends, inbound, asked, outgoingQueue, pluginResultCh,
                   refreshCh, timer, inflight, calls, awaiting>>

\* Mutant: any answer for an open document is merged.
AdmittedIfOpen(r) == r.uri \in OpenDocs

Admitted(r) == store.docGeneration[r.uri] = r.generation /\ r.uri \in OpenDocs

MergePluginDiagnostics ==
    LET r == Head(pluginResultCh)
    IN /\ Idle /\ pluginResultCh # <<>>
       /\ pluginResultCh' = Tail(pluginResultCh)
       /\ IF Admitted(r)
          THEN /\ store' = [store EXCEPT !.diagnostics[r.uri].plugin =
                                Append(@, [text |-> r.text, view |-> r.view])]
               /\ work' = {[op |-> "republish", doc |-> r.uri]}
          ELSE UNCHANGED <<store, work>>
       /\ UNCHANGED <<editor, sends, inbound, asked, outgoingQueue, refreshCh,
                      debounceCh, timer, inflight, calls, awaiting>>

DidOpen(m) ==
    /\ m.op = "open"
    /\ store' = [store EXCEPT !.documents[m.doc] = m.text]
    /\ work' = {[op |-> "push", doc |-> m.doc]}
    /\ UNCHANGED <<refreshCh, timer, inflight, calls, awaiting>>

\* The timer is armed with the rest: what precedes it waits, but touches only the loop's own maps.
DidChange(m) ==
    /\ m.op = "change"
    /\ store' = [store EXCEPT !.documents[m.doc] = m.text, !.docGeneration[m.doc] = @ + 1,
                              !.diagnostics[m.doc] = Empty, !.pendingLintURIs = @ \cup {m.doc}]
    /\ CancelInflight(m.doc)
    /\ timer' = TRUE
    /\ UNCHANGED <<refreshCh, work>>

DidSave(m) ==
    /\ m.op = "save"
    /\ store' = [store EXCEPT !.pendingLintURIs = @ \ {m.doc}]
    /\ work' = {[op |-> "push", doc |-> m.doc]}
    /\ UNCHANGED <<refreshCh, timer, inflight, calls, awaiting>>

DidClose(m) ==
    /\ m.op = "close"
    /\ store' = [store EXCEPT !.documents[m.doc] = Closed, !.docGeneration[m.doc] = @ + 1,
                              !.diagnostics[m.doc] = Empty, !.pendingLintURIs = @ \ {m.doc}]
    /\ CancelInflight(m.doc)
    /\ work' = {[op |-> "republish", doc |-> m.doc]}
    /\ UNCHANGED <<refreshCh, timer>>

\* The plugin half of fix-all runs on the loop; its rounds share one deadline and are one call here.
FixAllCodeAction(m) ==
    /\ m.op = "fixAll"
    /\ store' = [store EXCEPT !.pendingLintURIs = @ \ {m.doc}]
    /\ work' = {[op |-> "respond", to |-> "fixed", doc |-> m.doc]}
    /\ \/ UNCHANGED <<calls, awaiting>>
       \/ /\ calls' = Started(Call("fixAll", NoResult))
          /\ awaiting' = NextId
    /\ UNCHANGED <<refreshCh, timer, inflight>>

ConfigRefresh(m) ==
    /\ m.op = "configRefresh"
    /\ calls' = Started(Call("config", NoResult))
    /\ awaiting' = NextId
    /\ work' = {[op |-> "commit", doc |-> m.doc]}
    /\ UNCHANGED <<refreshCh, timer, store, inflight>>

DidChangeWatchedFiles(m) ==
    /\ m.op = "watched"
    /\ Invalidate
    /\ work' = Drops
    /\ UNCHANGED <<timer, inflight, calls, awaiting>>

\* Requests are handled in order, once the answers sent before them have been read.
HandleRequest ==
    LET m == Head(inbound)
    IN /\ Idle /\ inbound # <<>> /\ m.op # "answer"
       /\ inbound' = Tail(inbound)
       /\ \/ DidOpen(m) \/ DidChange(m) \/ DidSave(m) \/ DidClose(m)
          \/ FixAllCodeAction(m) \/ ConfigRefresh(m) \/ DidChangeWatchedFiles(m)
       /\ UNCHANGED <<editor, sends, asked, outgoingQueue, pluginResultCh, debounceCh>>

DispatchLoop == HandlerStep \/ OnRefresh \/ OnDebounce \/ MergePluginDiagnostics \/ HandleRequest

\* The callback of time.AfterFunc; a signal already pending absorbs it.
TimerFires ==
    /\ timer
    /\ timer' = FALSE /\ debounceCh' = TRUE
    /\ UNCHANGED <<editor, sends, inbound, asked, outgoingQueue, pluginResultCh,
                   refreshCh, store, inflight, calls, work, awaiting>>

-----------------------------------------------------------------------------
(* The read and the write loop.                                            *)

\* The first ReqCap requests of inbound are in requestQueue; the read loop holds the next one
\* until there is room, so it reads the first answer if at most ReqCap requests precede it.
ReadableAnswer(k) ==
    /\ inbound[k].op = "answer" /\ k - 1 <= ReqCap
    /\ \A j \in 1..(k - 1) : inbound[j].op # "answer"

ReadLoop ==
    \E k \in DOMAIN inbound :
        LET m == inbound[k]
        IN /\ ReadableAnswer(k)
           /\ inbound' = RemoveAt(inbound, k)
           /\ calls' = IF m.id \in DOMAIN calls
                       THEN [calls EXCEPT ![m.id].pc = "answered"] ELSE calls
           /\ UNCHANGED <<editor, sends, asked, channels, store, inflight, work, awaiting>>

\* The write loop and what the editor does with each message on receipt.
WriteLoop ==
    LET m == Head(outgoingQueue)
    IN /\ outgoingQueue # <<>>
       /\ outgoingQueue' = Tail(outgoingQueue)
       /\ asked' = CASE m.op = "call" -> asked \cup {m.id}
                     [] m.op = "cancel" -> asked \ {m.id}
                     [] OTHER -> asked
       /\ editor' = CASE m.op = "publish" -> [editor EXCEPT !.shown[m.doc] = m.report]
                      [] m.op = "fixed" -> [editor EXCEPT !.fixing[m.doc] = "answered"]
                      [] OTHER -> editor
       /\ UNCHANGED <<sends, inbound, pluginResultCh, refreshCh, debounceCh, timer,
                      store, inflight, calls, work, awaiting>>

-----------------------------------------------------------------------------
(* The editor.  Texts are numbered by the sends that made them.            *)

Send(messages) ==
    /\ inbound' = inbound \o messages
    /\ UNCHANGED <<asked, channels, store, inflight, calls, work, awaiting>>

Message(op, d) == [op |-> op, doc |-> d, text |-> sends + 1]

EditorSends(d) ==
    /\ sends < MaxSends /\ sends' = sends + 1
    /\ \/ /\ editor.text[d] = Closed
          /\ editor' = [editor EXCEPT !.text[d] = sends + 1]
          /\ Send(<<Message("open", d)>>)
       \/ /\ editor.text[d] # Closed
          /\ \/ /\ editor' = [editor EXCEPT !.text[d] = sends + 1]
                /\ Send(<<Message("change", d)>>)
             \/ /\ editor' = [editor EXCEPT !.text[d] = Closed]
                /\ Send(<<Message("close", d)>>)
             \/ Send(<<Message("save", d)>>) /\ UNCHANGED editor
             \/ /\ editor.fixing[d] = "no"
                /\ editor' = [editor EXCEPT !.fixing[d] = "asked"]
                /\ Send(<<Message("fixAll", d)>>)
       \/ Send(<<Message("watched", d)>>) /\ UNCHANGED editor
       \/ Send(<<Message("configRefresh", d)>>) /\ UNCHANGED editor

\* The answer to fix-all: its edit is applied and, while saving, the document is saved.
FixAllAnswered(d) ==
    LET open == editor.text[d] # Closed
        saves == IF open /\ SaveFollowsFixAll THEN <<Message("save", d)>> ELSE <<>>
    IN /\ editor.fixing[d] = "answered"
       /\ \E changes \in IF open THEN {<<>>, <<Message("change", d)>>} ELSE {<<>>} :
              /\ editor' = [editor EXCEPT !.fixing[d] = "no", !.text[d] = IF changes = <<>> THEN @ ELSE sends + 1]
              /\ sends' = sends + Len(changes \o saves)
              /\ Send(changes \o saves)

EditorAnswers(i) ==
    /\ i \in asked
    /\ asked' = asked \ {i}
    /\ inbound' = Append(inbound, [op |-> "answer", id |-> i])
    /\ UNCHANGED <<editor, sends, channels, store, inflight, calls, work, awaiting>>

\* project.Session's background goroutine calls RefreshDiagnostics.
SessionRefreshes ==
    /\ sends < MaxSends /\ sends' = sends + 1
    /\ refreshCh' = TRUE
    /\ UNCHANGED <<editor, inbound, asked, outgoingQueue, pluginResultCh, debounceCh,
                   timer, store, inflight, calls, work, awaiting>>

Next ==
    \/ DispatchLoop \/ TimerFires \/ ReadLoop \/ WriteLoop \/ SessionRefreshes
    \/ \E i \in DOMAIN calls : CallStep(i)
    \/ \E d \in Docs : EditorSends(d) \/ FixAllAnswered(d)
    \/ \E i \in asked : EditorAnswers(i)

\* The loops and goroutines run, timers fire, and the editor finishes a fix-all and answers
\* a config request; it may leave a plugin request unanswered for ever.
Fairness ==
    /\ WF_vars(DispatchLoop) /\ WF_vars(TimerFires) /\ WF_vars(ReadLoop) /\ WF_vars(WriteLoop)
    /\ WF_vars(\E i \in DOMAIN calls : CallStep(i))
    /\ WF_vars(\E d \in Docs : FixAllAnswered(d))
    /\ WF_vars(\E i \in asked : i \in DOMAIN calls /\ calls[i].kind = "config" /\ EditorAnswers(i))

Spec == Init /\ [][Next]_vars
FairSpec == Spec /\ Fairness
-----------------------------------------------------------------------------
\* Whenever the dispatch loop can serve a code action, the diagnostics it keeps for a document
\* (handleCodeAction cuts its quick fixes from them) were made from the document's present text
\* under the present view, and plugin reports from that same text and view were merged at most once.
StoredIsCurrent ==
    Idle => \A d \in Docs :
        LET s == store.diagnostics[d] IN
        s # Empty => /\ s.native /\ s.text = store.documents[d] /\ s.view = store.view
                     /\ Len(s.plugin) <= 1
                     /\ \A k \in DOMAIN s.plugin : s.plugin[k] = [text |-> s.text, view |-> s.view]

Publishes(d) == {k \in DOMAIN outgoingQueue : outgoingQueue[k].op = "publish" /\ outgoingQueue[k].doc = d}
LastPublished(d) == IF Publishes(d) = {} THEN editor.shown[d] ELSE outgoingQueue[Max(Publishes(d))].report

\* What the editor shows, or will show once the outgoing queue is written, is what the server
\* keeps; a closed document is left with nothing, whatever plugin answers are still on their way.
EditorMirrorsStore ==
    Idle => \A d \in Docs :
        /\ store.diagnostics[d] # Empty => LastPublished(d) = store.diagnostics[d]
        /\ d \notin OpenDocs => LastPublished(d) = Empty

\* The read loop waits for room in requestQueue, the dispatch loop for the answer to a config
\* request, and the answer for the read loop.
Wedged ==
    /\ \E i \in DOMAIN calls : calls[i].kind = "config"
    /\ Len(inbound) > ReqCap /\ \A k \in DOMAIN inbound : ~ReadableAnswer(k)

Current(d) == editor.shown[d].text = editor.text[d] /\ editor.shown[d].view = store.view

\* Once the user pauses, the text they stopped at and the view the server stopped at are linted and
\* shown, whichever of the debounce, save, fix-all, refresh and invalidation paths the document took.
EditsAreShown == <>[](Wedged \/ \A d \in Docs : editor.text[d] # Closed => Current(d))

\* The dispatch loop always comes back to its select: neither the wait for a superseded goroutine
\* that is itself waiting for room in pluginResultCh, nor a full outgoing queue, nor a fix-all whose
\* plugin request is never answered holds it for ever.  The one exception is the wedge above.
LoopReturns == []<>(Idle \/ Wedged)

\* No goroutine or pending entry of a reverse request is left behind by an editor that never answers.
CallsEnd == <>[](Wedged \/ DOMAIN calls = {})
=============================================================================
