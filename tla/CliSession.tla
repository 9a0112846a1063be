----------------------------- MODULE CliSession -----------------------------
(* One command-line run: the Go child of cmd/rslint/ipc_cli.go (runCLI and   *)
(* the frame of handleLintCommand) and the Node parent of cli/engine.ts      *)
(* (runEngine), joined by the IPC channel, the parent's real stdout, signals *)
(* and the child's exit.  A lint itself is LintPipeline, a plugin host is    *)
(* WorkerPool, the inside of the channel is IpcChannel.                      *)
EXTENDS Naturals, Sequences

CONSTANTS MaxChunks,  \* pieces in which the report is written to the redirected stdout
          MaxFaults,  \* crashes of either process and failures of the real stdout
          Intents     \* what the user asked for, a subset of {"lint", "help", "init"}

ASSUME ChunksAssumption == MaxChunks \in Nat
ASSUME FaultsAssumption == MaxFaults \in Nat
ASSUME IntentsAssumption == Intents \subseteq {"lint", "help", "init"}

VARIABLES go,       \* the child: main goroutine, init reply, lintCtx, signalled, exit code
          pipe,     \* the redirected stdout and drainStdoutToIPC
          toNode,   \* frames Go has written and Node has not read
          answers,  \* Node's responses to Go's requests
          node,     \* runEngine: its main path, shuttingDown, the requests it is handling
          act,      \* configActivation
          host,     \* the plugin host that it builds
          stdout,   \* Node's real stdout behind StdoutWriteBarrier
          terminal, \* what the user sees: real stdout and the inherited stderr
          sig,      \* processes with a signal on its way
          env       \* faults so far, and whether the user interrupted

vars == <<go, pipe, toNode, answers, node, act, host, stdout, terminal, sig, env>>
engine == <<node, act, host, stdout>>

Request(kind) == [kind |-> kind, chunks |-> <<>>]
Line(kind, n) == [kind |-> kind, n |-> n]

Init ==
    /\ \E intent \in Intents :
         go = [intent |-> intent, pc |-> "init", reply |-> "none", closed |-> FALSE, ctx |-> FALSE,
               signalled |-> FALSE, hit |-> FALSE, plugins |-> FALSE, started |-> FALSE,
               chunks |-> 0, table |-> FALSE, flushed |-> FALSE, final |-> FALSE, code |-> 0]
    /\ pipe = [unread |-> <<>>, pending |-> <<>>, discard |-> FALSE]
    /\ toNode = <<>> /\ answers = {} /\ terminal = <<>> /\ sig = {}
    /\ node = [pc |-> "init", shuttingDown |-> FALSE, killed |-> FALSE, closed |-> FALSE, handling |-> {}]
    /\ act = [st |-> "none", metadata |-> FALSE, plugins |-> FALSE]
    /\ host = [st |-> "none", building |-> FALSE, staged |-> FALSE, published |-> FALSE, shutdowns |-> 0]
    /\ stdout = [queue |-> <<>>, accepting |-> TRUE, failed |-> FALSE]
    /\ env = [faults |-> 0, interrupted |-> FALSE]
-----------------------------------------------------------------------------
(* The Go child.                                                             *)

Exited == go.pc = "exited"
Goto(pc, g) == go' = [g EXCEPT !.pc = pc] /\ UNCHANGED toNode
Exit(code) == Goto("exited", [go EXCEPT !.code = code])

\* SendRequest; a closed channel fails it, which the waiting step sees.
Ask(kind, g) ==
    /\ go' = [g EXCEPT !.pc = kind]
    /\ toNode' = IF go.closed THEN toNode ELSE Append(toNode, Request(kind))

\* How a request of the main goroutine ends: by its answer, by lintCtx, or by the channel.
Answered(kind) == go.pc = kind /\ [of |-> kind, ok |-> TRUE] \in answers
Refused(kind) == go.pc = kind /\ [of |-> kind, ok |-> FALSE] \in answers
Lost(kind) == go.pc = kind /\ (go.ctx \/ go.closed)
Failed(kind) == Refused(kind) \/ Lost(kind)

\* The inbound handler delivers the init; its reply reaches the wire, its receipt the waiter.
HandleInit ==
    /\ ~Exited /\ ~go.closed
    /\ \/ go.reply = "none" /\ go' = [go EXCEPT !.reply = "delivered"] /\ UNCHANGED toNode
       \/ go.reply = "delivered" /\ go' = [go EXCEPT !.reply = "written"] /\ toNode' = Append(toNode, Request("ok"))
       \/ go.reply = "written" /\ go' = [go EXCEPT !.reply = "receipt"] /\ UNCHANGED toNode
    /\ UNCHANGED <<pipe, answers, engine, terminal, sig, env>>

\* The first select: the delivery, or the disconnect watcher's empty one.
AwaitInit ==
    /\ go.pc = "init"
    /\ \/ go.reply # "none" /\ Goto("reply", go)
       \/ go.reply = "none" /\ go.closed /\ Exit(2)
    /\ UNCHANGED <<pipe, answers, engine, terminal, sig, env>>

\* Mutant: only the mirror goroutine is asked.
InterruptedMirrored == go.signalled
\* markCLIInterrupted consults the source context too.
Interrupted == go.signalled \/ go.ctx

\* shutdownPeer is skipped once the run is known to be interrupted.
ShutdownPeer(g) == IF g.signalled THEN Goto("end", g) ELSE Ask("shutdown", g)

\* Discovery ends with an error, which is what runCLI returns unless it was interrupted.
Undiscovered == ShutdownPeer([go EXCEPT !.signalled = Interrupted, !.final = TRUE,
                                        !.code = IF Interrupted THEN 130 ELSE 1])

\* The second select, and what the payload asks for: a directory or a format that is refused, the
\* usage text, a config template, or a lint, which begins with discovery: there may be no config.
AwaitReply ==
    /\ go.pc = "reply"
    /\ \/ go.reply = "receipt" /\ Exit(2)
       \/ go.reply = "receipt" /\ go.intent = "lint" /\ (Ask("load", go) \/ Undiscovered)
       \/ go.reply = "receipt" /\ go.intent = "help" /\ Goto("drain", [go EXCEPT !.final = TRUE])
       \/ go.reply = "receipt" /\ go.intent = "init" /\ (Goto("report", go) \/ Goto("drain", [go EXCEPT !.code = 1]))
       \/ go.reply # "receipt" /\ go.closed /\ Exit(2)
    /\ UNCHANGED <<pipe, answers, engine, terminal, sig, env>>

\* sigChInit and the 60 second timer, in either select.
InitAborted ==
    /\ go.pc \in {"init", "reply"}
    /\ \/ go.ctx /\ Exit(130)
       \/ Exit(2)
    /\ UNCHANGED <<pipe, answers, engine, terminal, sig, env>>

\* discoverCLIConfigCatalog: the configs are loaded, then their activation prepared. Every config
\* may have failed, and Go may reject what it was answered.
Discover ==
    /\ \/ Answered("load") /\ Ask("prepare", go)
       \/ Answered("prepare") /\ Goto("preflight", [go EXCEPT !.plugins = act.plugins])
       \/ (\E k \in {"load", "prepare"} : Answered(k) \/ Failed(k)) /\ Undiscovered
    /\ UNCHANGED <<pipe, answers, engine, terminal, sig, env>>

\* A return of handleLintCommand before completeActivation joins the activation all the same.
Fail == LET g == [go EXCEPT !.code = 1] IN IF g.plugins THEN Ask("join", g) ELSE Goto("drain", g)

\* abortRun writes to the inherited stderr, unless the run was cancelled; what matters is where that
\* goes once a default-format run is announced.
Explain == terminal' = IF go.started /\ ~go.ctx THEN Append(terminal, Line("stderr", 0)) ELSE terminal
Abort == Goto("drain", [go EXCEPT !.code = 1]) /\ Explain

\* Rule options are checked; the default format announces the run and waits for the answer.
Preflight ==
    /\ go.pc = "preflight"
    /\ Fail \/ Ask("start", go) \/ Goto("plan", go)
    /\ UNCHANGED <<pipe, answers, engine, terminal, sig, env>>

AwaitStart ==
    /\ \/ Answered("start") /\ Goto("plan", [go EXCEPT !.started = TRUE])
       \/ Failed("start") /\ Fail
    /\ UNCHANGED <<pipe, answers, engine, terminal, sig, env>>

\* Targets and Programs.
Plan ==
    /\ go.pc = "plan"
    /\ \/ Fail /\ Explain
       \/ (IF go.plugins THEN Ask("activate", go) ELSE Goto("run", go)) /\ UNCHANGED terminal
    /\ UNCHANGED <<pipe, answers, engine, sig, env>>

\* completeActivation, in its place or deferred. Plugin rules may have nothing to lint.
CompleteActivation ==
    /\ \/ Answered("activate") /\ (Ask("pluginLint", go) \/ Goto("run", go)) /\ UNCHANGED terminal
       \/ Failed("activate") /\ Abort
       \/ Answered("join") /\ Goto("drain", go) /\ UNCHANGED terminal
       \/ Failed("join") /\ Goto("drain", go) /\ Explain
    /\ UNCHANGED <<pipe, answers, engine, sig, env>>

\* RunPipeline, with plugin work or without: an aborted run, a machine format that has nothing to
\* say, or a report.
Run ==
    /\ go.pc = "run" \/ Answered("pluginLint") \/ Failed("pluginLint")
    /\ \/ Abort
       \/ ~go.started /\ Goto("drain", go) /\ UNCHANGED terminal
       \/ ~go.ctx /\ Goto("report", go) /\ UNCHANGED terminal
    /\ UNCHANGED <<pipe, answers, engine, sig, env>>

\* The report, or the message of --init, goes to the redirected stdout piece by piece; a report is
\* cut short by cancellation (cancellationAwareWriter) or an error. The timing table is kept for later. The result's code, 0 or 1, is 0 here: both are lint results.
Report ==
    /\ go.pc = "report"
    /\ \/ /\ go.chunks < MaxChunks /\ (go.ctx => go.intent = "init")
          /\ go' = [go EXCEPT !.chunks = @ + 1]
          /\ pipe' = [pipe EXCEPT !.unread = Append(@, go.chunks + 1)]
          /\ UNCHANGED <<toNode, terminal>>
       \/ /\ go.chunks = MaxChunks
          /\ \E table \in BOOLEAN : Goto("drain", [go EXCEPT !.table = table /\ go.intent = "lint"])
          /\ UNCHANGED <<pipe, terminal>>
       \/ go.intent = "lint" /\ Abort /\ UNCHANGED pipe
    /\ UNCHANGED <<answers, engine, sig, env>>

\* drainStdoutToIPC's flush: one notification, or nothing once the channel has failed.
Flush(p) ==
    /\ pipe' = [p EXCEPT !.pending = <<>>, !.discard = @ \/ go.closed]
    /\ toNode' = IF p.pending = <<>> \/ p.discard \/ go.closed THEN toNode
                 ELSE Append(toNode, [kind |-> "output", chunks |-> p.pending])

\* The drain reads the pipe; what it has read is sent at the threshold, or kept for the next read.
DrainReads ==
    /\ ~Exited /\ pipe.unread # <<>>
    /\ LET p == [pipe EXCEPT !.unread = Tail(@), !.pending = Append(@, Head(pipe.unread))]
       IN Flush(p) \/ (pipe' = p /\ UNCHANGED toNode)
    /\ UNCHANGED <<go, answers, engine, terminal, sig, env>>

\* finalizeStdout: the write end is closed and the drain has sent everything.
Drained == pipe.unread = <<>> /\ pipe.pending = <<>>
FinalFlush ==
    /\ go.pc = "drain" /\ pipe.unread = <<>> /\ pipe.pending # <<>>
    /\ Flush(pipe)
    /\ UNCHANGED <<go, answers, engine, terminal, sig, env>>

\* Then markCLIInterrupted, except after the usage text, and shutdownPeer.
FinishOutput ==
    /\ go.pc = "drain" /\ Drained
    /\ ShutdownPeer(IF go.intent = "help" THEN go ELSE [go EXCEPT !.signalled = Interrupted])
    /\ UNCHANGED <<pipe, answers, engine, terminal, sig, env>>

\* The acknowledgement, a refusal, a dead channel, or five seconds.
AwaitShutdown ==
    /\ go.pc = "shutdown"
    /\ \/ Answered("shutdown") /\ Goto("end", [go EXCEPT !.flushed = TRUE])
       \/ Goto("end", go)
    /\ UNCHANGED <<pipe, answers, engine, terminal, sig, env>>

\* The deferred table, then the exit code.
PrintTable ==
    /\ go.pc = "end"
    /\ terminal' = IF go.flushed /\ ~go.signalled /\ go.table THEN Append(terminal, Line("table", 0)) ELSE terminal
    /\ Goto("close", go)
    /\ UNCHANGED <<pipe, answers, engine, sig, env>>

GoExits ==
    /\ go.pc = "close"
    /\ Exit(IF go.signalled /\ ~go.final THEN 130 ELSE go.code)
    /\ UNCHANGED <<pipe, answers, engine, terminal, sig, env>>

\* The goroutine that mirrors lintCtx onto state.signalled, and the channel's read loop at EOF.
MirrorSignal ==
    /\ ~Exited /\ go.ctx /\ ~go.signalled
    /\ go' = [go EXCEPT !.signalled = TRUE]
    /\ UNCHANGED <<pipe, toNode, answers, engine, terminal, sig, env>>

PeerGone ==
    /\ ~Exited /\ ~go.closed /\ node.pc = "dead"
    /\ go' = [go EXCEPT !.closed = TRUE]
    /\ UNCHANGED <<pipe, toNode, answers, engine, terminal, sig, env>>

\* The runtime delivers a signal to sigChInit and lintCtx.
GoSignal ==
    /\ "go" \in sig /\ ~Exited
    /\ sig' = sig \ {"go"}
    /\ go' = [go EXCEPT !.ctx = TRUE, !.hit = @ \/ go.pc \notin {"shutdown", "end", "close"}]
    /\ UNCHANGED <<pipe, toNode, answers, engine, terminal, env>>
-----------------------------------------------------------------------------
(* The Node parent.                                                          *)

Alive == node.pc \notin {"returned", "dead"}
Reply(of, ok) ==
    /\ node' = [node EXCEPT !.handling = @ \ {of}]
    /\ answers' = IF node.closed THEN answers ELSE answers \cup {[of |-> of, ok |-> ok]}

\* shutdownPluginHost shuts a host down once, however often it is asked.
Shut(h) == IF h.st = "up" THEN [h EXCEPT !.st = "closing", !.staged = FALSE, !.shutdowns = @ + 1]
           ELSE [h EXCEPT !.staged = FALSE]

\* StdoutWriteBarrier.write: a chunk after the seal, or to a broken stream, is a failure.
Write(lines) ==
    stdout' = IF stdout.accepting /\ ~stdout.failed THEN [stdout EXCEPT !.queue = @ \o lines]
              ELSE [stdout EXCEPT !.failed = TRUE]

\* waitForPendingWrites. Mutant: a chunk counts as written once the stream has taken it.
FlushedAccepted == TRUE
Flushed == stdout.queue = <<>> \/ stdout.failed

\* IpcClient dispatches the next frame. Handlers that must wait stay in node.handling.
ReadFrame ==
    /\ Alive /\ ~node.closed /\ toNode # <<>>
    /\ toNode' = Tail(toNode)
    /\ LET f == Head(toNode) IN
       \/ /\ f.kind = "ok"
          /\ node' = [node EXCEPT !.pc = IF @ = "init" THEN "wait" ELSE @]
          /\ UNCHANGED <<answers, act, stdout>>
       \/ /\ f.kind = "load"
          /\ IF node.shuttingDown \/ act.st # "none" THEN Reply("load", FALSE)
             ELSE node' = [node EXCEPT !.handling = @ \cup {"load"}] /\ UNCHANGED answers
          /\ UNCHANGED <<act, stdout>>
       \/ /\ f.kind \in {"prepare", "activate", "join"}
          /\ IF node.shuttingDown THEN Reply(f.kind, FALSE) /\ UNCHANGED act
             ELSE /\ node' = [node EXCEPT !.handling = @ \cup {f.kind}]
                  /\ act' = [act EXCEPT !.st = IF @ = "none" THEN "summary" ELSE @]
                  /\ UNCHANGED answers
          /\ UNCHANGED stdout
       \/ /\ f.kind = "pluginLint"
          /\ node' = [node EXCEPT !.handling = @ \cup {"pluginLint"}]
          /\ UNCHANGED <<answers, act, stdout>>
       \/ /\ f.kind = "start"
          /\ Write(<<Line("start", 0)>>)
          /\ node' = [node EXCEPT !.handling = @ \cup {"start"}]
          /\ UNCHANGED <<answers, act>>
       \/ /\ f.kind = "output"
          /\ Write([i \in DOMAIN f.chunks |-> Line("report", f.chunks[i])])
          /\ UNCHANGED <<answers, node, act>>
       \/ /\ f.kind = "shutdown"
          /\ stdout' = [stdout EXCEPT !.accepting = FALSE]
          /\ node' = [node EXCEPT !.handling = @ \cup {"shutdown"}]
          /\ UNCHANGED <<answers, act>>
    /\ UNCHANGED <<go, pipe, host, terminal, sig, env>>

\* ConfigModuleHost.loadConfigs evaluates the user's modules.
ConfigsLoaded ==
    /\ Alive /\ "load" \in node.handling
    /\ \E ok \in BOOLEAN : Reply("load", ok)
    /\ UNCHANGED <<go, pipe, toNode, act, host, stdout, terminal, sig, env>>

\* prepareConfigs is answered by the metadata, which a plugin config gives before it is ready.
AnswerPrepare ==
    /\ Alive /\ "prepare" \in node.handling
    /\ act.metadata \/ act.st \in {"ready", "failed"}
    /\ Reply("prepare", act.metadata \/ act.st = "ready")
    /\ UNCHANGED <<go, pipe, toNode, act, host, stdout, terminal, sig, env>>

\* Mutant: the metadata answers activateConfigs too.
SettledEarly == act.metadata \/ act.st \in {"ready", "failed"}
\* configActivation.ready has settled.
Settled == act.st \in {"ready", "failed"}

AnswerActivate(kind) ==
    /\ Alive /\ kind \in node.handling /\ Settled
    /\ Reply(kind, act.st # "failed")
    /\ UNCHANGED <<go, pipe, toNode, act, host, stdout, terminal, sig, env>>

\* pluginLint waits for the same promise, and needs a published host; lint() fails on one that
\* has been shut down.
AnswerPluginLint ==
    /\ Alive /\ "pluginLint" \in node.handling /\ Settled
    /\ \E ok \in BOOLEAN : Reply("pluginLint", ok /\ act.st = "ready" /\ host.published /\ host.st = "up")
    /\ UNCHANGED <<go, pipe, toNode, act, host, stdout, terminal, sig, env>>

\* The acknowledged start, and shutdown after the seal.
AnswerOutput(kind) ==
    /\ Alive /\ kind \in node.handling /\ Flushed
    /\ Reply(kind, ~stdout.failed)
    /\ UNCHANGED <<go, pipe, toNode, act, host, stdout, terminal, sig, env>>

\* activateConfigs up to the prepare callback: the first fingerprint check and the metadata.
Summarize ==
    /\ act.st = "summary" /\ Alive
    /\ \/ act' = [act EXCEPT !.st = "failed"] /\ UNCHANGED host
       \/ ~node.shuttingDown /\ act' = [act EXCEPT !.st = "verify"] /\ UNCHANGED host
       \/ ~node.shuttingDown /\ act' = [st |-> "build", metadata |-> TRUE, plugins |-> TRUE]
                             /\ host' = [host EXCEPT !.building = TRUE]
    /\ UNCHANGED <<go, pipe, toNode, answers, node, stdout, terminal, sig, env>>

\* buildPluginHost imports the factory and looks at shuttingDown before it creates a host.
CreateHost ==
    /\ act.st = "build" /\ host.st = "none"
    /\ IF node.shuttingDown THEN act' = [act EXCEPT !.st = "verify"] /\ host' = [host EXCEPT !.building = FALSE]
       ELSE host' = [host EXCEPT !.st = "building"] /\ UNCHANGED act
    /\ UNCHANGED <<go, pipe, toNode, answers, node, stdout, terminal, sig, env>>

\* The host is there, or failed to start; a shutdown that began meanwhile takes it down again.
HostCreated ==
    /\ host.st = "building"
    /\ \/ host' = [host EXCEPT !.st = "none", !.building = FALSE] /\ act' = [act EXCEPT !.st = "failed"]
       \/ node.shuttingDown /\ host' = Shut([host EXCEPT !.st = "up"]) /\ UNCHANGED act
       \/ ~node.shuttingDown /\ host' = [host EXCEPT !.st = "up", !.staged = TRUE, !.building = FALSE]
                             /\ act' = [act EXCEPT !.st = "verify"]
    /\ UNCHANGED <<go, pipe, toNode, answers, node, stdout, terminal, sig, env>>

\* host.shutdown() completes; whoever awaited it goes on.
HostDown ==
    /\ host.st = "closing"
    /\ host' = [host EXCEPT !.st = "down", !.building = FALSE]
    /\ act' = [act EXCEPT !.st = CASE act.st = "build" -> "verify" [] act.st = "undo" -> "failed"
                                 [] act.st = "retire" -> "ready" [] OTHER -> act.st]
    /\ UNCHANGED <<go, pipe, toNode, answers, node, stdout, terminal, sig, env>>

\* The second fingerprint check, which an abort fails; a failed activation takes its host down.
Verify ==
    /\ act.st = "verify"
    /\ \/ /\ ~node.shuttingDown
          /\ act' = [act EXCEPT !.st = "publish"] /\ UNCHANGED host
       \/ /\ host' = IF host.staged THEN Shut(host) ELSE host
          /\ act' = [act EXCEPT !.st = IF host'.st = "closing" THEN "undo" ELSE "failed"]
    /\ UNCHANGED <<go, pipe, toNode, answers, node, stdout, terminal, sig, env>>

\* publishPluginHost: not while the session shuts down.
Publish ==
    /\ act.st = "publish"
    /\ host' = CASE host.st = "none" -> host
                 [] node.shuttingDown -> Shut(host)
                 [] OTHER -> [host EXCEPT !.staged = FALSE, !.published = TRUE]
    /\ act' = [act EXCEPT !.st = IF host'.st = "closing" THEN "retire" ELSE "ready"]
    /\ UNCHANGED <<go, pipe, toNode, answers, node, stdout, terminal, sig, env>>

\* safeKillGo: SIGTERM now, SIGKILL when the grace period is over.
KillGo(n, s) ==
    /\ node' = [n EXCEPT !.killed = TRUE]
    /\ sig' = IF node.killed \/ Exited THEN s ELSE s \cup {"go"}

\* onSignal; once the finally block has removed the handlers, the signal ends the process.
NodeSignal ==
    /\ "node" \in sig /\ Alive
    /\ \/ /\ node.pc \in {"init", "wait", "rejected"}
          /\ KillGo([node EXCEPT !.shuttingDown = TRUE], sig \ {"node"})
          /\ host' = IF host.published \/ host.staged THEN Shut(host) ELSE host
       \/ /\ node.pc \in {"builds", "hosts"}
          /\ node' = [node EXCEPT !.pc = "dead"] /\ sig' = sig \ {"node"} /\ UNCHANGED host
    /\ UNCHANGED <<go, pipe, toNode, answers, act, stdout, terminal, env>>

\* Mutant: SIGTERM is all there is.
KillTimerUnset == FALSE /\ UNCHANGED vars
\* The grace period ends before the child does.
KillTimer ==
    /\ node.killed /\ Alive /\ ~Exited
    /\ go' = [go EXCEPT !.pc = "exited", !.code = 137]
    /\ UNCHANGED <<pipe, toNode, answers, engine, terminal, sig, env>>

\* The end of Go's stdout seals the client; a pending init is rejected and the child killed.
ReadEnd ==
    /\ Exited /\ toNode = <<>> /\ Alive /\ ~node.closed
    /\ IF node.pc = "init" THEN KillGo([node EXCEPT !.closed = TRUE, !.pc = "rejected"], sig)
       ELSE node' = [node EXCEPT !.closed = TRUE] /\ UNCHANGED sig
    /\ UNCHANGED <<go, pipe, toNode, answers, act, host, stdout, terminal, env>>

\* childExit resolves, perhaps before the frames still in the pipe are read: into the finally.
ChildExit ==
    /\ Exited /\ node.pc \in {"init", "wait", "rejected"}
    /\ node' = [node EXCEPT !.pc = "builds", !.closed = @ \/ node.pc = "wait", !.shuttingDown = TRUE]
    /\ UNCHANGED <<go, pipe, toNode, answers, act, host, stdout, terminal, sig, env>>

\* Mutant: builds in progress are not awaited.
BuildsSettledNow == TRUE
BuildsSettled == ~host.building

\* The finally block: pending builds, then the published and staged hosts, then the return.
ShutHosts ==
    /\ node.pc = "builds" /\ BuildsSettled
    /\ host' = IF host.published \/ host.staged THEN Shut(host) ELSE host
    /\ node' = [node EXCEPT !.pc = IF host'.st = "closing" /\ (host.published \/ host.staged) THEN "hosts" ELSE "returned"]
    /\ UNCHANGED <<go, pipe, toNode, answers, act, stdout, terminal, sig, env>>

EngineReturns ==
    /\ node.pc = "hosts" /\ host.st = "down"
    /\ node' = [node EXCEPT !.pc = "returned"]
    /\ UNCHANGED <<go, pipe, toNode, answers, act, host, stdout, terminal, sig, env>>
-----------------------------------------------------------------------------
(* The machine: the real stdout, the user, and crashes.                      *)

\* The destination's callback for the oldest write; it outlives runEngine.
StdoutWrites ==
    /\ node.pc # "dead" /\ stdout.queue # <<>>
    /\ stdout' = [stdout EXCEPT !.queue = Tail(@)]
    /\ terminal' = Append(terminal, Head(stdout.queue))
    /\ UNCHANGED <<go, pipe, toNode, answers, node, act, host, sig, env>>

\* Ctrl-C reaches both processes of the group, kill(1) the parent.
Interrupt ==
    /\ ~env.interrupted
    /\ sig' \in {sig \cup {"go", "node"}, sig \cup {"node"}}
    /\ env' = [env EXCEPT !.interrupted = TRUE]
    /\ UNCHANGED <<go, pipe, toNode, answers, engine, terminal>>

Fault ==
    /\ env.faults < MaxFaults
    /\ env' = [env EXCEPT !.faults = @ + 1]
    /\ \/ ~Exited /\ go' = [go EXCEPT !.pc = "exited", !.code = 137] /\ UNCHANGED <<node, stdout>>
       \/ Alive /\ node' = [node EXCEPT !.pc = "dead"] /\ UNCHANGED <<go, stdout>>
       \/ ~stdout.failed /\ stdout' = [stdout EXCEPT !.queue = <<>>, !.failed = TRUE] /\ UNCHANGED <<go, node>>
    /\ UNCHANGED <<pipe, toNode, answers, act, host, terminal, sig>>
-----------------------------------------------------------------------------
GoSteps ==
    \/ HandleInit \/ AwaitInit \/ AwaitReply \/ Discover \/ Preflight \/ AwaitStart \/ CompleteActivation
    \/ DrainReads \/ FinalFlush \/ FinishOutput \/ AwaitShutdown \/ PrintTable \/ GoExits
    \/ MirrorSignal \/ PeerGone \/ GoSignal
LintWork == Plan \/ Run \/ Report
NodeSteps ==
    \/ ReadFrame \/ AnswerPrepare \/ AnswerPluginLint \/ NodeSignal \/ ReadEnd \/ ChildExit \/ ShutHosts \/ EngineReturns
    \/ \E k \in {"activate", "join"} : AnswerActivate(k)
    \/ \E k \in {"start", "shutdown"} : AnswerOutput(k)
HostSteps == node.pc # "dead" /\ (CreateHost \/ HostCreated \/ HostDown \/ Publish)
ConfigWork == node.pc # "dead" /\ (ConfigsLoaded \/ Summarize \/ Verify)

Next == GoSteps \/ LintWork \/ NodeSteps \/ HostSteps \/ ConfigWork \/ InitAborted \/ KillTimer
        \/ StdoutWrites \/ Interrupt \/ Fault

\* Both processes run, timers fire and plugin hosts start and stop in bounded time (WorkerPool).
\* A lint may take for ever, and so may the user's config modules and a terminal nobody reads.
Fairness ==
    /\ WF_vars(GoSteps) /\ WF_vars(NodeSteps) /\ WF_vars(HostSteps)
    /\ WF_vars(InitAborted) /\ WF_vars(KillTimer)

Spec == Init /\ [][Next]_vars
FairSpec == Spec /\ Fairness
-----------------------------------------------------------------------------
Printed(kind) == {k \in DOMAIN terminal : terminal[k].kind = kind}

\* The merged output is in order: what a default-format run writes to stderr once it is announced
\* follows its start line, report chunks come once and in order with none left out, and the timing
\* table follows the last of them, whatever is buffered in the pipe, in frames or in Node's stream
\* (StdoutWriteBarrier, acknowledgedOutputWriter, shutdownPeer).
OutputInOrder ==
    LET chunks == {terminal[k].n : k \in Printed("report")} IN
    /\ Printed("stderr") # {} => terminal[1] = Line("start", 0)
    /\ \A j, k \in Printed("report") : j < k => terminal[j].n < terminal[k].n
    /\ \A n \in chunks : n > 0 /\ 1 .. n \subseteq chunks
    /\ \A k \in Printed("table") : k = Len(terminal) /\ chunks = 1 .. MaxChunks

\* Linting begins only when the activation has passed its second fingerprint check: early
\* metadata permits planning, never execution (engine.ts activateConfigs, completeActivation).
ExecutionIsValidated ==
    go.intent = "lint" /\ go.pc \in {"run", "pluginLint", "report"} => act.st = "ready"

\* When runEngine returns no host is being built or still serves, a published one is down, and
\* none was shut down twice, whichever of Go's end, a signal and the activation came first.
HostsAreReaped ==
    /\ host.shutdowns <= 1
    /\ node.pc = "returned" => ~host.building /\ host.st # "up" /\ (host.published => host.st = "down")

\* A lint whose child was signalled before its output was complete never ends as a lint result,
\* however late the mirror goroutine is (markCLIInterrupted).
InterruptIsReported ==
    Exited /\ go.hit /\ go.intent # "help" => go.code \notin {0, 1}

\* A session whose lint, configs and terminal do not get stuck ends; an interrupted one ends
\* although they may be; and a child whose parent has died ends if its lint does, whatever it
\* was waiting for (onSignal, safeKillGo, channel Done).
SessionEnds ==
    /\ WF_vars(LintWork) /\ WF_vars(ConfigWork) /\ WF_vars(StdoutWrites) => <>(~Alive)
    /\ node.shuttingDown ~> ~Alive
    /\ WF_vars(LintWork) => (node.pc = "dead" ~> Exited)
=============================================================================
