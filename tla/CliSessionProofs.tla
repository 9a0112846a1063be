-------------------------- MODULE CliSessionProofs --------------------------
(***************************************************************************)
(* Safety of a command-line run (cmd/rslint/ipc_cli.go, cli/engine.ts) for *)
(* reports of any size, any number of crashes and any interleaving of the  *)
(* two processes, the user's signals and the real stdout.                  *)
(***************************************************************************)
EXTENDS CliSession, Integers, TLAPS

GoPCs == {"init", "reply", "load", "prepare", "preflight", "start", "plan", "activate", "join",
          "run", "pluginLint", "report", "drain", "shutdown", "end", "close", "exited"}
GoStates ==
    [intent : {"lint", "help", "init"}, pc : GoPCs, reply : {"none", "delivered", "written", "receipt"},
     closed : BOOLEAN, ctx : BOOLEAN, signalled : BOOLEAN, hit : BOOLEAN, plugins : BOOLEAN,
     started : BOOLEAN, chunks : Nat, table : BOOLEAN, flushed : BOOLEAN, final : BOOLEAN, code : Nat]
NodePCs == {"init", "wait", "rejected", "builds", "hosts", "returned", "dead"}
RequestKinds == {"load", "prepare", "activate", "join", "start", "pluginLint", "shutdown"}
NodeStates == [pc : NodePCs, shuttingDown : BOOLEAN, killed : BOOLEAN, closed : BOOLEAN, handling : SUBSET RequestKinds]
ActStates == [st : {"none", "summary", "build", "verify", "undo", "publish", "retire", "ready", "failed"},
              metadata : BOOLEAN, plugins : BOOLEAN]
HostStates == [st : {"none", "building", "up", "closing", "down"}, building : BOOLEAN, staged : BOOLEAN,
               published : BOOLEAN, shutdowns : Nat]

\* The two processes and the plugin host; queues and the terminal are not typed here.
SessionType == go \in GoStates /\ node \in NodeStates /\ act \in ActStates /\ host \in HostStates

-----------------------------------------------------------------------------
(* The Go process.                                                         *)

\* Who writes go: its own steps, the kill timer and a crash.
LEMMA GoUnchanged ==
    ASSUME [NodeSteps \/ HostSteps \/ ConfigWork \/ StdoutWrites \/ Interrupt]_vars
    PROVE  go' = go
BY DEF NodeSteps, HostSteps, ConfigWork, StdoutWrites, Interrupt, ReadFrame, AnswerPrepare,
     AnswerPluginLint, NodeSignal, ReadEnd, ChildExit, ShutHosts, EngineReturns, AnswerActivate,
     AnswerOutput, CreateHost, HostCreated, HostDown, Publish, ConfigsLoaded, Summarize, Verify, vars

\* Moving the main goroutine keeps its state well formed.
LEMMA GotoType ==
    ASSUME NEW g \in GoStates, NEW w \in GoPCs, Goto(w, g)
    PROVE  go' \in GoStates
BY DEF Goto, GoStates

\* A request, sent or failed by a closed channel, keeps it well formed.
LEMMA AskType ==
    ASSUME NEW g \in GoStates, NEW w \in GoPCs, Ask(w, g)
    PROVE  go' \in GoStates
BY DEF Ask, GoStates

\* So does every exit.
LEMMA ExitType ==
    ASSUME go \in GoStates, NEW code \in Nat, Exit(code)
    PROVE  go' \in GoStates
<1>1. [go EXCEPT !.code = code] \in GoStates
  BY DEF GoStates
<1> QED BY <1>1, GotoType DEF Exit, GoPCs

\* So does the end of the session, with or without shutdownPeer.
LEMMA ShutdownPeerType ==
    ASSUME NEW g \in GoStates, ShutdownPeer(g)
    PROVE  go' \in GoStates
BY GotoType, AskType DEF ShutdownPeer, GoPCs

\* So does a discovery that ends with an error.
LEMMA UndiscoveredType ==
    ASSUME go \in GoStates, Undiscovered
    PROVE  go' \in GoStates
<1> DEFINE g == [go EXCEPT !.signalled = Interrupted, !.final = TRUE,
                           !.code = IF Interrupted THEN 130 ELSE 1]
<1>1. Interrupted \in BOOLEAN
  BY DEF Interrupted
<1>2. g \in GoStates
  BY <1>1, ZenonT(60) DEF GoStates
<1> QED BY <1>2, ShutdownPeerType DEF Undiscovered

\* So does a return of handleLintCommand before the activation is complete.
LEMMA FailType ==
    ASSUME go \in GoStates, Fail
    PROVE  go' \in GoStates
<1>1. [go EXCEPT !.code = 1] \in GoStates
  BY DEF GoStates
<1> QED BY <1>1, GotoType, AskType DEF Fail, GoPCs

\* So does abortRun.
LEMMA AbortType ==
    ASSUME go \in GoStates, Abort
    PROVE  go' \in GoStates
<1>1. [go EXCEPT !.code = 1] \in GoStates
  BY DEF GoStates
<1> QED BY <1>1, GotoType DEF Abort, GoPCs

\* Every step of the child, its killer and its crashes keeps the child's state well formed.
LEMMA GoTypeStep == SessionType /\ [Next]_vars => go' \in GoStates
<1> SUFFICES ASSUME go \in GoStates, act \in ActStates, [Next]_vars PROVE go' \in GoStates
  BY DEF SessionType
<1> USE DEF GoPCs
<1>1. CASE HandleInit
  BY <1>1 DEF HandleInit, GoStates
<1>2. CASE AwaitInit
  BY <1>2, GotoType, ExitType DEF AwaitInit
<1>3. CASE AwaitReply
  <2>1. [go EXCEPT !.final = TRUE] \in GoStates /\ [go EXCEPT !.code = 1] \in GoStates
    BY DEF GoStates
  <2> QED BY <1>3, <2>1, GotoType, ExitType, AskType, UndiscoveredType DEF AwaitReply
<1>4. CASE InitAborted
  BY <1>4, ExitType DEF InitAborted
<1>5. CASE Discover
  <2>1. [go EXCEPT !.plugins = act.plugins] \in GoStates
    BY DEF GoStates, ActStates
  <2> QED BY <1>5, <2>1, GotoType, AskType, UndiscoveredType DEF Discover
<1>6. CASE Preflight
  BY <1>6, GotoType, AskType, FailType DEF Preflight
<1>7. CASE AwaitStart
  <2>1. [go EXCEPT !.started = TRUE] \in GoStates
    BY DEF GoStates
  <2> QED BY <1>7, <2>1, GotoType, FailType DEF AwaitStart
<1>8. CASE Plan
  BY <1>8, GotoType, AskType, FailType DEF Plan
<1>9. CASE CompleteActivation
  BY <1>9, GotoType, AskType, AbortType DEF CompleteActivation
<1>10. CASE Run
  BY <1>10, GotoType, AbortType DEF Run
<1>11. CASE Report
  <2>1. [go EXCEPT !.chunks = @ + 1] \in GoStates
    BY DEF GoStates
  <2>2. \A table \in BOOLEAN : [go EXCEPT !.table = table /\ go.intent = "lint"] \in GoStates
    BY DEF GoStates
  <2> QED BY <1>11, <2>1, <2>2, GotoType, AbortType DEF Report
<1>12. CASE DrainReads \/ FinalFlush
  BY <1>12 DEF DrainReads, FinalFlush
<1>13. CASE FinishOutput
  <2>1. [go EXCEPT !.signalled = Interrupted] \in GoStates
    BY DEF GoStates, Interrupted
  <2> QED BY <1>13, <2>1, ShutdownPeerType DEF FinishOutput
<1>14. CASE AwaitShutdown
  <2>1. [go EXCEPT !.flushed = TRUE] \in GoStates
    BY DEF GoStates
  <2> QED BY <1>14, <2>1, GotoType DEF AwaitShutdown
<1>15. CASE PrintTable
  BY <1>15, GotoType DEF PrintTable
<1>16. CASE GoExits
  <2>1. (IF go.signalled /\ ~go.final THEN 130 ELSE go.code) \in Nat
    BY DEF GoStates
  <2> QED BY <1>16, <2>1, ExitType DEF GoExits
<1>17. CASE MirrorSignal \/ PeerGone \/ GoSignal
  BY <1>17, ZenonT(60) DEF MirrorSignal, PeerGone, GoSignal, GoStates
<1>18. CASE KillTimer \/ Fault
  <2>1. [go EXCEPT !.pc = "exited", !.code = 137] \in GoStates
    BY ZenonT(60) DEF GoStates
  <2> QED BY <1>18, <2>1 DEF KillTimer, Fault
<1>19. CASE [NodeSteps \/ HostSteps \/ ConfigWork \/ StdoutWrites \/ Interrupt]_vars
  BY <1>19, GoUnchanged
<1> QED
  BY <1>1, <1>2, <1>3, <1>4, <1>5, <1>6, <1>7, <1>8, <1>9, <1>10, <1>11, <1>12, <1>13, <1>14,
     <1>15, <1>16, <1>17, <1>18, <1>19
     DEF Next, GoSteps, LintWork

-----------------------------------------------------------------------------
(* The Node process, the activation and the plugin host.                   *)

\* Who writes the engine's three records.
LEMMA EngineUnchanged ==
    ASSUME [GoSteps \/ LintWork \/ InitAborted \/ KillTimer \/ StdoutWrites \/ Interrupt]_vars
    PROVE  node' = node /\ act' = act /\ host' = host
BY DEF GoSteps, LintWork, InitAborted, KillTimer, StdoutWrites, Interrupt, HandleInit, AwaitInit,
     AwaitReply, Discover, Preflight, AwaitStart, CompleteActivation, DrainReads, FinalFlush,
     FinishOutput, AwaitShutdown, PrintTable, GoExits, MirrorSignal, PeerGone, GoSignal, Plan, Run,
     Report, engine, vars

\* shutdownPluginHost keeps the host's record well formed, and says what it changes.
LEMMA ShutFacts ==
    ASSUME NEW h \in HostStates
    PROVE  /\ Shut(h) \in HostStates
           /\ Shut(h).staged = FALSE
           /\ Shut(h).building = h.building
           /\ Shut(h).published = h.published
           /\ h.st = "up" => Shut(h).st = "closing" /\ Shut(h).shutdowns = h.shutdowns + 1
           /\ h.st # "up" => Shut(h).st = h.st /\ Shut(h).shutdowns = h.shutdowns
<1>1. CASE h.st = "up"
  <2>1. Shut(h) = [h EXCEPT !.st = "closing", !.staged = FALSE, !.shutdowns = @ + 1]
    BY <1>1 DEF Shut
  <2>2. h.shutdowns + 1 \in Nat
    BY DEF HostStates
  <2>3. Shut(h) \in HostStates
    BY <2>1, <2>2 DEF HostStates
  <2> QED BY <1>1, <2>1, <2>3 DEF HostStates
<1>2. CASE h.st # "up"
  BY <1>2 DEF Shut, HostStates
<1> QED BY <1>1, <1>2

\* An answer leaves the engine's record well formed and only ends a request.
LEMMA ReplyFacts ==
    ASSUME node \in NodeStates, NEW of, NEW ok, Reply(of, ok)
    PROVE  /\ node' \in NodeStates
           /\ node'.pc = node.pc /\ node'.shuttingDown = node.shuttingDown
           /\ answers' \in {answers, answers \cup {[of |-> of, ok |-> ok]}}
BY DEF Reply, NodeStates

\* So does taking a request in.
LEMMA HandleFacts ==
    ASSUME node \in NodeStates, NEW k \in RequestKinds, node' = [node EXCEPT !.handling = @ \cup {k}]
    PROVE  /\ node' \in NodeStates
           /\ node'.pc = node.pc /\ node'.shuttingDown = node.shuttingDown
BY DEF NodeStates

\* What reading a frame does to the engine: it may begin the activation, and otherwise answers
\* negatively, takes a request in, or moves on from the init.
LEMMA ReadFrameFacts ==
    ASSUME node \in NodeStates, act \in ActStates, ReadFrame
    PROVE  /\ node' \in NodeStates
           /\ node'.pc = node.pc \/ (node.pc = "init" /\ node'.pc = "wait")
           /\ node'.shuttingDown = node.shuttingDown
           /\ act' = act \/ (act.st = "none" /\ act' = [act EXCEPT !.st = "summary"])
           /\ \A a \in answers' : a.ok = TRUE => a \in answers
           /\ host' = host /\ go' = go
<1>1. go' = go /\ host' = host
  BY DEF ReadFrame
<1>2. \/ \E k \in RequestKinds : Reply(k, FALSE) /\ UNCHANGED act
      \/ \E k \in RequestKinds :
           /\ node' = [node EXCEPT !.handling = @ \cup {k}]
           /\ act' = act \/ (act.st = "none" /\ act' = [act EXCEPT !.st = "summary"])
           /\ UNCHANGED answers
      \/ node' = [node EXCEPT !.pc = IF @ = "init" THEN "wait" ELSE @] /\ UNCHANGED <<answers, act>>
      \/ UNCHANGED <<answers, node, act>>
  <2> DEFINE f == Head(toNode)
  <2>1. {"prepare", "activate", "join", "load", "start", "pluginLint", "shutdown"} \subseteq RequestKinds
    BY DEF RequestKinds
  <2>2. [act EXCEPT !.st = IF @ = "none" THEN "summary" ELSE @] = act
        \/ (act.st = "none" /\ [act EXCEPT !.st = IF @ = "none" THEN "summary" ELSE @] = [act EXCEPT !.st = "summary"])
    <3>1. CASE act.st = "none"
      BY <3>1 DEF ActStates
    <3>2. CASE act.st # "none"
      BY <3>2 DEF ActStates
    <3> QED BY <3>1, <3>2
  <2> HIDE DEF f
  <2> QED BY <2>1, <2>2 DEF ReadFrame, f
<1>3. CASE \E k \in RequestKinds : Reply(k, FALSE) /\ UNCHANGED act
  <2>1. PICK k \in RequestKinds : Reply(k, FALSE) /\ UNCHANGED act
    BY <1>3
  <2>2. \A a \in {[of |-> k, ok |-> FALSE]} : a.ok = FALSE
    OBVIOUS
  <2> QED BY <1>1, <2>1, <2>2, ReplyFacts
<1>4. CASE \E k \in RequestKinds :
             /\ node' = [node EXCEPT !.handling = @ \cup {k}]
             /\ act' = act \/ (act.st = "none" /\ act' = [act EXCEPT !.st = "summary"])
             /\ UNCHANGED answers
  <2>1. PICK k \in RequestKinds :
             /\ node' = [node EXCEPT !.handling = @ \cup {k}]
             /\ act' = act \/ (act.st = "none" /\ act' = [act EXCEPT !.st = "summary"])
             /\ UNCHANGED answers
    BY <1>4
  <2>2. node' \in NodeStates /\ node'.pc = node.pc /\ node'.shuttingDown = node.shuttingDown
    BY <2>1, HandleFacts
  <2> QED BY <1>1, <2>1, <2>2
<1>5. CASE node' = [node EXCEPT !.pc = IF @ = "init" THEN "wait" ELSE @] /\ UNCHANGED <<answers, act>>
  BY <1>1, <1>5 DEF NodeStates, NodePCs
<1>6. CASE UNCHANGED <<answers, node, act>>
  BY <1>1, <1>6
<1> QED BY <1>2, <1>3, <1>4, <1>5, <1>6

\* Every step keeps the engine's records well formed.
LEMMA EngineTypeStep ==
    SessionType /\ [Next]_vars => node' \in NodeStates /\ act' \in ActStates /\ host' \in HostStates
<1> SUFFICES ASSUME SessionType, [Next]_vars
             PROVE  node' \in NodeStates /\ act' \in ActStates /\ host' \in HostStates
  OBVIOUS
<1>0. node \in NodeStates /\ act \in ActStates /\ host \in HostStates
  BY DEF SessionType
<1>1. CASE ReadFrame
  <2>1. [act EXCEPT !.st = "summary"] \in ActStates
    BY <1>0 DEF ActStates
  <2> QED BY <1>0, <1>1, <2>1, ReadFrameFacts
<1>2. CASE AnswerPrepare \/ AnswerPluginLint \/ ConfigsLoaded \/ (\E k \in {"activate", "join"} : AnswerActivate(k))
             \/ (\E k \in {"start", "shutdown"} : AnswerOutput(k))
  BY <1>0, <1>2, ReplyFacts DEF AnswerPrepare, AnswerPluginLint, ConfigsLoaded, AnswerActivate, AnswerOutput
<1>3. CASE NodeSignal
  BY <1>0, <1>3, ShutFacts, ZenonT(60) DEF NodeSignal, KillGo, NodeStates, NodePCs
<1>4. CASE ReadEnd \/ ChildExit \/ EngineReturns
  BY <1>0, <1>4 DEF ReadEnd, KillGo, ChildExit, EngineReturns, NodeStates, NodePCs
<1>5. CASE ShutHosts
  BY <1>0, <1>5, ShutFacts DEF ShutHosts, NodeStates, NodePCs
<1>6. CASE Summarize \/ CreateHost
  <2>1. act' \in ActStates
    <3>1. [st |-> "build", metadata |-> TRUE, plugins |-> TRUE] \in ActStates
      BY DEF ActStates
    <3>2. \A w \in {"failed", "verify"} : [act EXCEPT !.st = w] \in ActStates
      BY <1>0 DEF ActStates
    <3> QED BY <1>0, <1>6, <3>1, <3>2 DEF Summarize, CreateHost
  <2>2. host' \in HostStates
    BY <1>0, <1>6 DEF Summarize, CreateHost, HostStates
  <2> QED BY <1>0, <1>6, <2>1, <2>2 DEF Summarize, CreateHost
<1>7. CASE HostCreated
  <2>1. /\ [host EXCEPT !.st = "up"] \in HostStates
        /\ [host EXCEPT !.st = "up", !.staged = TRUE, !.building = FALSE] \in HostStates
        /\ [host EXCEPT !.st = "none", !.building = FALSE] \in HostStates
        /\ [act EXCEPT !.st = "failed"] \in ActStates
        /\ [act EXCEPT !.st = "verify"] \in ActStates
    BY <1>0 DEF HostStates, ActStates
  <2> QED BY <1>0, <1>7, <2>1, ShutFacts DEF HostCreated
<1>8. CASE HostDown
  BY <1>0, <1>8 DEF HostDown, ActStates, HostStates
<1>9. CASE Verify
  <2>1. host' \in HostStates
    BY <1>0, <1>9, ShutFacts DEF Verify
  <2>2. act' \in ActStates
    BY <1>0, <1>9 DEF Verify, ActStates
  <2> QED BY <1>0, <1>9, <2>1, <2>2 DEF Verify
<1>10. CASE Publish
  <2>1. [host EXCEPT !.staged = FALSE, !.published = TRUE] \in HostStates
    BY <1>0 DEF HostStates
  <2>2. host' \in HostStates
    BY <1>0, <1>10, <2>1, ShutFacts DEF Publish
  <2>3. act' \in ActStates
    BY <1>0, <1>10 DEF Publish, ActStates
  <2> QED BY <1>0, <1>10, <2>2, <2>3 DEF Publish
<1>11. CASE Fault
  BY <1>0, <1>11 DEF Fault, NodeStates, NodePCs
<1>12. CASE [GoSteps \/ LintWork \/ InitAborted \/ KillTimer \/ StdoutWrites \/ Interrupt]_vars
  BY <1>0, <1>12, EngineUnchanged
<1> QED
  BY <1>1, <1>2, <1>3, <1>4, <1>5, <1>6, <1>7, <1>8, <1>9, <1>10, <1>11, <1>12
     DEF Next, NodeSteps, HostSteps, ConfigWork

\* The two processes, the activation and the plugin host are always in a state the code knows:
\* every program counter, init reply, exit code and host life stage is one of those listed.
THEOREM TypeCorrect == Spec => []SessionType
<1>1. Init => SessionType
  BY IntentsAssumption DEF Init, SessionType, GoStates, GoPCs, NodeStates, NodePCs, ActStates, HostStates
<1>2. SessionType /\ [Next]_vars => SessionType'
  BY GoTypeStep, EngineTypeStep DEF SessionType
<1> QED BY <1>1, <1>2, PTL DEF Spec

-----------------------------------------------------------------------------
(* Interrupts.                                                             *)

\* A signal that came before the output was complete is known to markCLIInterrupted, and what
\* it decided still stands when the process exits.
InterruptInv ==
    /\ go.hit => go.ctx
    /\ go.intent # "help" =>
         /\ go.pc \notin {"shutdown", "end", "close", "exited"} => ~go.final
         /\ go.hit /\ go.pc \in {"shutdown", "end", "close"} => go.signalled /\ (go.final => go.code = 130)
         /\ go.hit /\ go.pc = "exited" => go.code \notin {0, 1}

\* Where a step of the main goroutine goes, and that it changes nothing of the interrupt's record.
LEMMA MoveFacts ==
    ASSUME NEW g \in GoStates, NEW w \in GoPCs, Goto(w, g) \/ Ask(w, g)
    PROVE  /\ go'.pc = w
           /\ go'.intent = g.intent /\ go'.hit = g.hit /\ go'.ctx = g.ctx /\ go'.plugins = g.plugins
           /\ go'.signalled = g.signalled /\ go'.final = g.final /\ go'.code = g.code
BY DEF Goto, Ask, GoStates

\* The interrupt's record with the program counter left out.
SameRecord(g) ==
    /\ g.intent = go.intent /\ (g.hit <=> go.hit) /\ (g.ctx <=> go.ctx) /\ (g.final <=> go.final)
Early == GoPCs \ {"shutdown", "end", "close", "exited"}

\* A step between two places before the shutdown keeps the invariant, whatever code it sets.
LEMMA EarlyStep ==
    ASSUME InterruptInv, go \in GoStates, go.pc \in Early, NEW g \in GoStates, SameRecord(g),
           NEW w \in Early, Goto(w, g) \/ Ask(w, g)
    PROVE  InterruptInv'
<1>1. /\ go'.pc = w
      /\ go'.intent = g.intent /\ go'.hit = g.hit /\ go'.ctx = g.ctx /\ go'.final = g.final
  BY MoveFacts DEF Early
<1> QED BY <1>1 DEF InterruptInv, Early, SameRecord, GoStates

\* An exit with any code but a lint's result keeps the invariant.
LEMMA ExitStep ==
    ASSUME InterruptInv, go \in GoStates, NEW code \in Nat \ {0, 1}, Exit(code)
    PROVE  InterruptInv'
<1>1. [go EXCEPT !.code = code] \in GoStates
  BY DEF GoStates
<1>2. go'.pc = "exited" /\ go'.code = code /\ go'.hit = go.hit /\ go'.ctx = go.ctx /\ go'.intent = go.intent
  BY <1>1, MoveFacts DEF Exit, GoPCs, GoStates
<1> QED BY <1>2 DEF InterruptInv, GoStates

\* shutdownPeer after markCLIInterrupted: what the record then says stands.
LEMMA ShutdownStep ==
    ASSUME InterruptInv, go \in GoStates, NEW g \in GoStates, ShutdownPeer(g),
           g.intent = go.intent, g.hit <=> go.hit, g.ctx <=> go.ctx,
           go.intent # "help" /\ go.hit => g.signalled /\ (g.final => g.code = 130)
    PROVE  InterruptInv'
<1>1. \E w \in {"shutdown", "end"} : Goto(w, g) \/ Ask(w, g)
  BY DEF ShutdownPeer
<1>2. PICK w \in {"shutdown", "end"} : Goto(w, g) \/ Ask(w, g)
  BY <1>1
<1>3. /\ go'.pc = w /\ go'.intent = g.intent /\ go'.hit = g.hit /\ go'.ctx = g.ctx
      /\ go'.signalled = g.signalled /\ go'.final = g.final /\ go'.code = g.code
  BY <1>2, MoveFacts DEF GoPCs
<1> QED BY <1>3 DEF InterruptInv, GoStates

\* A discovery that fails decides its own exit code, interrupted or not.
LEMMA UndiscoveredStep ==
    ASSUME InterruptInv, go \in GoStates, Undiscovered
    PROVE  InterruptInv'
<1> DEFINE g == [go EXCEPT !.signalled = Interrupted, !.final = TRUE,
                           !.code = IF Interrupted THEN 130 ELSE 1]
<1>1. g \in GoStates /\ ShutdownPeer(g)
  BY ZenonT(60) DEF GoStates, Interrupted, Undiscovered
<1>2. g.intent = go.intent /\ (g.hit <=> go.hit) /\ (g.ctx <=> go.ctx)
  BY DEF GoStates
<1>3. go.hit => g.signalled /\ g.code = 130
  BY DEF GoStates, Interrupted, InterruptInv
<1> HIDE DEF g
<1> QED BY <1>1, <1>2, <1>3, ShutdownStep

\* handleLintCommand's early returns and abortRun are steps before the shutdown.
LEMMA FailStep ==
    ASSUME InterruptInv, go \in GoStates, go.pc \in Early, Fail \/ Abort
    PROVE  InterruptInv'
<1> DEFINE g == [go EXCEPT !.code = 1]
<1>1. g \in GoStates /\ SameRecord(g)
  BY DEF GoStates, SameRecord
<1>2. \E w \in {"join", "drain"} : Goto(w, g) \/ Ask(w, g)
  BY DEF Fail, Abort
<1> HIDE DEF g
<1> QED BY <1>1, <1>2, EarlyStep DEF Early, GoPCs

\* Every step keeps it.
LEMMA InterruptStep == SessionType /\ InterruptInv /\ [Next]_vars => InterruptInv'
<1> SUFFICES ASSUME go \in GoStates, InterruptInv, [Next]_vars PROVE InterruptInv'
  BY DEF SessionType
<1>0. SameRecord(go) /\ {"init", "reply", "load", "prepare", "preflight", "start", "plan", "activate", "join",
                         "run", "pluginLint", "report", "drain"} = Early
  BY DEF SameRecord, Early, GoPCs
<1>1. CASE HandleInit \/ MirrorSignal \/ PeerGone
  BY <1>1 DEF HandleInit, MirrorSignal, PeerGone, Exited, GoStates, InterruptInv
<1>2. CASE AwaitInit \/ InitAborted
  <2>1. CASE \E code \in {2, 130} : Exit(code)
    BY <2>1, ExitStep
  <2>2. CASE go.pc = "init" /\ Goto("reply", go)
    BY <2>2, <1>0, EarlyStep
  <2> QED BY <1>2, <2>1, <2>2 DEF AwaitInit, InitAborted
<1>3. CASE AwaitReply
  <2>1. CASE Exit(2)
    BY <2>1, ExitStep
  <2>2. CASE Undiscovered
    BY <2>2, UndiscoveredStep
  <2>3. CASE go.intent = "help" /\ Goto("drain", [go EXCEPT !.final = TRUE])
    BY <2>3 DEF Goto, GoStates, InterruptInv
  <2>4. CASE Ask("load", go) \/ Goto("report", go)
    BY <1>0, <1>3, <2>4, EarlyStep DEF AwaitReply
  <2>5. CASE Goto("drain", [go EXCEPT !.code = 1])
    <3>1. [go EXCEPT !.code = 1] \in GoStates /\ SameRecord([go EXCEPT !.code = 1])
      BY DEF GoStates, SameRecord
    <3> QED BY <1>0, <1>3, <2>5, <3>1, EarlyStep DEF AwaitReply
  <2> QED BY <1>3, <2>1, <2>2, <2>3, <2>4, <2>5 DEF AwaitReply
<1>4. CASE Discover
  <2>1. CASE Undiscovered
    BY <2>1, UndiscoveredStep
  <2>2. CASE Answered("load") /\ Ask("prepare", go)
    BY <1>0, <2>2, EarlyStep DEF Answered
  <2>3. CASE Answered("prepare") /\ Goto("preflight", [go EXCEPT !.plugins = act.plugins])
    BY <2>3 DEF Answered, Goto, GoStates, InterruptInv
  <2> QED BY <1>4, <2>1, <2>2, <2>3 DEF Discover
<1>5. CASE Preflight \/ AwaitStart \/ Plan
  <2>1. go.pc \in Early
    BY <1>0, <1>5 DEF Preflight, AwaitStart, Plan, Answered, Failed, Refused, Lost
  <2>2. CASE Fail
    BY <2>1, <2>2, FailStep
  <2>3. CASE \E w \in {"start", "plan", "activate", "run"} : Goto(w, go) \/ Ask(w, go)
    BY <1>0, <2>1, <2>3, EarlyStep
  <2>4. CASE Goto("plan", [go EXCEPT !.started = TRUE])
    <3>1. [go EXCEPT !.started = TRUE] \in GoStates /\ SameRecord([go EXCEPT !.started = TRUE])
      BY DEF GoStates, SameRecord
    <3> QED BY <1>0, <2>1, <2>4, <3>1, EarlyStep
  <2> QED BY <1>5, <2>2, <2>3, <2>4 DEF Preflight, AwaitStart, Plan
<1>6. CASE CompleteActivation \/ Run
  <2>1. go.pc \in Early
    BY <1>0, <1>6 DEF CompleteActivation, Run, Answered, Failed, Refused, Lost
  <2>2. CASE Abort
    BY <2>1, <2>2, FailStep
  <2>3. CASE \E w \in {"pluginLint", "run", "drain", "report"} : Goto(w, go) \/ Ask(w, go)
    BY <1>0, <2>1, <2>3, EarlyStep
  <2> QED BY <1>6, <2>2, <2>3 DEF CompleteActivation, Run
<1>7. CASE Report
  <2>1. CASE Abort
    BY <1>0, <1>7, <2>1, FailStep DEF Report
  <2>2. CASE go' = [go EXCEPT !.chunks = @ + 1]
    BY <1>7, <2>2 DEF Report, GoStates, InterruptInv
  <2>3. CASE \E table \in BOOLEAN : Goto("drain", [go EXCEPT !.table = table /\ go.intent = "lint"])
    BY <1>7, <2>3 DEF Report, Goto, GoStates, InterruptInv
  <2> QED BY <1>7, <2>1, <2>2, <2>3 DEF Report
<1>8. CASE FinishOutput
  <2>1. CASE go.intent = "help"
    BY <1>8, <2>1, ShutdownStep DEF FinishOutput
  <2>2. CASE go.intent # "help"
    <3> DEFINE g == [go EXCEPT !.signalled = Interrupted]
    <3>1. g \in GoStates /\ g.intent = go.intent /\ (g.hit <=> go.hit) /\ (g.ctx <=> go.ctx)
      BY DEF GoStates, Interrupted
    <3>2. go.hit => g.signalled
      BY DEF GoStates, Interrupted, InterruptInv
    <3>3. ~g.final
      BY <1>8, <2>2 DEF FinishOutput, GoStates, InterruptInv
    <3>4. ShutdownPeer(g)
      BY <1>8, <2>2 DEF FinishOutput
    <3> HIDE DEF g
    <3> QED BY <3>1, <3>2, <3>3, <3>4, ShutdownStep
  <2> QED BY <2>1, <2>2
<1>9. CASE AwaitShutdown \/ PrintTable
  BY <1>9, ZenonT(60) DEF AwaitShutdown, PrintTable, Goto, GoStates, InterruptInv
<1>10. CASE GoExits
  BY <1>10 DEF GoExits, Exit, Goto, GoStates, InterruptInv
<1>11. CASE GoSignal
  BY <1>11 DEF GoSignal, Exited, GoStates, InterruptInv
<1>12. CASE go' = [go EXCEPT !.pc = "exited", !.code = 137]
  BY <1>12 DEF GoStates, InterruptInv
<1>13. CASE go' = go
  BY <1>13 DEF InterruptInv
<1>14. CASE KillTimer \/ Fault \/ DrainReads \/ FinalFlush
  BY <1>12, <1>13, <1>14 DEF KillTimer, Fault, DrainReads, FinalFlush
<1>15. CASE [NodeSteps \/ HostSteps \/ ConfigWork \/ StdoutWrites \/ Interrupt]_vars
  BY <1>13, <1>15, GoUnchanged
<1> QED
  BY <1>1, <1>2, <1>3, <1>4, <1>5, <1>6, <1>7, <1>8, <1>9, <1>10, <1>11, <1>14, <1>15
     DEF Next, GoSteps, LintWork

\* A lint or an --init whose child was signalled before its output was complete never exits with a lint
\* result (0 or 1), however the signal interleaves with discovery, the report, the drain, the
\* mirror goroutine, the kill timer and crashes (markCLIInterrupted, shutdownPeer).
THEOREM InterruptReported == Spec => []InterruptIsReported
<1>1. Init => InterruptInv
  BY DEF Init, InterruptInv
<1>2. InterruptInv => InterruptIsReported
  BY DEF InterruptInv, InterruptIsReported, Exited
<1> QED BY <1>1, <1>2, InterruptStep, TypeCorrect, PTL DEF Spec

-----------------------------------------------------------------------------
(* Validated execution.                                                    *)

\* What a positive answer says about the activation, for as long as the answer can be used.
ValidInv ==
    /\ act.metadata <=> act.plugins
    /\ host.st = "building" => act.st = "build"
    /\ [of |-> "prepare", ok |-> TRUE] \in answers => act.metadata \/ act.st = "ready"
    /\ [of |-> "activate", ok |-> TRUE] \in answers => act.st = "ready"
    /\ go.pc \in {"preflight", "start", "plan"} => go.plugins \/ act.st = "ready"
    /\ go.pc \in {"run", "pluginLint"} => act.st = "ready"
    /\ go.pc = "report" /\ go.intent = "lint" => act.st = "ready"

\* Every answer was given by one of these, and an activation that has settled says what its
\* answer says.
LEMMA AnswersGiven ==
    ASSUME SessionType, [Next]_vars, NEW a, a \in answers', a \notin answers, a.ok = TRUE
    PROVE  /\ UNCHANGED <<act, host, go>>
           /\ a.of = "prepare" => act.metadata \/ act.st = "ready"
           /\ a.of = "activate" => act.st = "ready"
<1>0. node \in NodeStates /\ act \in ActStates /\ host \in HostStates
  BY DEF SessionType
<1>1. CASE ReadFrame
  BY <1>0, <1>1, ReadFrameFacts
<1>2. CASE AnswerPrepare
  <2>1. a = [of |-> "prepare", ok |-> (act.metadata \/ act.st = "ready")]
    BY <1>0, <1>2, ReplyFacts DEF AnswerPrepare
  <2>2. (act.metadata \/ act.st = "ready") = TRUE
    BY <2>1
  <2> QED BY <1>2, <2>1, <2>2 DEF AnswerPrepare
<1>3. CASE AnswerPluginLint
  BY <1>0, <1>3, ReplyFacts DEF AnswerPluginLint
<1>4. CASE ConfigsLoaded
  BY <1>0, <1>4, ReplyFacts DEF ConfigsLoaded
<1>5. ASSUME NEW k \in {"activate", "join"}, AnswerActivate(k)
      PROVE  UNCHANGED <<act, host, go>> /\ a.of = k /\ act.st = "ready"
  <2>1. a = [of |-> k, ok |-> (act.st # "failed")]
    BY <1>0, <1>5, ReplyFacts DEF AnswerActivate
  <2>2. (act.st # "failed") = TRUE
    BY <2>1
  <2> QED BY <1>5, <2>1, <2>2 DEF AnswerActivate, Settled
<1>6. ASSUME NEW k \in {"start", "shutdown"}, AnswerOutput(k)
      PROVE  UNCHANGED <<act, host, go>> /\ a.of = k
  BY <1>0, <1>6, ReplyFacts DEF AnswerOutput
<1>7. CASE UNCHANGED answers
  BY <1>7
<1>8. ASSUME GoSteps \/ LintWork \/ InitAborted \/ KillTimer \/ StdoutWrites \/ Interrupt \/ Fault
             \/ NodeSignal \/ ReadEnd \/ ChildExit \/ ShutHosts \/ EngineReturns \/ HostSteps \/ Summarize \/ Verify
             \/ UNCHANGED vars
      PROVE  UNCHANGED answers
  BY <1>8 DEF GoSteps, LintWork, InitAborted, KillTimer, StdoutWrites, Interrupt, Fault, HandleInit, AwaitInit,
     AwaitReply, Discover, Preflight, AwaitStart, CompleteActivation, DrainReads, FinalFlush,
     FinishOutput, AwaitShutdown, PrintTable, GoExits, MirrorSignal, PeerGone, GoSignal, Plan, Run,
     Report, NodeSignal, ReadEnd, ChildExit, ShutHosts, EngineReturns, HostSteps, CreateHost, HostCreated,
     HostDown, Publish, Summarize, Verify, vars
<1> QED BY <1>1, <1>2, <1>3, <1>4, <1>5, <1>6, <1>7, <1>8 DEF Next, NodeSteps, ConfigWork

\* Metadata and readiness are never taken back, and a host is only being created while its
\* activation builds.
LEMMA ActivationStep ==
    ASSUME SessionType, ValidInv, [Next]_vars
    PROVE  /\ act.st = "ready" => act'.st = "ready"
           /\ act.metadata => act'.metadata
           /\ act'.metadata <=> act'.plugins
           /\ host'.st = "building" => act'.st = "build"
<1>0. node \in NodeStates /\ act \in ActStates /\ host \in HostStates
  BY DEF SessionType
<1>1. CASE ReadFrame
  <2>1. act' = act \/ (act.st = "none" /\ act' = [act EXCEPT !.st = "summary"])
    BY <1>0, <1>1, ReadFrameFacts
  <2>2. host' = host
    BY <1>0, <1>1, ReadFrameFacts
  <2> QED BY <1>0, <2>1, <2>2 DEF ValidInv, ActStates
<1>2. CASE Summarize
  BY <1>0, <1>2 DEF Summarize, ValidInv, ActStates, HostStates
<1>3. CASE CreateHost
  BY <1>0, <1>3 DEF CreateHost, ValidInv, ActStates, HostStates
<1>4. CASE HostCreated
  <2>1. [host EXCEPT !.st = "up"] \in HostStates /\ [host EXCEPT !.st = "up"].st = "up"
    BY <1>0 DEF HostStates
  <2>2. host'.st # "building"
    BY <1>0, <1>4, <2>1, ShutFacts DEF HostCreated, HostStates
  <2> QED BY <1>0, <1>4, <2>2 DEF HostCreated, ValidInv, ActStates
<1>5. CASE HostDown
  BY <1>0, <1>5 DEF HostDown, ValidInv, ActStates, HostStates
<1>6. CASE Verify \/ Publish
  <2>1. host.st # "building"
    BY <1>6 DEF Verify, Publish, ValidInv
  <2>2. host'.st # "building"
    BY <1>0, <1>6, <2>1, ShutFacts DEF Verify, Publish, HostStates
  <2> QED BY <1>0, <1>6, <2>2 DEF Verify, Publish, ValidInv, ActStates
<1>7. CASE NodeSignal \/ ShutHosts
  BY <1>0, <1>7, ShutFacts DEF NodeSignal, ShutHosts, ValidInv, HostStates
<1>8. CASE UNCHANGED <<act, host>>
  BY <1>8 DEF ValidInv
<1>9. CASE AnswerPrepare \/ AnswerPluginLint \/ ConfigsLoaded \/ (\E k \in {"activate", "join"} : AnswerActivate(k))
             \/ (\E k \in {"start", "shutdown"} : AnswerOutput(k)) \/ ReadEnd \/ ChildExit \/ EngineReturns \/ Fault
  BY <1>8, <1>9 DEF AnswerPrepare, AnswerPluginLint, ConfigsLoaded, AnswerActivate, AnswerOutput, ReadEnd,
     ChildExit, EngineReturns, Fault
<1>10. CASE [GoSteps \/ LintWork \/ InitAborted \/ KillTimer \/ StdoutWrites \/ Interrupt]_vars
  BY <1>8, <1>10, EngineUnchanged
<1> QED
  BY <1>1, <1>2, <1>3, <1>4, <1>5, <1>6, <1>7, <1>9, <1>10
     DEF Next, NodeSteps, HostSteps, ConfigWork

\* How the main goroutine comes to a place at which validation matters.
LEMMA GoArrives ==
    ASSUME SessionType, [Next]_vars
    PROVE  /\ go'.intent = go.intent
           /\ go'.pc \in {"preflight", "start", "plan"} =>
                \/ go.pc \in {"preflight", "start", "plan"} /\ (go'.plugins <=> go.plugins)
                \/ Answered("prepare") /\ (go'.plugins <=> act.plugins)
           /\ go'.pc \in {"run", "pluginLint"} =>
                \/ go.pc \in {"run", "pluginLint"}
                \/ go.pc = "plan" /\ ~go.plugins
                \/ Answered("activate")
           /\ go'.pc = "report" => go.pc \in {"report", "run", "pluginLint"} \/ go.intent = "init"
<1> SUFFICES ASSUME go \in GoStates, act \in ActStates
             PROVE  /\ go'.intent = go.intent
                    /\ go'.pc \in {"preflight", "start", "plan"} =>
                         \/ go.pc \in {"preflight", "start", "plan"} /\ (go'.plugins <=> go.plugins)
                         \/ Answered("prepare") /\ (go'.plugins <=> act.plugins)
                    /\ go'.pc \in {"run", "pluginLint"} =>
                         \/ go.pc \in {"run", "pluginLint"}
                         \/ go.pc = "plan" /\ ~go.plugins
                         \/ Answered("activate")
                    /\ go'.pc = "report" => go.pc \in {"report", "run", "pluginLint"} \/ go.intent = "init"
  BY DEF SessionType
<1>1. CASE HandleInit \/ MirrorSignal \/ PeerGone \/ GoSignal
  BY <1>1 DEF HandleInit, MirrorSignal, PeerGone, GoSignal, GoStates
<1>2. CASE AwaitInit \/ InitAborted
  BY <1>2 DEF AwaitInit, InitAborted, Exit, Goto, GoStates
<1>3. ASSUME Undiscovered
      PROVE  go'.intent = go.intent /\ go'.pc \in {"shutdown", "end"}
  BY <1>3 DEF Undiscovered, ShutdownPeer, Goto, Ask, GoStates
<1>4. CASE AwaitReply
  BY <1>3, <1>4 DEF AwaitReply, Exit, Goto, Ask, GoStates
<1>5. CASE Discover
  BY <1>3, <1>5 DEF Discover, Goto, Ask, GoStates, ActStates
<1>6. CASE Preflight \/ AwaitStart
  BY <1>6 DEF Preflight, AwaitStart, Fail, Goto, Ask, GoStates, Answered, Failed, Refused, Lost
<1>7. CASE Plan
  BY <1>7 DEF Plan, Fail, Goto, Ask, GoStates
<1>8. CASE CompleteActivation \/ Run
  BY <1>8 DEF CompleteActivation, Run, Abort, Goto, Ask, GoStates, Answered, Failed, Refused, Lost
<1>9. CASE Report
  BY <1>9 DEF Report, Abort, Goto, GoStates
<1>10. CASE FinishOutput
  BY <1>10 DEF FinishOutput, ShutdownPeer, Goto, Ask, GoStates
<1>11. CASE AwaitShutdown \/ PrintTable \/ GoExits
  BY <1>11 DEF AwaitShutdown, PrintTable, GoExits, Exit, Goto, GoStates
<1>12. CASE KillTimer \/ Fault \/ DrainReads \/ FinalFlush
  BY <1>12 DEF KillTimer, Fault, DrainReads, FinalFlush, GoStates
<1>13. CASE [NodeSteps \/ HostSteps \/ ConfigWork \/ StdoutWrites \/ Interrupt]_vars
  BY <1>13, GoUnchanged
<1> QED
  BY <1>1, <1>2, <1>4, <1>5, <1>6, <1>7, <1>8, <1>9, <1>10, <1>11, <1>12, <1>13
     DEF Next, GoSteps, LintWork

\* Every step keeps the meaning of the answers and of the places they lead to.
LEMMA ValidStep == SessionType /\ ValidInv /\ [Next]_vars => ValidInv'
<1> SUFFICES ASSUME SessionType, ValidInv, [Next]_vars PROVE ValidInv'
  OBVIOUS
<1>1. /\ act.st = "ready" => act'.st = "ready"
      /\ act.metadata => act'.metadata
      /\ act'.metadata <=> act'.plugins
      /\ host'.st = "building" => act'.st = "build"
  BY ActivationStep
<1>2. [of |-> "prepare", ok |-> TRUE] \in answers' => act'.metadata \/ act'.st = "ready"
  <2> DEFINE a == [of |-> "prepare", ok |-> TRUE]
  <2>1. a.of = "prepare" /\ a.ok = TRUE
    OBVIOUS
  <2>2. a \in answers => act.metadata \/ act.st = "ready"
    BY DEF ValidInv
  <2> HIDE DEF a
  <2>3. a \in answers' => act'.metadata \/ act'.st = "ready"
    BY <1>1, <2>1, <2>2, AnswersGiven
  <2> QED BY <2>3 DEF a
<1>3. [of |-> "activate", ok |-> TRUE] \in answers' => act'.st = "ready"
  <2> DEFINE a == [of |-> "activate", ok |-> TRUE]
  <2>1. a.of = "activate" /\ a.ok = TRUE
    OBVIOUS
  <2>2. a \in answers => act.st = "ready"
    BY DEF ValidInv
  <2> HIDE DEF a
  <2>3. a \in answers' => act'.st = "ready"
    BY <1>1, <2>1, <2>2, AnswersGiven
  <2> QED BY <2>3 DEF a
<1>4. go'.pc \in {"preflight", "start", "plan"} => go'.plugins \/ act'.st = "ready"
  BY <1>1, GoArrives DEF ValidInv, Answered
<1>5. go'.pc \in {"run", "pluginLint"} => act'.st = "ready"
  BY <1>1, GoArrives DEF ValidInv, Answered
<1>6. go'.pc = "report" /\ go'.intent = "lint" => act'.st = "ready"
  BY <1>1, GoArrives DEF ValidInv
<1> QED BY <1>1, <1>2, <1>3, <1>4, <1>5, <1>6 DEF ValidInv

\* Early metadata permits planning, never execution: a lint is run, sent to the plugins or
\* reported only after the activation has passed its second fingerprint check, however its
\* answers, a shutdown and the main goroutine interleave (engine.ts activateConfigs).
THEOREM ExecutionValidated == Spec => []ExecutionIsValidated
<1>1. Init => ValidInv
  BY DEF Init, ValidInv
<1>2. ValidInv => ExecutionIsValidated
  BY DEF ValidInv, ExecutionIsValidated
<1> QED BY <1>1, <1>2, ValidStep, TypeCorrect, PTL DEF Spec

-----------------------------------------------------------------------------
(* The plugin host.                                                        *)

\* Where the host is in its life, who holds it, and how far the finally block has come.
HostInv ==
    /\ host.shutdowns = IF host.st \in {"closing", "down"} THEN 1 ELSE 0
    /\ host.building <=> act.st = "build"
    /\ host.st = "building" => act.st = "build"
    /\ act.st \in {"none", "summary"} => host.st = "none"
    /\ host.staged => host.st = "up"
    /\ host.st = "up" => ~host.building /\ (host.staged \/ host.published)
    /\ host.published => host.st \in {"up", "closing", "down"}
    /\ node.pc \in {"builds", "hosts", "returned"} => node.shuttingDown
    /\ node.pc = "hosts" => ~host.building /\ host.st \in {"closing", "down"}
    /\ node.pc = "returned" => ~host.building /\ host.st \notin {"up", "building"} /\ (host.published => host.st = "down")

\* What shutdownPluginHost makes of the host: it serves no longer and its one shutdown is counted.
LEMMA ShutLife ==
    ASSUME host \in HostStates, HostInv
    PROVE  /\ ~Shut(host).staged
           /\ Shut(host).building <=> host.building
           /\ Shut(host).published <=> host.published
           /\ Shut(host).st = IF host.st = "up" THEN "closing" ELSE host.st
           /\ Shut(host).shutdowns = IF Shut(host).st \in {"closing", "down"} THEN 1 ELSE 0
<1>1. /\ ~Shut(host).staged
      /\ Shut(host).building <=> host.building
      /\ Shut(host).published <=> host.published
      /\ Shut(host).st = IF host.st = "up" THEN "closing" ELSE host.st
      /\ host.st = "up" => Shut(host).shutdowns = host.shutdowns + 1
      /\ host.st # "up" => Shut(host).shutdowns = host.shutdowns
  BY ShutFacts
<1>2. host.shutdowns = IF host.st \in {"closing", "down"} THEN 1 ELSE 0
  BY DEF HostInv
<1> QED BY <1>1, <1>2

\* Every step keeps it.
LEMMA HostStep == SessionType /\ HostInv /\ [Next]_vars => HostInv'
<1> SUFFICES ASSUME SessionType, HostInv, [Next]_vars PROVE HostInv'
  OBVIOUS
<1>0. node \in NodeStates /\ act \in ActStates /\ host \in HostStates
  BY DEF SessionType
<1> USE DEF HostInv
<1>1. CASE ReadFrame
  <2>1. /\ node'.pc = node.pc \/ (node.pc = "init" /\ node'.pc = "wait")
        /\ node'.shuttingDown = node.shuttingDown
        /\ host' = host
        /\ act' = act \/ (act.st = "none" /\ act' = [act EXCEPT !.st = "summary"])
    BY <1>0, <1>1, ReadFrameFacts
  <2>2. act'.st = act.st \/ (act.st = "none" /\ act'.st = "summary")
    BY <1>0, <2>1 DEF ActStates
  <2> QED BY <1>0, <2>1, <2>2
<1>2. CASE AnswerPrepare \/ AnswerPluginLint \/ ConfigsLoaded \/ (\E k \in {"activate", "join"} : AnswerActivate(k))
             \/ (\E k \in {"start", "shutdown"} : AnswerOutput(k))
  <2>1. UNCHANGED <<act, host>> /\ node'.pc = node.pc /\ node'.shuttingDown = node.shuttingDown
    BY <1>0, <1>2, ReplyFacts DEF AnswerPrepare, AnswerPluginLint, ConfigsLoaded, AnswerActivate, AnswerOutput
  <2> QED BY <2>1
<1>3. CASE NodeSignal
  <2>1. act' = act /\ (host' = host \/ host' = Shut(host))
    BY <1>3 DEF NodeSignal
  <2>2. node'.pc \in {"init", "wait", "rejected", "dead"}
    BY <1>0, <1>3 DEF NodeSignal, KillGo, NodeStates
  <2> QED BY <1>0, <2>1, <2>2, ShutLife
<1>4. CASE ReadEnd \/ ChildExit
  <2>1. UNCHANGED <<act, host>>
    BY <1>4 DEF ReadEnd, ChildExit
  <2>2. \/ node'.pc = node.pc /\ node'.shuttingDown = node.shuttingDown
        \/ node'.pc = "rejected"
        \/ node'.pc = "builds" /\ node'.shuttingDown
    BY <1>0, <1>4 DEF ReadEnd, KillGo, ChildExit, NodeStates
  <2> QED BY <2>1, <2>2
<1>5. CASE ShutHosts
  <2>1. act' = act /\ node.pc = "builds" /\ ~host.building /\ node.shuttingDown
    BY <1>5 DEF ShutHosts, BuildsSettled
  <2>2. node'.shuttingDown = node.shuttingDown
    BY <1>0, <1>5 DEF ShutHosts, NodeStates
  <2>3. CASE host.published \/ host.staged
    <3>1. host' = Shut(host) /\ node'.pc = IF host'.st = "closing" THEN "hosts" ELSE "returned"
      BY <1>0, <1>5, <2>3 DEF ShutHosts, NodeStates
    <3> QED BY <1>0, <2>1, <2>2, <2>3, <3>1, ShutLife DEF HostStates
  <2>4. CASE ~(host.published \/ host.staged)
    <3>1. host' = host /\ node'.pc = "returned"
      BY <1>0, <1>5, <2>4 DEF ShutHosts, NodeStates
    <3> QED BY <1>0, <2>1, <2>2, <2>4, <3>1
  <2> QED BY <2>3, <2>4
<1>6. CASE EngineReturns
  BY <1>0, <1>6 DEF EngineReturns, NodeStates
<1>7. CASE Summarize
  <2>1. UNCHANGED node /\ Alive /\ act.st = "summary"
    BY <1>7 DEF Summarize
  <2>2. CASE UNCHANGED host /\ act'.st # "build"
    BY <2>1, <2>2
  <2>3. CASE ~node.shuttingDown /\ act'.st = "build" /\ host' = [host EXCEPT !.building = TRUE]
    BY <1>0, <2>1, <2>3 DEF HostStates
  <2> QED BY <1>0, <1>7, <2>1, <2>2, <2>3 DEF Summarize, ActStates
<1>8. CASE CreateHost
  BY <1>0, <1>8 DEF CreateHost, ActStates, HostStates
<1>9. CASE HostCreated
  <2>1. UNCHANGED node /\ host.st = "building" /\ act.st = "build" /\ host.building
    BY <1>9 DEF HostCreated
  <2>2. CASE host' = [host EXCEPT !.st = "none", !.building = FALSE] /\ act' = [act EXCEPT !.st = "failed"]
    BY <1>0, <2>1, <2>2 DEF ActStates, HostStates
  <2>3. CASE host' = Shut([host EXCEPT !.st = "up"]) /\ UNCHANGED act
    <3> DEFINE h == [host EXCEPT !.st = "up"]
    <3>1. /\ h \in HostStates /\ h.st = "up" /\ h.building = host.building
          /\ h.published = host.published /\ h.shutdowns = host.shutdowns
      BY <1>0 DEF HostStates
    <3> HIDE DEF h
    <3>2. host' = Shut(h)
      BY <2>3 DEF h
    <3>3. /\ ~host'.staged /\ (host'.building <=> host.building) /\ (host'.published <=> host.published)
          /\ host'.st = "closing" /\ host'.shutdowns = host.shutdowns + 1
      BY <3>1, <3>2, ShutFacts
    <3>4. host.shutdowns = 0 /\ host'.shutdowns = 1
      BY <2>1, <3>3
    <3> QED BY <2>1, <2>3, <3>3, <3>4
  <2>4. CASE /\ ~node.shuttingDown /\ host' = [host EXCEPT !.st = "up", !.staged = TRUE, !.building = FALSE]
             /\ act' = [act EXCEPT !.st = "verify"]
    BY <1>0, <2>1, <2>4 DEF ActStates, HostStates
  <2> QED BY <1>9, <2>2, <2>3, <2>4 DEF HostCreated
<1>10. CASE HostDown
  <2>1. act'.st # "build"
    BY <1>0, <1>10 DEF HostDown, ActStates
  <2> QED BY <1>0, <1>10, <2>1 DEF HostDown, HostStates
<1>11. CASE Verify
  <2>1. act.st = "verify" /\ UNCHANGED node /\ ~host.building
    BY <1>11 DEF Verify
  <2>2. act'.st \notin {"none", "summary", "build"} /\ (host' = host \/ (host.staged /\ host' = Shut(host)))
    BY <1>0, <1>11 DEF Verify, ActStates
  <2> QED BY <1>0, <2>1, <2>2, ShutLife
<1>12. CASE Publish
  <2>1. act.st = "publish" /\ UNCHANGED node /\ ~host.building
    BY <1>12 DEF Publish
  <2>2. act'.st \notin {"none", "summary", "build"}
    BY <1>0, <1>12 DEF Publish, ActStates
  <2>3. CASE host' = host
    BY <2>1, <2>2, <2>3
  <2>4. CASE host' = Shut(host)
    BY <1>0, <2>1, <2>2, <2>4, ShutLife
  <2>5. CASE host.st # "none" /\ ~node.shuttingDown /\ host' = [host EXCEPT !.staged = FALSE, !.published = TRUE]
    BY <1>0, <2>1, <2>2, <2>5 DEF HostStates
  <2> QED BY <1>12, <2>3, <2>4, <2>5 DEF Publish
<1>13. CASE Fault
  BY <1>0, <1>13 DEF Fault, NodeStates
<1>14. CASE [GoSteps \/ LintWork \/ InitAborted \/ KillTimer \/ StdoutWrites \/ Interrupt]_vars
  BY <1>14, EngineUnchanged
<1> QED
  BY <1>1, <1>2, <1>3, <1>4, <1>5, <1>6, <1>7, <1>8, <1>9, <1>10, <1>11, <1>12, <1>13, <1>14
     DEF Next, NodeSteps, HostSteps, ConfigWork

\* A host is shut down at most once, and when runEngine returns none is being built or still
\* serves and a published one is down, whichever of the child's end, a signal, a failing
\* activation and the build came first (shutdownPluginHost, the finally of runEngine).
THEOREM HostsReaped == Spec => []HostsAreReaped
<1>1. Init => HostInv
  BY DEF Init, HostInv
<1>2. HostInv /\ SessionType => HostsAreReaped
  BY DEF HostInv, HostsAreReaped, SessionType, HostStates
<1> QED BY <1>1, <1>2, HostStep, TypeCorrect, PTL DEF Spec

-----------------------------------------------------------------------------
(* Sequences.                                                              *)

\* What a sequence is after one element more.
LEMMA AppendFacts ==
    ASSUME NEW S, NEW s \in Seq(S), NEW e \in S
    PROVE  /\ Append(s, e) \in Seq(S) /\ Append(s, e) # <<>>
           /\ Len(Append(s, e)) = Len(s) + 1
           /\ DOMAIN Append(s, e) = 1 .. Len(s) + 1
           /\ \A k \in 1 .. Len(s) : Append(s, e)[k] = s[k]
           /\ Append(s, e)[Len(s) + 1] = e
OBVIOUS

\* What it is without its first element.
LEMMA TailFacts ==
    ASSUME NEW S, NEW s \in Seq(S), s # <<>>
    PROVE  /\ Len(s) \in Nat /\ Len(s) >= 1
           /\ Head(s) = s[1] /\ Head(s) \in S
           /\ Tail(s) \in Seq(S)
           /\ Len(Tail(s)) = Len(s) - 1
           /\ DOMAIN Tail(s) = 1 .. Len(s) - 1
           /\ \A k \in 1 .. Len(s) - 1 : Tail(s)[k] = s[k + 1]
OBVIOUS

\* What it is with another one behind it.
LEMMA ConcatFacts ==
    ASSUME NEW S, NEW s \in Seq(S), NEW t \in Seq(S)
    PROVE  /\ s \o t \in Seq(S)
           /\ Len(s \o t) = Len(s) + Len(t)
           /\ DOMAIN (s \o t) = 1 .. Len(s) + Len(t)
           /\ \A k \in 1 .. Len(s) : (s \o t)[k] = s[k]
           /\ \A k \in 1 .. Len(t) : (s \o t)[Len(s) + k] = t[k]
OBVIOUS

\* Sequences of equal length and elements are equal.
LEMMA SameSequence ==
    ASSUME NEW S, NEW s \in Seq(S), NEW t \in Seq(S), Len(s) = Len(t),
           \A k \in 1 .. Len(s) : s[k] = t[k]
    PROVE  s = t
<1>1. s \in [1 .. Len(s) -> S] /\ t \in [1 .. Len(s) -> S]
  OBVIOUS
<1> QED BY <1>1

\* The pieces a + 1, ..., b of the report, in order.
Chunks(a, b) == [i \in 1 .. (b - a) |-> a + i]

\* A stretch of the report is a sequence that grows behind and shrinks in front.
LEMMA ChunksFacts ==
    ASSUME NEW a \in Nat, NEW b \in Nat, a <= b
    PROVE  /\ Chunks(a, b) \in Seq(Nat)
           /\ Len(Chunks(a, b)) = b - a
           /\ DOMAIN Chunks(a, b) = 1 .. (b - a)
           /\ \A i \in 1 .. (b - a) : Chunks(a, b)[i] = a + i
           /\ Append(Chunks(a, b), b + 1) = Chunks(a, b + 1)
           /\ a = b <=> Chunks(a, b) = <<>>
           /\ a < b => Head(Chunks(a, b)) = a + 1 /\ Tail(Chunks(a, b)) = Chunks(a + 1, b)
<1>1. Chunks(a, b) \in Seq(Nat) /\ Len(Chunks(a, b)) = b - a /\ DOMAIN Chunks(a, b) = 1 .. (b - a)
  BY DEF Chunks
<1>2. \A i \in 1 .. (b - a) : Chunks(a, b)[i] = a + i
  BY DEF Chunks
<1>3. Append(Chunks(a, b), b + 1) = Chunks(a, b + 1)
  <2> DEFINE s == Append(Chunks(a, b), b + 1)
             t == Chunks(a, b + 1)
  <2>1. t \in Seq(Nat) /\ Len(t) = b + 1 - a /\ \A i \in 1 .. (b + 1 - a) : t[i] = a + i
    BY DEF Chunks
  <2>2. /\ s \in Seq(Nat) /\ Len(s) = b - a + 1
        /\ \A i \in 1 .. (b - a) : s[i] = Chunks(a, b)[i]
        /\ s[b - a + 1] = b + 1
    BY <1>1, AppendFacts
  <2> HIDE DEF s, t
  <2>3. ASSUME NEW i \in 1 .. (b + 1 - a)
        PROVE  s[i] = a + i
    <3>1. CASE i = b - a + 1
      BY <2>2, <3>1
    <3>2. CASE i \in 1 .. (b - a)
      BY <1>2, <2>2, <3>2
    <3> QED BY <3>1, <3>2
  <2>4. Len(s) = Len(t) /\ \A k \in 1 .. Len(s) : s[k] = t[k]
    BY <2>1, <2>2, <2>3
  <2>5. s = t
    BY <2>1, <2>2, <2>4, SameSequence
  <2> QED BY <2>5 DEF s, t
<1>4. a = b <=> Chunks(a, b) = <<>>
  BY <1>1
<1>5. ASSUME a < b
      PROVE  Head(Chunks(a, b)) = a + 1 /\ Tail(Chunks(a, b)) = Chunks(a + 1, b)
  <2>1. Chunks(a + 1, b) \in Seq(Nat) /\ Len(Chunks(a + 1, b)) = b - (a + 1)
    BY <1>5 DEF Chunks
  <2>2. \A i \in 1 .. (b - (a + 1)) : Chunks(a + 1, b)[i] = a + 1 + i
    BY <1>5 DEF Chunks
  <2>3. Chunks(a, b) # <<>>
    BY <1>4, <1>5
  <2>4. \A i \in 1 .. (b - (a + 1)) : Tail(Chunks(a, b))[i] = a + 1 + i
    BY <1>1, <1>2, <1>5, <2>3, TailFacts
  <2>5. Tail(Chunks(a, b)) \in Seq(Nat) /\ Len(Tail(Chunks(a, b))) = b - (a + 1)
    BY <1>1, <1>5, <2>3, TailFacts
  <2>6. Tail(Chunks(a, b)) = Chunks(a + 1, b)
    BY <2>1, <2>2, <2>4, <2>5, SameSequence
  <2>7. Head(Chunks(a, b)) = a + 1
    BY <1>1, <1>2, <1>5, <2>3, TailFacts
  <2> QED BY <2>6, <2>7
<1> QED BY <1>1, <1>2, <1>3, <1>4, <1>5

\* The same facts, one at a time: an empty stretch, and one that grows.
LEMMA ChunksNone == \A a \in Nat : Chunks(a, a) = <<>>
<1> TAKE a \in Nat
<1>1. a <= a
  OBVIOUS
<1> QED BY <1>1, ChunksFacts

\* Only a stretch from a piece to itself is empty.
LEMMA ChunksEmpty == \A a, b \in Nat : a <= b /\ Chunks(a, b) = <<>> => a = b
<1> TAKE a, b \in Nat
<1> HAVE a <= b /\ Chunks(a, b) = <<>>
<1> QED BY ChunksFacts

\* A stretch and the next piece.
LEMMA ChunksGrow == \A a, b \in Nat : a <= b => Append(Chunks(a, b), b + 1) = Chunks(a, b + 1)
<1> TAKE a, b \in Nat
<1> HAVE a <= b
<1> QED BY ChunksFacts

-----------------------------------------------------------------------------
(* The output.                                                             *)

QueueLines == [kind : {"start", "report"}, n : Nat]
Lines == [kind : {"start", "report", "stderr", "table"}, n : Nat]

\* Among these lines are exactly the pieces a + 1, ..., b of the report, in order.
Prints(s, a, b) ==
    /\ a <= b
    /\ \A k \in DOMAIN s : s[k].kind = "report" => s[k].n \in (a + 1) .. b
    /\ \A j, k \in DOMAIN s : s[j].kind = "report" /\ s[k].kind = "report" /\ j < k => s[j].n < s[k].n
    /\ \A n \in (a + 1) .. b : \E k \in DOMAIN s : s[k] = Line("report", n)

\* A line of another kind changes nothing of the report.
LEMMA PrintsOther ==
    ASSUME NEW s \in Seq(Lines), NEW a \in Nat, NEW b \in Nat, Prints(s, a, b),
           NEW e \in Lines, e.kind # "report"
    PROVE  Prints(Append(s, e), a, b)
<1> DEFINE t == Append(s, e)
<1>1. /\ DOMAIN t = 1 .. Len(s) + 1 /\ DOMAIN s = 1 .. Len(s) /\ Len(s) \in Nat
      /\ \A k \in 1 .. Len(s) : t[k] = s[k]
      /\ t[Len(s) + 1] = e
  BY AppendFacts
<1> HIDE DEF t
<1>2. \A k \in DOMAIN t : t[k].kind = "report" => k \in DOMAIN s /\ t[k] = s[k]
  BY <1>1
<1>3. \A k \in DOMAIN s : k \in DOMAIN t /\ t[k] = s[k]
  BY <1>1
<1>4. Prints(t, a, b)
  BY <1>2, <1>3 DEF Prints
<1> QED BY <1>4 DEF t

\* The next piece makes it one longer.
LEMMA PrintsNext ==
    ASSUME NEW s \in Seq(Lines), NEW a \in Nat, NEW b \in Nat, Prints(s, a, b)
    PROVE  Prints(Append(s, Line("report", b + 1)), a, b + 1)
<1> DEFINE e == Line("report", b + 1)
           t == Append(s, e)
<1>0. e \in Lines /\ e.kind = "report" /\ e.n = b + 1
  BY DEF Lines, Line
<1>1. /\ DOMAIN t = 1 .. Len(s) + 1 /\ DOMAIN s = 1 .. Len(s) /\ Len(s) \in Nat
      /\ \A k \in 1 .. Len(s) : t[k] = s[k]
      /\ t[Len(s) + 1] = e
  BY <1>0, AppendFacts
<1> HIDE DEF t, e
<1>2. \A k \in DOMAIN t : (k \in DOMAIN s /\ t[k] = s[k]) \/ (k = Len(s) + 1 /\ t[k] = e)
  BY <1>1
<1>3. \A k \in DOMAIN s : k \in DOMAIN t /\ t[k] = s[k]
  BY <1>1
<1>4. \A k \in DOMAIN t : t[k].kind = "report" => t[k].n \in (a + 1) .. (b + 1)
  BY <1>0, <1>2 DEF Prints
<1>5. ASSUME NEW j \in DOMAIN t, NEW k \in DOMAIN t, t[j].kind = "report", t[k].kind = "report", j < k
      PROVE  t[j].n < t[k].n
  <2>1. j \in DOMAIN s /\ t[j] = s[j]
    BY <1>1, <1>2, <1>5
  <2>2. s[j].n \in (a + 1) .. b
    BY <1>5, <2>1 DEF Prints
  <2>3. CASE t[k] = e
    BY <1>0, <2>1, <2>2, <2>3
  <2>4. CASE k \in DOMAIN s /\ t[k] = s[k]
    BY <1>5, <2>1, <2>4 DEF Prints
  <2> QED BY <1>2, <2>3, <2>4
<1>6. ASSUME NEW n \in (a + 1) .. (b + 1)
      PROVE  \E k \in DOMAIN t : t[k] = Line("report", n)
  <2>1. CASE n = b + 1
    <3>1. Len(s) + 1 \in DOMAIN t
      BY <1>1
    <3> QED BY <1>1, <2>1, <3>1 DEF e
  <2>2. CASE n # b + 1
    <3>1. n \in (a + 1) .. b
      BY <2>2
    <3>2. PICK k \in DOMAIN s : s[k] = Line("report", n)
      BY <3>1 DEF Prints
    <3> QED BY <1>3, <3>2
  <2> QED BY <2>1, <2>2
<1>7. a <= b + 1
  BY DEF Prints
<1>8. Prints(t, a, b + 1)
  BY <1>4, <1>5, <1>6, <1>7 DEF Prints
<1> QED BY <1>8 DEF t, e

\* The first line is the next piece, or no piece.
LEMMA PrintsHead ==
    ASSUME NEW s \in Seq(Lines), s # <<>>, NEW a \in Nat, NEW b \in Nat, Prints(s, a, b)
    PROVE  IF Head(s).kind = "report"
           THEN Head(s) = Line("report", a + 1) /\ Prints(Tail(s), a + 1, b)
           ELSE Prints(Tail(s), a, b)
<1> DEFINE t == Tail(s)
           c == IF Head(s).kind = "report" THEN a + 1 ELSE a
<1>1. /\ DOMAIN s = 1 .. Len(s) /\ Len(s) \in Nat /\ Len(s) >= 1 /\ Head(s) = s[1]
      /\ DOMAIN t = 1 .. Len(s) - 1
      /\ \A k \in 1 .. Len(s) - 1 : t[k] = s[k + 1]
  BY TailFacts
<1>a. \A k \in DOMAIN s : s[k].kind = "report" => s[k].n \in (a + 1) .. b
  BY DEF Prints
<1>b. \A j, k \in DOMAIN s : s[j].kind = "report" /\ s[k].kind = "report" /\ j < k => s[j].n < s[k].n
  BY DEF Prints
<1>c. \A n \in (a + 1) .. b : \E k \in DOMAIN s : s[k] = Line("report", n)
  BY DEF Prints
<1>d. \A n : Line("report", n).kind = "report" /\ Line("report", n).n = n
  BY DEF Line
<1>2. ASSUME Head(s).kind = "report"
      PROVE  Head(s) = Line("report", a + 1)
  <2>1. s[1].n \in (a + 1) .. b /\ 1 \in DOMAIN s
    BY <1>1, <1>2, <1>a
  <2>2. PICK k \in DOMAIN s : s[k] = Line("report", a + 1)
    BY <1>c, <2>1
  <2>3. s[k].kind = "report" /\ s[k].n = a + 1
    BY <2>2, <1>d
  <2>4. ~(1 < k)
    BY <1>1, <1>2, <1>b, <2>1, <2>3
  <2>5. k = 1
    BY <1>1, <2>4
  <2> QED BY <1>1, <2>2, <2>5
<1>3. c \in Nat /\ c <= b
  <2>1. CASE Head(s).kind = "report"
    BY <1>1, <1>a, <2>1
  <2>2. CASE Head(s).kind # "report"
    BY <2>2 DEF Prints
  <2> QED BY <2>1, <2>2
<1> HIDE DEF t
<1>4. \A k \in DOMAIN t : k + 1 \in DOMAIN s /\ t[k] = s[k + 1] /\ 1 < k + 1 /\ k \in Int
  BY <1>1
<1>5. ASSUME NEW k \in DOMAIN t, t[k].kind = "report"
      PROVE  t[k].n \in (c + 1) .. b
  <2>1. s[k + 1].n \in (a + 1) .. b /\ s[k + 1].kind = "report"
    BY <1>4, <1>5, <1>a
  <2>2. CASE Head(s).kind = "report"
    <3>1. s[1].n = a + 1 /\ s[1].kind = "report" /\ 1 \in DOMAIN s
      BY <1>1, <1>2, <1>d, <2>2
    <3>2. s[1].n < s[k + 1].n
      BY <1>4, <1>b, <2>1, <3>1
    <3> QED BY <1>4, <2>1, <2>2, <3>1, <3>2
  <2>3. CASE Head(s).kind # "report"
    BY <1>4, <2>1, <2>3
  <2> QED BY <2>2, <2>3
<1>6. ASSUME NEW j \in DOMAIN t, NEW k \in DOMAIN t, t[j].kind = "report", t[k].kind = "report", j < k
      PROVE  t[j].n < t[k].n
  <2>1. j + 1 < k + 1
    BY <1>4, <1>6
  <2> QED BY <1>4, <1>6, <1>b, <2>1
<1>7. ASSUME NEW n \in (c + 1) .. b
      PROVE  \E k \in DOMAIN t : t[k] = Line("report", n)
  <2>1. n \in (a + 1) .. b
    BY <1>3
  <2>2. PICK k \in DOMAIN s : s[k] = Line("report", n)
    BY <1>c, <2>1
  <2>3. k # 1
    <3>1. CASE Head(s).kind = "report"
      <4>1. s[1].n = a + 1 /\ n > a + 1
        BY <1>1, <1>2, <1>d, <3>1
      <4> QED BY <1>d, <2>2, <4>1
    <3>2. CASE Head(s).kind # "report"
      BY <1>1, <1>d, <2>2, <3>2
    <3> QED BY <3>1, <3>2
  <2>4. k - 1 \in DOMAIN t /\ t[k - 1] = s[k]
    BY <1>1, <2>3
  <2> QED BY <2>2, <2>4
<1> HIDE DEF c
<1>8. Prints(t, c, b)
  BY <1>3, <1>5, <1>6, <1>7 DEF Prints
<1> QED BY <1>2, <1>8 DEF c, t

\* Writing a frame's pieces makes it longer by as many.
LEMMA PrintsJoin ==
    ASSUME NEW s \in Seq(Lines), NEW a \in Nat, NEW b \in Nat, NEW c \in Nat, Prints(s, a, b), b <= c,
           NEW r, r = [i \in DOMAIN Chunks(b, c) |-> Line("report", Chunks(b, c)[i])]
    PROVE  r \in Seq(QueueLines) /\ Prints(s \o r, a, c)
<1> DEFINE t == s \o r
<1>0. c - b \in Nat /\ DOMAIN Chunks(b, c) = 1 .. (c - b) /\ \A i \in 1 .. (c - b) : Chunks(b, c)[i] = b + i
  BY DEF Chunks
<1>1. r = [i \in 1 .. (c - b) |-> Line("report", b + i)]
  BY <1>0
<1>2. \A i \in 1 .. (c - b) : Line("report", b + i) \in QueueLines /\ Line("report", b + i) \in Lines
  BY DEF QueueLines, Lines, Line
<1>3. r \in Seq(QueueLines) /\ r \in Seq(Lines)
  <2>1. r \in [1 .. (c - b) -> QueueLines] /\ r \in [1 .. (c - b) -> Lines]
    BY <1>1, <1>2
  <2> QED BY <1>0, <2>1
<1>3a. Len(r) = c - b /\ \A i \in 1 .. (c - b) : r[i] = Line("report", b + i)
  BY <1>0, <1>1
<1>4. /\ DOMAIN t = 1 .. Len(s) + (c - b) /\ DOMAIN s = 1 .. Len(s) /\ Len(s) \in Nat
      /\ \A k \in 1 .. Len(s) : t[k] = s[k]
      /\ \A k \in 1 .. (c - b) : t[Len(s) + k] = r[k]
  <2>1. /\ DOMAIN t = 1 .. Len(s) + Len(r)
        /\ \A k \in 1 .. Len(s) : t[k] = s[k]
        /\ \A k \in 1 .. Len(r) : t[Len(s) + k] = r[k]
    BY <1>3, ConcatFacts
  <2>2. DOMAIN s = 1 .. Len(s) /\ Len(s) \in Nat
    OBVIOUS
  <2> QED BY <1>3a, <2>1, <2>2
<1> HIDE DEF t
<1>d. \A n : Line("report", n).kind = "report" /\ Line("report", n).n = n
  BY DEF Line
<1>5. ASSUME NEW k \in DOMAIN t
      PROVE  \/ k \in DOMAIN s /\ t[k] = s[k]
             \/ k > Len(s) /\ t[k] = Line("report", b + (k - Len(s))) /\ k - Len(s) \in 1 .. (c - b)
  <2>1. CASE k <= Len(s)
    BY <1>4, <2>1
  <2>2. CASE k > Len(s)
    <3>1. k - Len(s) \in 1 .. (c - b) /\ Len(s) + (k - Len(s)) = k
      BY <1>4, <2>2
    <3> QED BY <1>3a, <1>4, <2>2, <3>1
  <2> QED BY <1>4, <2>1, <2>2
<1>6. \A k \in DOMAIN s : k \in DOMAIN t /\ t[k] = s[k]
  BY <1>4
<1>7. \A k \in DOMAIN s : s[k].kind = "report" => s[k].n \in (a + 1) .. b
  BY DEF Prints
<1>8. \A j, k \in DOMAIN s : s[j].kind = "report" /\ s[k].kind = "report" /\ j < k => s[j].n < s[k].n
  BY DEF Prints
<1>9. a <= b
  BY DEF Prints
<1>10. ASSUME NEW k \in DOMAIN t, t[k].kind = "report"
       PROVE  t[k].n \in (a + 1) .. c
  BY <1>4, <1>5, <1>7, <1>9, <1>10, <1>d
<1>11. ASSUME NEW j \in DOMAIN t, NEW k \in DOMAIN t, t[j].kind = "report", t[k].kind = "report", j < k
       PROVE  t[j].n < t[k].n
  <2>1. CASE k \in DOMAIN s /\ t[k] = s[k]
    <3>1. j \in DOMAIN s /\ t[j] = s[j]
      BY <1>4, <1>6, <1>11, <2>1
    <3> QED BY <1>8, <1>11, <2>1, <3>1
  <2>2. CASE k > Len(s) /\ t[k] = Line("report", b + (k - Len(s))) /\ k - Len(s) \in 1 .. (c - b)
    <3>1. t[k].n = b + (k - Len(s)) /\ k \in Int /\ j \in Int
      BY <1>4, <1>d, <2>2
    <3>2. CASE j \in DOMAIN s /\ t[j] = s[j]
      BY <1>7, <1>11, <2>2, <3>1, <3>2
    <3>3. CASE t[j] = Line("report", b + (j - Len(s)))
      <4>1. t[j].n = b + (j - Len(s))
        BY <1>d, <3>3
      <4> QED BY <1>4, <1>11, <3>1, <4>1
    <3> QED BY <1>5, <3>2, <3>3
  <2> QED BY <1>5, <2>1, <2>2
<1>12. ASSUME NEW n \in (a + 1) .. c
       PROVE  \E k \in DOMAIN t : t[k] = Line("report", n)
  <2>1. CASE n <= b
    <3>1. PICK k \in DOMAIN s : s[k] = Line("report", n)
      BY <2>1 DEF Prints
    <3> QED BY <1>6, <3>1
  <2>2. CASE n > b
    <3>1. n - b \in 1 .. (c - b) /\ b + (n - b) = n
      BY <2>2
    <3>2. DOMAIN t = 1 .. Len(s) + (c - b) /\ Len(s) \in Nat
      BY <1>4
    <3>3. Len(s) + (n - b) \in DOMAIN t
      BY <3>1, <3>2
    <3> QED BY <1>3a, <1>4, <3>1, <3>3
  <2> QED BY <2>1, <2>2
<1>13. Prints(t, a, c)
  BY <1>9, <1>10, <1>11, <1>12 DEF Prints
<1> QED BY <1>3, <1>13 DEF t

\* No lines hold no pieces.
LEMMA PrintsNone ==
    ASSUME NEW a \in Nat, NEW b \in Nat
    PROVE  Prints(<<>>, a, b) <=> a = b
<1>1. ASSUME Prints(<<>>, a, b) PROVE a = b
  <2>1. DOMAIN <<>> = {}
    OBVIOUS
  <2>2. \A n \in (a + 1) .. b : \E k \in DOMAIN <<>> : <<>>[k] = Line("report", n)
    BY <1>1, Zenon DEF Prints
  <2>3. b \notin (a + 1) .. b
    BY <2>1, <2>2
  <2> QED BY <1>1, <2>3 DEF Prints
<1>2. ASSUME a = b PROVE Prints(<<>>, a, b)
  BY <1>2 DEF Prints
<1> QED BY <1>1, <1>2

FrameKinds == RequestKinds \cup {"ok", "output"}
Frames == [kind : FrameKinds, chunks : Seq(Nat)]

\* The output frames carry exactly the pieces a + 1, ..., b, in order: m[k] pieces are out after
\* the first k frames.
Framed(s, a, b) ==
    \E m \in [0 .. Len(s) -> Nat] :
        /\ m[0] = a /\ m[Len(s)] = b
        /\ \A k \in 1 .. Len(s) :
             IF s[k].kind = "output" THEN m[k - 1] <= m[k] /\ s[k].chunks = Chunks(m[k - 1], m[k])
             ELSE m[k] = m[k - 1]

\* A frame more, with the next pieces or none.
LEMMA FramedAppend ==
    ASSUME NEW s \in Seq(Frames), NEW a \in Nat, NEW b \in Nat, NEW c \in Nat, Framed(s, a, b),
           NEW e \in Frames,
           IF e.kind = "output" THEN b <= c /\ e.chunks = Chunks(b, c) ELSE c = b
    PROVE  Framed(Append(s, e), a, c)
<1> DEFINE t == Append(s, e)
<1>1. PICK m \in [0 .. Len(s) -> Nat] :
        /\ m[0] = a /\ m[Len(s)] = b
        /\ \A k \in 1 .. Len(s) :
             IF s[k].kind = "output" THEN m[k - 1] <= m[k] /\ s[k].chunks = Chunks(m[k - 1], m[k])
             ELSE m[k] = m[k - 1]
  BY DEF Framed
<1>2. /\ Len(t) = Len(s) + 1 /\ Len(s) \in Nat
      /\ \A k \in 1 .. Len(s) : t[k] = s[k]
      /\ t[Len(s) + 1] = e
  BY AppendFacts
<1> HIDE DEF t
<1> DEFINE w == [k \in 0 .. Len(s) + 1 |-> IF k <= Len(s) THEN m[k] ELSE c]
<1>3. /\ w \in [0 .. Len(t) -> Nat] /\ w[0] = a /\ w[Len(t)] = c
      /\ w[Len(s)] = b
      /\ \A k \in 0 .. Len(s) : w[k] = m[k]
  BY <1>1, <1>2
<1> HIDE DEF w
<1>4. ASSUME NEW k \in 1 .. Len(t)
      PROVE  IF t[k].kind = "output" THEN w[k - 1] <= w[k] /\ t[k].chunks = Chunks(w[k - 1], w[k])
             ELSE w[k] = w[k - 1]
  <2>1. CASE k <= Len(s)
    <3>1. k \in 1 .. Len(s) /\ w[k] = m[k] /\ w[k - 1] = m[k - 1] /\ t[k] = s[k]
      BY <1>2, <1>3, <2>1
    <3> QED BY <1>1, <3>1
  <2>2. CASE k = Len(s) + 1
    <3>1. w[k] = c /\ w[k - 1] = b /\ t[k] = e
      BY <1>2, <1>3, <2>2
    <3> QED BY <3>1
  <2> QED BY <1>2, <2>1, <2>2
<1>5. Framed(t, a, c)
  BY <1>3, <1>4 DEF Framed
<1> QED BY <1>5 DEF t

\* The first frame carries the next pieces, or none.
LEMMA FramedHead ==
    ASSUME NEW s \in Seq(Frames), s # <<>>, NEW a \in Nat, NEW b \in Nat, Framed(s, a, b)
    PROVE  \E c \in Nat :
             /\ IF Head(s).kind = "output" THEN a <= c /\ Head(s).chunks = Chunks(a, c) ELSE c = a
             /\ Framed(Tail(s), c, b)
<1> DEFINE t == Tail(s)
<1>1. PICK m \in [0 .. Len(s) -> Nat] :
        /\ m[0] = a /\ m[Len(s)] = b
        /\ \A k \in 1 .. Len(s) :
             IF s[k].kind = "output" THEN m[k - 1] <= m[k] /\ s[k].chunks = Chunks(m[k - 1], m[k])
             ELSE m[k] = m[k - 1]
  BY DEF Framed
<1>2. /\ Len(t) = Len(s) - 1 /\ Len(s) \in Nat /\ Len(s) >= 1 /\ Head(s) = s[1]
      /\ \A k \in 1 .. Len(s) - 1 : t[k] = s[k + 1]
  BY TailFacts
<1> HIDE DEF t
<1> DEFINE w == [k \in 0 .. Len(s) - 1 |-> m[k + 1]]
<1>3. /\ w \in [0 .. Len(t) -> Nat] /\ w[0] = m[1] /\ w[Len(t)] = b /\ m[1] \in Nat
      /\ \A k \in 0 .. Len(t) : w[k] = m[k + 1]
  BY <1>1, <1>2
<1> HIDE DEF w
<1>4. ASSUME NEW k \in 1 .. Len(t)
      PROVE  IF t[k].kind = "output" THEN w[k - 1] <= w[k] /\ t[k].chunks = Chunks(w[k - 1], w[k])
             ELSE w[k] = w[k - 1]
  <2>1. k + 1 \in 1 .. Len(s) /\ w[k] = m[k + 1] /\ w[k - 1] = m[k] /\ t[k] = s[k + 1] /\ (k + 1) - 1 = k
    BY <1>2, <1>3
  <2> QED BY <1>1, <2>1
<1>5. Framed(t, m[1], b)
  BY <1>3, <1>4 DEF Framed
<1>6. IF Head(s).kind = "output" THEN a <= m[1] /\ Head(s).chunks = Chunks(a, m[1]) ELSE m[1] = a
  <2>1. 1 \in 1 .. Len(s) /\ 1 - 1 = 0
    BY <1>2
  <2> QED BY <1>1, <1>2, <2>1
<1> QED BY <1>3, <1>5, <1>6 DEF t

\* No frames carry no pieces.
LEMMA FramedNone ==
    ASSUME NEW a, NEW b, Framed(<<>>, a, b)
    PROVE  a = b
BY DEF Framed

PipeStates == [unread : Seq(Nat), pending : Seq(Nat), discard : BOOLEAN]

\* The queues the output goes through, and the terminal.
OutputType ==
    /\ terminal \in Seq(Lines)
    /\ stdout \in [queue : Seq(QueueLines), accepting : BOOLEAN, failed : BOOLEAN]
    /\ toNode \in Seq(Frames)
    /\ pipe \in PipeStates

\* The report on its way: q pieces are on the terminal, f have reached Node's stream, p are in
\* frames and u have been read from the redirected stdout. A broken stream takes no more, and a
\* drain that has lost its channel sends no more.
Flow(q, f, p, u) ==
    /\ Prints(terminal, 0, q) /\ Prints(stdout.queue, q, f)
    /\ ~stdout.failed => Framed(toNode, f, p)
    /\ ~pipe.discard => /\ p <= u /\ u <= go.chunks
                        /\ pipe.pending = Chunks(p, u) /\ pipe.unread = Chunks(u, go.chunks)
FlowInv == \E q, f, p, u \in Nat : Flow(q, f, p, u)

Opening == {"init", "reply", "load", "prepare", "preflight"}
Ending == {"shutdown", "end", "close"}

\* What the main goroutine's place says about the report.
PhaseInv ==
    /\ go.pc \notin {"init", "reply", "exited"} => go.reply = "receipt"
    /\ go.pc \notin {"report", "drain", "exited"} => Drained
    /\ go.pc \notin {"report", "drain", "exited"} \cup Ending => go.chunks = 0
    /\ pipe.discard => go.closed
    /\ go.table => go.chunks = MaxChunks /\ go.pc \in {"drain", "exited"} \cup Ending

Sent(kind) == \E k \in DOMAIN toNode : toNode[k].kind = kind
Told(kind, ok) == [of |-> kind, ok |-> ok] \in answers
StartPending == Sent("start") \/ "start" \in node.handling
Headed == terminal # <<>> /\ terminal[1] = Line("start", 0)

\* The start line from the request to its answer: nothing is printed before it.
StartInv ==
    /\ go.pc \in Opening =>
         /\ terminal = <<>> /\ stdout.queue = <<>> /\ ~Sent("output") /\ ~StartPending /\ ~go.started
         /\ ~Told("start", TRUE) /\ ~Told("start", FALSE)
    /\ StartPending => /\ go.pc \in {"start", "join", "drain", "exited"} \cup Ending
                       /\ ~Sent("output") /\ ~Told("start", TRUE) /\ ~Told("start", FALSE)
                       /\ go.chunks = 0 /\ Drained /\ ~go.started /\ ~go.table
    /\ Sent("start") => /\ terminal = <<>> /\ stdout.queue = <<>> /\ "start" \notin node.handling
                        /\ \A j, k \in DOMAIN toNode : toNode[j].kind = "start" /\ toNode[k].kind = "start" => j = k
    /\ "start" \in node.handling =>
         stdout.failed \/ (terminal = <<>> /\ stdout.queue = <<Line("start", 0)>>) \/ Headed
    /\ Told("start", TRUE) \/ go.started => Headed
    /\ Printed("stderr") # {} => Headed

\* The shutdown from the request to the table: nothing is sent, queued or printed behind it.
EndInv ==
    /\ \A k \in DOMAIN toNode : toNode[k].kind = "shutdown" => k = Len(toNode)
    /\ "shutdown" \in node.handling \/ Told("shutdown", TRUE) => toNode = <<>>
    /\ Sent("shutdown") \/ "shutdown" \in node.handling \/ Told("shutdown", TRUE) =>
         go.pc \in {"exited"} \cup Ending /\ Drained /\ ~pipe.discard
    /\ Told("shutdown", TRUE) => stdout.queue = <<>> /\ Prints(terminal, 0, go.chunks)
    /\ go.flushed => Told("shutdown", TRUE)
    /\ \A k \in Printed("table") : k = Len(terminal) /\ go.table /\ go.flushed /\ go.pc \in {"close", "exited"}

OutputInv == OutputType /\ FlowInv /\ PhaseInv /\ StartInv /\ EndInv

\* The main goroutine never goes back.
Onward(a, b) ==
    /\ b \in Opening => a \in Opening
    /\ a = "join" => b \in {"join", "drain", "exited"}
    /\ a = "report" => b \in {"report", "drain", "exited"}
    /\ a = "drain" => b \in {"drain", "exited"} \cup Ending
    /\ a \in Ending => b \in {"exited"} \cup Ending
    /\ a \in {"close", "exited"} => b \in {a, "exited"}

\* A frame that asks for something or answers the init.
Posts(k) ==
    /\ toNode' = Append(toNode, Request(k))
    /\ go.pc \notin {"exited"} \cup Ending
    /\ k = "start" => go.pc = "preflight" /\ go'.pc = "start"
    /\ k = "shutdown" => go'.pc = "shutdown" /\ ~go.closed

\* What a step may do that neither moves the report nor takes or gives an answer.
Moves ==
    /\ UNCHANGED <<pipe, answers, stdout>> /\ node'.handling = node.handling
    /\ Onward(go.pc, go'.pc)
    /\ go.pc = "drain" /\ go'.pc \in Ending => Drained
    /\ go.pc = "start" /\ go'.pc \notin {"start", "join", "drain", "exited"} => Told("start", TRUE)
    /\ go'.pc \in {"init", "reply", "exited"} \/ go'.reply = "receipt"
    /\ go'.chunks = go.chunks /\ (go.closed => go'.closed)
    /\ go.table => go'.table
    /\ go'.table => go.table \/ (go.pc = "report" /\ go'.pc = "drain" /\ go.chunks = MaxChunks)
    /\ go.started => go'.started
    /\ go'.started => go.started \/ (Told("start", TRUE) /\ go.pc = "start" /\ go'.pc = "plan")
    /\ go.flushed => go'.flushed
    /\ go'.flushed => go.flushed \/ Told("shutdown", TRUE)
    /\ toNode' = toNode \/ \E k \in FrameKinds \ {"output"} : Posts(k)
    /\ \/ terminal' = terminal
       \/ /\ terminal' = Append(terminal, Line("stderr", 0)) /\ go.started
          /\ go.pc \notin Opening \cup {"drain", "exited"} \cup Ending
       \/ /\ terminal' = Append(terminal, Line("table", 0)) /\ go.table /\ go.flushed
          /\ go.pc = "end" /\ go'.pc = "close"

\* An answer of Node's; those about output wait for the stream.
Answers(of, ok) ==
    /\ UNCHANGED <<go, pipe, toNode, stdout, terminal>>
    /\ of \in node.handling /\ Reply(of, ok)
    /\ of \in {"start", "shutdown"} => Flushed /\ (ok <=> ~stdout.failed)

\* A piece of the report is written.
Writes ==
    /\ go.pc = "report" /\ go' = [go EXCEPT !.chunks = @ + 1]
    /\ pipe' = [pipe EXCEPT !.unread = Append(@, go.chunks + 1)]
    /\ UNCHANGED <<toNode, answers, node, stdout, terminal>>

\* The real stdout breaks.
Breaks ==
    /\ stdout' = [stdout EXCEPT !.queue = <<>>, !.failed = TRUE]
    /\ UNCHANGED <<go, pipe, toNode, answers, node, terminal>>

\* A request is a frame more, or nothing once the channel is closed.
LEMMA AskPosts ==
    ASSUME NEW g \in GoStates, NEW k \in RequestKinds, Ask(k, g), go.pc \notin {"exited"} \cup Ending,
           k = "start" => go.pc = "preflight"
    PROVE  toNode' = toNode \/ \E kind \in FrameKinds \ {"output"} : Posts(kind)
<1>1. go'.pc = k
  BY DEF Ask, GoStates
<1>2. toNode' = toNode \/ Posts(k)
  BY <1>1 DEF Ask, Posts
<1> QED BY <1>2 DEF FrameKinds, RequestKinds

\* The rest of a move, from the record the goroutine goes on with.
Carried(g) ==
    /\ g.reply = go.reply /\ g.chunks = go.chunks /\ g.closed = go.closed
    /\ g.table = go.table /\ g.started = go.started /\ g.flushed = go.flushed

\* A move that only changes the place, the code or the marks of an interrupt.
LEMMA CarriedMoves ==
    ASSUME go \in GoStates, PhaseInv, UNCHANGED <<pipe, answers, engine>>,
           NEW g \in GoStates, Carried(g), NEW w \in GoPCs, Onward(go.pc, w), w # "start" \/ go.pc = "preflight",
           \/ Goto(w, g)
           \/ w \in RequestKinds /\ Ask(w, g),
           go.pc \notin {"exited"} \cup Ending, go.pc \in {"init", "reply"} => go.reply = "receipt" \/ w = "exited",
           go.pc = "drain" /\ w \in Ending => Drained,
           go.pc = "start" /\ w \notin {"start", "join", "drain", "exited"} => Told("start", TRUE),
           \/ terminal' = terminal
           \/ /\ terminal' = Append(terminal, Line("stderr", 0)) /\ go.started
              /\ go.pc \notin Opening \cup {"drain"}
    PROVE  Moves
<1>1. toNode' = toNode \/ \E kind \in FrameKinds \ {"output"} : Posts(kind)
  BY AskPosts DEF Goto
<1>2. go' = [g EXCEPT !.pc = w]
  BY DEF Goto, Ask
<1>3. /\ go'.pc = w /\ go'.reply = go.reply /\ go'.chunks = go.chunks /\ go'.closed = go.closed
      /\ go'.table = go.table /\ go'.started = go.started /\ go'.flushed = go.flushed
  BY <1>2 DEF Carried, GoStates
<1>4. w \in {"init", "reply", "exited"} \/ go.reply = "receipt"
  BY DEF PhaseInv, Onward, Opening
<1> QED BY <1>1, <1>3, <1>4 DEF Moves, engine

\* The main goroutine's moves.
LEMMA GoMoves ==
    ASSUME SessionType, PhaseInv,
           \/ HandleInit \/ AwaitInit \/ AwaitReply \/ InitAborted \/ Discover \/ Preflight \/ AwaitStart \/ Plan
           \/ CompleteActivation \/ Run \/ FinishOutput \/ AwaitShutdown \/ PrintTable \/ GoExits
           \/ MirrorSignal \/ PeerGone \/ GoSignal \/ KillTimer
    PROVE  Moves
<1>0. go \in GoStates /\ node \in NodeStates /\ act \in ActStates
  BY DEF SessionType
<1> USE DEF Moves, Onward, Opening, Ending, engine
<1>1. CASE HandleInit
  <2>1. go'.reply \in {"delivered", "written", "receipt"} /\ go.pc \in {"init", "reply"} /\ go'.pc = go.pc
    BY <1>0, <1>1 DEF HandleInit, PhaseInv, Exited, GoStates
  <2>2. toNode' = toNode \/ Posts("ok")
    BY <1>1, <2>1 DEF HandleInit, Posts
  <2> QED BY <1>0, <1>1, <2>1, <2>2 DEF HandleInit, FrameKinds, GoStates
<1>2. CASE AwaitInit \/ InitAborted
  <2>1. CASE go.pc = "init" /\ Goto("reply", go)
    BY <1>0, <1>2, <2>1 DEF AwaitInit, InitAborted, Goto, GoStates
  <2>2. CASE go.pc \in {"init", "reply"} /\ \E x \in {2, 130} : Exit(x)
    <3>1. /\ go'.pc = "exited" /\ go'.chunks = go.chunks /\ go'.closed = go.closed /\ go'.table = go.table
          /\ go'.started = go.started /\ go'.flushed = go.flushed /\ toNode' = toNode
      BY <1>0, <2>2 DEF Exit, Goto, GoStates
    <3>2. UNCHANGED <<pipe, answers, node, stdout, terminal>>
      BY <1>2 DEF AwaitInit, InitAborted
    <3> QED BY <2>2, <3>1, <3>2
  <2> QED BY <1>2, <2>1, <2>2 DEF AwaitInit, InitAborted
<1>3. ASSUME Undiscovered, UNCHANGED <<pipe, answers, engine, terminal>>,
             go.pc \in {"reply", "load", "prepare"}, go.reply = "receipt"
      PROVE  Moves
  <2> DEFINE g == [go EXCEPT !.signalled = Interrupted, !.final = TRUE,
                             !.code = IF Interrupted THEN 130 ELSE 1]
  <2>1. g \in GoStates /\ Carried(g)
    BY <1>0, ZenonT(60) DEF GoStates, Interrupted, Carried
  <2>2. ShutdownPeer(g)
    BY <1>3 DEF Undiscovered
  <2> HIDE DEF g
  <2>3. \E w \in Ending : Goto(w, g) \/ (w \in RequestKinds /\ Ask(w, g))
    BY <2>2 DEF ShutdownPeer, RequestKinds
  <2> QED BY <1>0, <1>3, <2>1, <2>3, CarriedMoves DEF GoPCs
<1>4. Carried(go)
  BY DEF Carried
<1>5. /\ \A x \in {0, 1, 2, 130} : [go EXCEPT !.code = x] \in GoStates /\ Carried([go EXCEPT !.code = x])
      /\ [go EXCEPT !.final = TRUE] \in GoStates /\ Carried([go EXCEPT !.final = TRUE])
      /\ [go EXCEPT !.plugins = act.plugins] \in GoStates /\ Carried([go EXCEPT !.plugins = act.plugins])
      /\ [go EXCEPT !.signalled = Interrupted] \in GoStates /\ Carried([go EXCEPT !.signalled = Interrupted])
  <2>1. Interrupted \in BOOLEAN /\ act.plugins \in BOOLEAN
    BY <1>0, ZenonT(60) DEF Interrupted, ActStates
  <2>2. \A x \in {0, 1, 2, 130} : [go EXCEPT !.code = x] \in GoStates /\ Carried([go EXCEPT !.code = x])
    BY <1>0 DEF GoStates, Carried
  <2>3. [go EXCEPT !.final = TRUE] \in GoStates /\ Carried([go EXCEPT !.final = TRUE])
    BY <1>0 DEF GoStates, Carried
  <2>4. \A x \in BOOLEAN : /\ [go EXCEPT !.plugins = x] \in GoStates /\ Carried([go EXCEPT !.plugins = x])
                           /\ [go EXCEPT !.signalled = x] \in GoStates /\ Carried([go EXCEPT !.signalled = x])
    BY <1>0 DEF GoStates, Carried
  <2> QED BY <2>1, <2>2, <2>3, <2>4, ZenonT(60)
<1>6. CASE AwaitReply
  <2>1. CASE (go.reply # "receipt" /\ go.closed /\ Exit(2)) \/ (go.reply = "receipt" /\ Exit(2))
    BY <1>0, <1>5, <1>6, <2>1, CarriedMoves DEF AwaitReply, Exit, GoPCs
  <2>2. CASE go.reply = "receipt" /\ Ask("load", go)
    BY <1>0, <1>4, <1>6, <2>2, CarriedMoves DEF AwaitReply, GoPCs, RequestKinds
  <2>3. CASE go.reply = "receipt" /\ Undiscovered
    BY <1>3, <1>6, <2>3 DEF AwaitReply
  <2>4. CASE go.reply = "receipt" /\ (Goto("drain", [go EXCEPT !.final = TRUE]) \/ Goto("drain", [go EXCEPT !.code = 1]))
    BY <1>0, <1>5, <1>6, <2>4, CarriedMoves DEF AwaitReply, GoPCs
  <2>5. CASE go.reply = "receipt" /\ Goto("report", go)
    BY <1>0, <1>4, <1>6, <2>5, CarriedMoves DEF AwaitReply, GoPCs
  <2> QED BY <1>6, <2>1, <2>2, <2>3, <2>4, <2>5 DEF AwaitReply
<1>7. CASE Discover
  <2>1. go.pc \in {"load", "prepare"} /\ go.reply = "receipt" /\ UNCHANGED <<pipe, answers, engine, terminal>>
    BY <1>7 DEF Discover, Answered, Failed, Refused, Lost, PhaseInv
  <2>2. CASE Ask("prepare", go)
    BY <1>0, <1>4, <2>1, <2>2, CarriedMoves DEF GoPCs, RequestKinds
  <2>3. CASE Goto("preflight", [go EXCEPT !.plugins = act.plugins])
    BY <1>0, <1>5, <2>1, <2>3, CarriedMoves DEF GoPCs
  <2> QED BY <1>3, <1>7, <2>1, <2>2, <2>3 DEF Discover
<1>8. ASSUME Fail, go.pc \in {"preflight", "start", "plan"}, UNCHANGED <<pipe, answers, engine>>,
             \/ terminal' = terminal
             \/ terminal' = Append(terminal, Line("stderr", 0)) /\ go.started /\ go.pc = "plan"
      PROVE  Moves
  <2> DEFINE g == [go EXCEPT !.code = 1]
  <2>1. \E w \in {"join", "drain"} : Goto(w, g) \/ (w \in RequestKinds /\ Ask(w, g))
    BY <1>8 DEF Fail, RequestKinds
  <2>2. g \in GoStates /\ Carried(g)
    BY <1>5
  <2> HIDE DEF g
  <2> QED BY <1>0, <1>8, <2>1, <2>2, CarriedMoves DEF GoPCs
<1>9. CASE Preflight
  <2>1. go.pc = "preflight" /\ UNCHANGED <<pipe, answers, engine, terminal>>
    BY <1>9 DEF Preflight
  <2>2. CASE Ask("start", go) \/ Goto("plan", go)
    BY <1>0, <1>4, <2>1, <2>2, CarriedMoves DEF GoPCs, RequestKinds
  <2> QED BY <1>8, <1>9, <2>1, <2>2 DEF Preflight
<1>10. CASE AwaitStart
  <2>1. go.pc = "start" /\ UNCHANGED <<pipe, answers, engine, terminal>>
    BY <1>10 DEF AwaitStart, Answered, Failed, Refused, Lost
  <2>2. CASE Answered("start") /\ Goto("plan", [go EXCEPT !.started = TRUE])
    <3>1. /\ go'.pc = "plan" /\ go'.reply = go.reply /\ go'.chunks = go.chunks /\ go'.closed = go.closed
          /\ go'.table = go.table /\ go'.flushed = go.flushed /\ go'.started /\ toNode' = toNode
      BY <1>0, <2>2 DEF Goto, GoStates
    <3>2. Told("start", TRUE) /\ go.reply = "receipt"
      BY <2>1, <2>2 DEF Answered, Told, PhaseInv
    <3> QED BY <2>1, <3>1, <3>2
  <2> QED BY <1>8, <1>10, <2>1, <2>2 DEF AwaitStart
<1>11. CASE Plan
  <2>1. go.pc = "plan" /\ UNCHANGED <<pipe, answers, engine>>
    BY <1>11 DEF Plan
  <2>2. CASE Fail /\ Explain
    BY <1>8, <2>1, <2>2 DEF Explain
  <2>3. CASE (Ask("activate", go) \/ Goto("run", go)) /\ UNCHANGED terminal
    BY <1>0, <1>4, <2>1, <2>3, CarriedMoves DEF GoPCs, RequestKinds
  <2> QED BY <1>11, <2>2, <2>3 DEF Plan
<1>12. ASSUME Goto("drain", go) \/ Goto("drain", [go EXCEPT !.code = 1]), Explain \/ UNCHANGED terminal,
              UNCHANGED <<pipe, answers, engine>>, go.pc \in {"activate", "join", "run", "pluginLint"}
       PROVE  Moves
  BY <1>0, <1>4, <1>5, <1>12, CarriedMoves DEF Explain, GoPCs
<1>13. CASE CompleteActivation
  <2>1. go.pc \in {"activate", "join"} /\ UNCHANGED <<pipe, answers, engine>>
    BY <1>13 DEF CompleteActivation, Answered, Failed, Refused, Lost
  <2>2. CASE go.pc = "activate" /\ (Ask("pluginLint", go) \/ Goto("run", go)) /\ UNCHANGED terminal
    BY <1>0, <1>4, <2>1, <2>2, CarriedMoves DEF GoPCs, RequestKinds
  <2> QED BY <1>12, <1>13, <2>1, <2>2 DEF CompleteActivation, Abort, Answered
<1>14. CASE Run
  <2>1. go.pc \in {"run", "pluginLint"} /\ UNCHANGED <<pipe, answers, engine>>
    BY <1>14 DEF Run, Answered, Failed, Refused, Lost
  <2>2. CASE Goto("report", go) /\ UNCHANGED terminal
    BY <1>0, <1>4, <2>1, <2>2, CarriedMoves DEF GoPCs
  <2> QED BY <1>12, <1>14, <2>1, <2>2 DEF Run, Abort
<1>15. CASE FinishOutput
  <2> DEFINE g == IF go.intent = "help" THEN go ELSE [go EXCEPT !.signalled = Interrupted]
  <2>1. g \in GoStates /\ Carried(g)
    BY <1>0, <1>4, <1>5
  <2>2. go.pc = "drain" /\ Drained /\ ShutdownPeer(g) /\ UNCHANGED <<pipe, answers, engine, terminal>>
    BY <1>15 DEF FinishOutput
  <2> HIDE DEF g
  <2>3. \E w \in Ending : Goto(w, g) \/ (w \in RequestKinds /\ Ask(w, g))
    BY <2>2 DEF ShutdownPeer, RequestKinds
  <2> QED BY <1>0, <2>1, <2>2, <2>3, CarriedMoves DEF GoPCs
<1>16. CASE AwaitShutdown \/ PrintTable \/ GoExits
  BY <1>0, <1>16 DEF AwaitShutdown, PrintTable, GoExits, Answered, Told, Exit, Goto, PhaseInv, GoStates
<1>17. CASE KillTimer \/ MirrorSignal \/ PeerGone \/ GoSignal
  <2>1. /\ go'.chunks = go.chunks /\ go'.table = go.table /\ go'.reply = go.reply /\ (go.closed => go'.closed)
        /\ go'.started = go.started /\ go'.flushed = go.flushed
        /\ go'.pc = go.pc \/ (go.pc # "exited" /\ go'.pc = "exited")
    BY <1>0, <1>17 DEF KillTimer, MirrorSignal, PeerGone, GoSignal, Exited, GoStates
  <2>2. UNCHANGED <<pipe, toNode, answers, node, stdout, terminal>>
    BY <1>17 DEF KillTimer, MirrorSignal, PeerGone, GoSignal
  <2> QED BY <2>1, <2>2 DEF PhaseInv
<1> QED BY <1>1, <1>2, <1>6, <1>7, <1>9, <1>10, <1>11, <1>13, <1>14, <1>15, <1>16, <1>17

\* A step that leaves the output alone.
LEMMA StillMoves ==
    ASSUME PhaseInv, UNCHANGED <<go, pipe, toNode, answers, stdout, terminal>>, node'.handling = node.handling
    PROVE  Moves
BY DEF Moves, Onward, Opening, Ending, PhaseInv

\* The report grows, or is over.
LEMMA ReportMoves ==
    ASSUME SessionType, PhaseInv, Report
    PROVE  Writes \/ Moves
<1>0. go \in GoStates /\ go.pc = "report" /\ UNCHANGED <<answers, engine>>
  BY DEF SessionType, Report
<1>1. CASE /\ go.chunks < MaxChunks /\ (go.ctx => go.intent = "init")
           /\ go' = [go EXCEPT !.chunks = @ + 1]
           /\ pipe' = [pipe EXCEPT !.unread = Append(@, go.chunks + 1)]
           /\ UNCHANGED <<toNode, terminal>>
  BY <1>0, <1>1 DEF Writes, engine
<1>2. CASE /\ go.chunks = MaxChunks
           /\ \E table \in BOOLEAN : Goto("drain", [go EXCEPT !.table = table /\ go.intent = "lint"])
           /\ UNCHANGED <<pipe, terminal>>
  <2>1. /\ go'.pc = "drain" /\ go'.reply = go.reply /\ go'.chunks = go.chunks /\ go'.closed = go.closed
        /\ go'.started = go.started /\ go'.flushed = go.flushed /\ toNode' = toNode
    BY <1>0, <1>2 DEF Goto, GoStates
  <2> QED BY <1>0, <1>2, <2>1 DEF Moves, Onward, Opening, Ending, PhaseInv, engine
<1>3. CASE Abort /\ UNCHANGED pipe
  <2>1. [go EXCEPT !.code = 1] \in GoStates /\ Carried([go EXCEPT !.code = 1])
    BY <1>0 DEF GoStates, Carried
  <2> QED BY <1>0, <1>3, <2>1, CarriedMoves DEF Abort, Explain, Onward, Opening, Ending, GoPCs
<1> QED BY <1>1, <1>2, <1>3 DEF Report

\* What any step does to the output: a move, a piece written, drained, framed, taken in, printed
\* or lost, or an answer.
LEMMA OutputSteps ==
    ASSUME SessionType, PhaseInv, [Next]_vars
    PROVE  \/ Moves \/ Writes \/ DrainReads \/ FinalFlush \/ ReadFrame \/ StdoutWrites \/ Breaks
           \/ \E of \in RequestKinds, ok \in BOOLEAN : Answers(of, ok)
<1>0. go \in GoStates /\ node \in NodeStates /\ act \in ActStates /\ host \in HostStates
  BY DEF SessionType
<1>1. CASE \/ HandleInit \/ AwaitInit \/ AwaitReply \/ InitAborted \/ Discover \/ Preflight \/ AwaitStart \/ Plan
           \/ CompleteActivation \/ Run \/ FinishOutput \/ AwaitShutdown \/ PrintTable \/ GoExits
           \/ MirrorSignal \/ PeerGone \/ GoSignal \/ KillTimer
  BY <1>1, GoMoves
<1>2. CASE Report
  BY <1>2, ReportMoves
<1>3. CASE \/ CreateHost \/ HostCreated \/ HostDown \/ Publish \/ Summarize \/ Verify \/ Interrupt \/ UNCHANGED vars
  <2>1. UNCHANGED <<go, pipe, toNode, answers, node, stdout, terminal>>
    BY <1>3 DEF CreateHost, HostCreated, HostDown, Publish, Summarize, Verify, Interrupt, engine, vars
  <2> QED BY <2>1, StillMoves
<1>4. CASE NodeSignal \/ ReadEnd \/ ChildExit \/ ShutHosts \/ EngineReturns
  <2>1. UNCHANGED <<go, pipe, toNode, answers, stdout, terminal>>
    BY <1>4 DEF NodeSignal, ReadEnd, ChildExit, ShutHosts, EngineReturns
  <2>2. node'.handling = node.handling
    BY <1>0, <1>4 DEF NodeSignal, ReadEnd, ChildExit, ShutHosts, EngineReturns, KillGo, NodeStates
  <2> QED BY <2>1, <2>2, StillMoves
<1>5. CASE ConfigsLoaded
  <2>1. PICK ok \in BOOLEAN : Reply("load", ok)
    BY <1>5 DEF ConfigsLoaded
  <2>2. Answers("load", ok)
    BY <1>5, <2>1 DEF ConfigsLoaded, Answers
  <2> QED BY <2>2 DEF RequestKinds
<1>6. CASE AnswerPrepare
  <2> DEFINE ok == act.metadata \/ act.st = "ready"
  <2>1. ok \in BOOLEAN
    OBVIOUS
  <2>2. Answers("prepare", ok)
    BY <1>6 DEF AnswerPrepare, Answers
  <2> HIDE DEF ok
  <2> QED BY <2>1, <2>2 DEF RequestKinds
<1>7. CASE \E k \in {"activate", "join"} : AnswerActivate(k)
  <2>1. PICK k \in {"activate", "join"} : AnswerActivate(k)
    BY <1>7
  <2> DEFINE ok == act.st # "failed"
  <2>2. ok \in BOOLEAN
    OBVIOUS
  <2>3. Answers(k, ok)
    BY <2>1 DEF AnswerActivate, Answers
  <2> HIDE DEF ok
  <2> QED BY <2>2, <2>3 DEF RequestKinds
<1>8. CASE AnswerPluginLint
  <2>1. PICK r \in BOOLEAN : Reply("pluginLint", r /\ act.st = "ready" /\ host.published /\ host.st = "up")
    BY <1>8 DEF AnswerPluginLint
  <2> DEFINE ok == r /\ act.st = "ready" /\ host.published /\ host.st = "up"
  <2>2. ok \in BOOLEAN
    OBVIOUS
  <2>3. Answers("pluginLint", ok)
    BY <1>8, <2>1 DEF AnswerPluginLint, Answers
  <2> HIDE DEF ok
  <2> QED BY <2>2, <2>3 DEF RequestKinds
<1>9. CASE \E k \in {"start", "shutdown"} : AnswerOutput(k)
  <2>1. PICK k \in {"start", "shutdown"} : AnswerOutput(k)
    BY <1>9
  <2> DEFINE ok == ~stdout.failed
  <2>2. ok \in BOOLEAN
    OBVIOUS
  <2>3. Answers(k, ok)
    BY <2>1 DEF AnswerOutput, Answers
  <2> HIDE DEF ok
  <2> QED BY <2>2, <2>3 DEF RequestKinds
<1>10. CASE Fault
  <2>1. UNCHANGED <<pipe, toNode, answers, terminal>>
    BY <1>10 DEF Fault
  <2>2. CASE ~Exited /\ go' = [go EXCEPT !.pc = "exited", !.code = 137] /\ UNCHANGED <<node, stdout>>
    BY <1>0, <2>1, <2>2 DEF Exited, Moves, Onward, Opening, Ending, GoStates
  <2>3. CASE node' = [node EXCEPT !.pc = "dead"] /\ UNCHANGED <<go, stdout>>
    BY <1>0, <2>1, <2>3, StillMoves DEF NodeStates
  <2>4. CASE stdout' = [stdout EXCEPT !.queue = <<>>, !.failed = TRUE] /\ UNCHANGED <<go, node>>
    BY <2>1, <2>4 DEF Breaks
  <2> QED BY <1>10, <2>2, <2>3, <2>4 DEF Fault
<1> QED
  BY <1>1, <1>2, <1>3, <1>4, <1>5, <1>6, <1>7, <1>8, <1>9, <1>10
     DEF Next, GoSteps, LintWork, NodeSteps, HostSteps, ConfigWork

\* A line more on the terminal.
LEMMA TerminalGrows ==
    ASSUME terminal \in Seq(Lines), NEW e \in Lines, terminal' = Append(terminal, e)
    PROVE  /\ terminal' \in Seq(Lines) /\ terminal' # <<>>
           /\ Headed => Headed'
           /\ terminal = <<>> /\ e = Line("start", 0) => Headed'
           /\ \A k \in Printed("stderr")' : k \in Printed("stderr") \/ e.kind = "stderr"
           /\ \A k \in Printed("table")' : k \in Printed("table") \/ (e.kind = "table" /\ k = Len(terminal'))
           /\ \A a, b \in Nat : Prints(terminal, a, b) /\ e.kind # "report" => Prints(terminal', a, b)
           /\ \A a, b \in Nat : Prints(terminal, a, b) /\ e = Line("report", b + 1) => Prints(terminal', a, b + 1)
<1>1. /\ terminal' \in Seq(Lines) /\ terminal' # <<>>
      /\ Len(terminal') = Len(terminal) + 1
      /\ DOMAIN terminal' = 1 .. Len(terminal) + 1 /\ DOMAIN terminal = 1 .. Len(terminal) /\ Len(terminal) \in Nat
      /\ \A k \in 1 .. Len(terminal) : terminal'[k] = terminal[k]
      /\ terminal'[Len(terminal) + 1] = e
  BY AppendFacts
<1>2. Headed => Headed'
  BY <1>1 DEF Headed
<1>3. terminal = <<>> /\ e = Line("start", 0) => Headed'
  BY <1>1 DEF Headed
<1>4. \A k \in DOMAIN terminal' : \/ k \in DOMAIN terminal /\ terminal'[k] = terminal[k]
                                  \/ k = Len(terminal') /\ terminal'[k] = e
  BY <1>1
<1>5. \A k \in Printed("stderr")' : k \in Printed("stderr") \/ e.kind = "stderr"
  BY <1>4 DEF Printed
<1>6. \A k \in Printed("table")' : k \in Printed("table") \/ (e.kind = "table" /\ k = Len(terminal'))
  BY <1>4 DEF Printed
<1> QED BY <1>1, <1>2, <1>3, <1>5, <1>6, PrintsOther, PrintsNext

\* A frame more on the wire.
LEMMA WireGrows ==
    ASSUME toNode \in Seq(Frames), NEW e \in Frames, toNode' = Append(toNode, e)
    PROVE  /\ toNode' \in Seq(Frames)
           /\ Len(toNode') = Len(toNode) + 1 /\ Len(toNode) \in Nat /\ DOMAIN toNode = 1 .. Len(toNode)
           /\ \A k \in DOMAIN toNode' : \/ k \in DOMAIN toNode /\ toNode'[k] = toNode[k]
                                        \/ k = Len(toNode') /\ toNode'[k] = e
           /\ \A kind \in FrameKinds : Sent(kind)' => Sent(kind) \/ e.kind = kind
<1>1. /\ toNode' \in Seq(Frames)
      /\ Len(toNode') = Len(toNode) + 1
      /\ DOMAIN toNode' = 1 .. Len(toNode) + 1 /\ DOMAIN toNode = 1 .. Len(toNode) /\ Len(toNode) \in Nat
      /\ \A k \in 1 .. Len(toNode) : toNode'[k] = toNode[k]
      /\ toNode'[Len(toNode) + 1] = e
  BY AppendFacts
<1>2. \A k \in DOMAIN toNode' : \/ k \in DOMAIN toNode /\ toNode'[k] = toNode[k]
                                \/ k = Len(toNode') /\ toNode'[k] = e
  BY <1>1
<1>3. \A kind \in FrameKinds : Sent(kind)' => Sent(kind) \/ e.kind = kind
  BY <1>2 DEF Sent
<1> QED BY <1>1, <1>2, <1>3

\* The requests are frames without pieces.
LEMMA RequestFrame == \A k \in FrameKinds : Request(k) \in Frames /\ Request(k).kind = k
BY DEF Request, Frames

\* So are the lines the child and the start request print.
LEMMA LineKinds ==
    /\ \A kind \in {"start", "report", "stderr", "table"}, n \in Nat :
         Line(kind, n) \in Lines /\ Line(kind, n).kind = kind /\ Line(kind, n).n = n
    /\ \A kind \in {"start", "report"}, n \in Nat : Line(kind, n) \in QueueLines
    /\ QueueLines \subseteq Lines
BY DEF Line, Lines, QueueLines

\* A move keeps the queues well formed.
LEMMA MovesType == OutputType /\ Moves => OutputType'
<1> SUFFICES ASSUME OutputType, Moves PROVE OutputType'
  OBVIOUS
<1>1. terminal' \in Seq(Lines)
  BY TerminalGrows, LineKinds DEF OutputType, Moves
<1>2. toNode' \in Seq(Frames)
  <2>1. CASE toNode' = toNode
    BY <2>1 DEF OutputType
  <2>2. CASE \E k \in FrameKinds \ {"output"} : Posts(k)
    BY <2>2, RequestFrame, WireGrows DEF OutputType, Posts
  <2> QED BY <2>1, <2>2 DEF Moves
<1> QED BY <1>1, <1>2 DEF OutputType, Moves

\* It keeps what the place says.
LEMMA MovesPhase == PhaseInv /\ Moves => PhaseInv'
BY DEF PhaseInv, Moves, Onward, Opening, Ending, Drained

\* It keeps the report on its way.
LEMMA MovesFlow == OutputType /\ FlowInv /\ Moves => FlowInv'
<1> SUFFICES ASSUME OutputType, FlowInv, Moves PROVE FlowInv'
  OBVIOUS
<1>1. PICK q, f, p, u \in Nat : Flow(q, f, p, u)
  BY DEF FlowInv
<1>2. Prints(terminal', 0, q)
  <2>1. CASE terminal' = terminal
    BY <1>1, <2>1 DEF Flow
  <2>2. CASE \E kind \in {"stderr", "table"} : terminal' = Append(terminal, Line(kind, 0))
    <3>1. PICK kind \in {"stderr", "table"} : terminal' = Append(terminal, Line(kind, 0))
      BY <2>2
    <3>2. Line(kind, 0) \in Lines /\ Line(kind, 0).kind # "report"
      BY LineKinds
    <3> QED BY <1>1, <3>1, <3>2, TerminalGrows DEF Flow, OutputType
  <2> QED BY <2>1, <2>2 DEF Moves
<1>3. Framed(toNode, f, p) => Framed(toNode', f, p)
  <2>1. ASSUME NEW k \in FrameKinds \ {"output"}, Posts(k), Framed(toNode, f, p)
        PROVE  Framed(toNode', f, p)
    <3>1. Request(k) \in Frames /\ Request(k).kind # "output"
      BY RequestFrame
    <3> QED BY <2>1, <3>1, FramedAppend DEF Posts, OutputType
  <2> QED BY <2>1 DEF Moves
<1>4. Flow(q, f, p, u)'
  BY <1>1, <1>2, <1>3 DEF Flow, Moves
<1> QED BY <1>4 DEF FlowInv

\* What a move sends and prints.
LEMMA MovesSend ==
    ASSUME OutputType, PhaseInv, StartInv, EndInv, Moves
    PROVE  /\ Sent("output")' => Sent("output")
           /\ Sent("start")' => Sent("start") \/ (go.pc = "preflight" /\ go'.pc = "start")
           /\ Sent("shutdown")' => Sent("shutdown") \/ (go'.pc = "shutdown" /\ ~go.closed)
           /\ go.pc \in {"exited"} \cup Ending => toNode' = toNode
           /\ Headed => Headed'
           /\ terminal' = terminal \/ go.started \/ go.table
<1>1. CASE toNode' = toNode
  <2>1. \A kind : Sent(kind)' = Sent(kind)
    BY <1>1 DEF Sent
  <2> QED BY <1>1, <2>1, TerminalGrows, LineKinds DEF Moves, OutputType, Headed
<1>2. CASE \E k \in FrameKinds \ {"output"} : Posts(k)
  <2>1. PICK k \in FrameKinds \ {"output"} : Posts(k)
    BY <1>2
  <2>2. \A kind \in FrameKinds : Sent(kind)' => Sent(kind) \/ k = kind
    BY <2>1, RequestFrame, WireGrows DEF Posts, OutputType
  <2>3. {"start", "shutdown", "output"} \subseteq FrameKinds
    BY DEF FrameKinds, RequestKinds
  <2> QED BY <2>1, <2>2, <2>3, TerminalGrows, LineKinds DEF Moves, Posts, OutputType, Headed
<1> QED BY <1>1, <1>2 DEF Moves

\* A move keeps the start line first.
LEMMA MovesStart == OutputInv /\ Moves => StartInv'
<1> SUFFICES ASSUME OutputType, PhaseInv, StartInv, EndInv, Moves PROVE StartInv'
  BY DEF OutputInv
<1>1. /\ Sent("output")' => Sent("output")
      /\ Sent("start")' => Sent("start") \/ (go.pc = "preflight" /\ go'.pc = "start")
      /\ Headed => Headed'
      /\ terminal' = terminal \/ go.started \/ go.table
  BY MovesSend
<1>2. /\ UNCHANGED <<pipe, answers, stdout>> /\ node'.handling = node.handling
      /\ Told("start", TRUE)' = Told("start", TRUE) /\ Told("start", FALSE)' = Told("start", FALSE)
      /\ Drained' = Drained
  BY DEF Moves, Told, Drained
<1>3. StartPending' => StartPending \/ (go.pc = "preflight" /\ go'.pc = "start")
  BY <1>1, <1>2 DEF StartPending
<1>4. go'.pc \in Opening =>
         /\ terminal' = <<>> /\ stdout'.queue = <<>> /\ ~Sent("output")' /\ ~StartPending' /\ ~go'.started
         /\ ~Told("start", TRUE)' /\ ~Told("start", FALSE)'
  <2> SUFFICES ASSUME go'.pc \in Opening
               PROVE  /\ terminal' = <<>> /\ stdout'.queue = <<>> /\ ~Sent("output")' /\ ~StartPending' /\ ~go'.started
                      /\ ~Told("start", TRUE)' /\ ~Told("start", FALSE)'
    OBVIOUS
  <2>1. go.pc \in Opening /\ go'.pc # "start"
    BY DEF Moves, Onward, Opening
  <2>2. ~go.started /\ ~go.table
    BY <2>1 DEF StartInv, PhaseInv, Opening, Ending
  <2>3. ~go'.started
    BY <2>1, <2>2 DEF Moves, Opening
  <2> QED BY <1>1, <1>2, <1>3, <2>1, <2>2, <2>3 DEF StartInv
<1>5. StartPending' => /\ go'.pc \in {"start", "join", "drain", "exited"} \cup Ending
                       /\ ~Sent("output")' /\ ~Told("start", TRUE)' /\ ~Told("start", FALSE)'
                       /\ go'.chunks = 0 /\ Drained' /\ ~go'.started /\ ~go'.table
  <2>1. CASE StartPending
    <3>1. /\ go.pc \in {"start", "join", "drain", "exited"} \cup Ending
          /\ ~Sent("output") /\ ~Told("start", TRUE) /\ ~Told("start", FALSE)
          /\ go.chunks = 0 /\ Drained /\ ~go.started /\ ~go.table
      BY <2>1 DEF StartInv
    <3>2. go'.pc \in {"start", "join", "drain", "exited"} \cup Ending
      BY <3>1 DEF Moves, Onward
    <3>3. go'.chunks = 0 /\ ~go'.started /\ ~go'.table
      BY <3>1 DEF Moves, Ending
    <3> QED BY <1>1, <1>2, <3>1, <3>2, <3>3
  <2>2. CASE go.pc = "preflight" /\ go'.pc = "start"
    <3>1. ~Sent("output") /\ ~Told("start", TRUE) /\ ~Told("start", FALSE) /\ ~go.started
      BY <2>2 DEF StartInv, Opening
    <3>2. go.chunks = 0 /\ Drained /\ ~go.table
      BY <2>2 DEF PhaseInv, Ending
    <3>3. go'.chunks = 0 /\ ~go'.started /\ ~go'.table
      BY <2>2, <3>1, <3>2 DEF Moves
    <3> QED BY <1>1, <1>2, <2>2, <3>1, <3>2, <3>3
  <2> QED BY <1>3, <2>1, <2>2
<1>6. Sent("start")' =>
         /\ terminal' = <<>> /\ stdout'.queue = <<>> /\ "start" \notin node'.handling
         /\ \A j, k \in DOMAIN toNode' : toNode'[j].kind = "start" /\ toNode'[k].kind = "start" => j = k
  <2> SUFFICES ASSUME Sent("start")'
               PROVE  /\ terminal' = <<>> /\ stdout'.queue = <<>> /\ "start" \notin node'.handling
                      /\ \A j, k \in DOMAIN toNode' : toNode'[j].kind = "start" /\ toNode'[k].kind = "start" => j = k
    OBVIOUS
  <2>1. terminal = <<>> /\ stdout.queue = <<>> /\ "start" \notin node.handling
    BY <1>1 DEF StartInv, StartPending, Opening
  <2>2. ~go.started /\ ~go.table
    BY <1>1 DEF StartInv, StartPending, PhaseInv, Opening, Ending
  <2>3. \A j, k \in DOMAIN toNode : toNode[j].kind = "start" /\ toNode[k].kind = "start" => j = k
    BY <1>1 DEF StartInv, Sent
  <2>4. CASE toNode' = toNode
    BY <1>1, <1>2, <2>1, <2>2, <2>3, <2>4
  <2>5. CASE \E x \in FrameKinds \ {"output"} : Posts(x)
    <3>1. PICK x \in FrameKinds \ {"output"} : Posts(x)
      BY <2>5
    <3>2. \A k \in DOMAIN toNode' : \/ k \in DOMAIN toNode /\ toNode'[k] = toNode[k]
                                    \/ k = Len(toNode') /\ toNode'[k].kind = x
      BY <3>1, RequestFrame, WireGrows DEF Posts, OutputType
    <3>3. x = "start" => \A k \in DOMAIN toNode : toNode[k].kind # "start"
      BY <3>1 DEF Posts, StartInv, StartPending, Sent, Opening
    <3> QED BY <1>1, <1>2, <2>1, <2>2, <2>3, <3>2, <3>3
  <2> QED BY <2>4, <2>5 DEF Moves
<1>7. "start" \in node'.handling =>
         stdout'.failed \/ (terminal' = <<>> /\ stdout'.queue = <<Line("start", 0)>>) \/ Headed'
  BY <1>1, <1>2 DEF StartInv, StartPending
<1>8. Told("start", TRUE)' \/ go'.started => Headed'
  BY <1>1, <1>2 DEF Moves, StartInv
<1>9. Printed("stderr")' # {} => Headed'
  <2>1. CASE terminal' = terminal
    BY <1>1, <2>1 DEF StartInv, Printed
  <2>2. CASE terminal' = Append(terminal, Line("stderr", 0)) /\ go.started
    BY <1>1, <2>2 DEF StartInv
  <2>3. CASE terminal' = Append(terminal, Line("table", 0))
    <3>1. \A k \in Printed("stderr")' : k \in Printed("stderr")
      BY <2>3, TerminalGrows, LineKinds DEF OutputType
    <3> QED BY <1>1, <3>1 DEF StartInv
  <2> QED BY <2>1, <2>2, <2>3 DEF Moves
<1> QED BY <1>4, <1>5, <1>6, <1>7, <1>8, <1>9 DEF StartInv

\* A move keeps the shutdown last.
LEMMA MovesEnd == OutputInv /\ Moves /\ go.chunks \in Nat => EndInv'
<1> SUFFICES ASSUME OutputType, PhaseInv, StartInv, EndInv, Moves, go.chunks \in Nat PROVE EndInv'
  BY DEF OutputInv
<1>0. PhaseInv'
  BY MovesPhase
<1>1. /\ Sent("shutdown")' => Sent("shutdown") \/ (go'.pc = "shutdown" /\ ~go.closed)
      /\ go.pc \in {"exited"} \cup Ending => toNode' = toNode
  BY MovesSend
<1>2. /\ UNCHANGED <<pipe, answers, stdout>> /\ node'.handling = node.handling /\ go'.chunks = go.chunks
      /\ Told("shutdown", TRUE)' = Told("shutdown", TRUE)
      /\ Drained' = Drained
  BY DEF Moves, Told, Drained
<1>3. \A k \in DOMAIN toNode' : toNode'[k].kind = "shutdown" => k = Len(toNode')
  <2>1. CASE toNode' = toNode
    BY <2>1 DEF EndInv
  <2>2. CASE \E x \in FrameKinds \ {"output"} : Posts(x)
    <3>1. PICK x \in FrameKinds \ {"output"} : Posts(x)
      BY <2>2
    <3>2. \A k \in DOMAIN toNode' : \/ k \in DOMAIN toNode /\ toNode'[k] = toNode[k]
                                    \/ k = Len(toNode')
      BY <3>1, RequestFrame, WireGrows DEF Posts, OutputType
    <3>3. \A k \in DOMAIN toNode : toNode[k].kind # "shutdown"
      BY <3>1 DEF Posts, EndInv, Sent
    <3> QED BY <3>2, <3>3
  <2> QED BY <2>1, <2>2 DEF Moves
<1>4. "shutdown" \in node'.handling \/ Told("shutdown", TRUE)' => toNode' = <<>>
  BY <1>1, <1>2 DEF EndInv
<1>5. Sent("shutdown")' \/ "shutdown" \in node'.handling \/ Told("shutdown", TRUE)' =>
        go'.pc \in {"exited"} \cup Ending /\ Drained' /\ ~pipe'.discard
  <2>1. CASE Sent("shutdown") \/ "shutdown" \in node.handling \/ Told("shutdown", TRUE)
    <3>1. go.pc \in {"exited"} \cup Ending /\ Drained /\ ~pipe.discard
      BY <2>1 DEF EndInv
    <3>2. go'.pc \in {"exited"} \cup Ending
      BY <3>1 DEF Moves, Onward
    <3> QED BY <1>2, <3>1, <3>2
  <2>2. CASE go'.pc = "shutdown" /\ ~go.closed
    BY <1>0, <1>2, <2>2 DEF PhaseInv, Ending
  <2> QED BY <1>1, <1>2, <2>1, <2>2
<1>6. Told("shutdown", TRUE)' => stdout'.queue = <<>> /\ Prints(terminal', 0, go'.chunks)
  <2>1. Prints(terminal, 0, go.chunks) => Prints(terminal', 0, go.chunks)
    <3>1. CASE \E kind \in {"stderr", "table"} : terminal' = Append(terminal, Line(kind, 0))
      <4>1. PICK kind \in {"stderr", "table"} : terminal' = Append(terminal, Line(kind, 0))
        BY <3>1
      <4>2. Line(kind, 0) \in Lines /\ Line(kind, 0).kind # "report"
        BY LineKinds
      <4> QED BY <4>1, <4>2, TerminalGrows DEF OutputType
    <3> QED BY <3>1 DEF Moves
  <2> QED BY <1>2, <2>1 DEF EndInv
<1>7. go'.flushed => Told("shutdown", TRUE)'
  BY <1>2 DEF Moves, EndInv
<1>8. ASSUME NEW k \in Printed("table")'
      PROVE  k = Len(terminal') /\ go'.table /\ go'.flushed /\ go'.pc \in {"close", "exited"}
  <2>1. CASE terminal' = terminal
    <3>1. k \in Printed("table")
      BY <1>8, <2>1 DEF Printed
    <3>2. k = Len(terminal) /\ go.table /\ go.flushed /\ go.pc \in {"close", "exited"}
      BY <3>1 DEF EndInv
    <3> QED BY <2>1, <3>2 DEF Moves, Onward
  <2>2. CASE terminal' = Append(terminal, Line("stderr", 0)) /\ go.pc \notin Opening \cup {"drain", "exited"} \cup Ending
    <3>1. k \in Printed("table")
      BY <1>8, <2>2, TerminalGrows, LineKinds DEF OutputType
    <3> QED BY <2>2, <3>1 DEF EndInv, Ending
  <2>3. CASE terminal' = Append(terminal, Line("table", 0)) /\ go.table /\ go.flushed /\ go.pc = "end" /\ go'.pc = "close"
    <3>1. k \in Printed("table") \/ k = Len(terminal')
      BY <1>8, <2>3, TerminalGrows, LineKinds DEF OutputType
    <3>2. k \notin Printed("table")
      BY <2>3 DEF EndInv
    <3> QED BY <2>3, <3>1, <3>2 DEF Moves
  <2> QED BY <2>1, <2>2, <2>3 DEF Moves
<1> QED BY <1>3, <1>4, <1>5, <1>6, <1>7, <1>8 DEF EndInv

\* An answer says what is true of the output: the start line is on the terminal, or all of the
\* report is.
LEMMA AnswersOutput ==
    ASSUME SessionType, OutputInv, NEW of \in RequestKinds, NEW ok \in BOOLEAN, Answers(of, ok)
    PROVE  OutputInv'
<1>0. OutputType /\ FlowInv /\ PhaseInv /\ StartInv /\ EndInv /\ node \in NodeStates /\ go.chunks \in Nat
  BY DEF OutputInv, SessionType, GoStates
<1>1. UNCHANGED <<go, pipe, toNode, stdout, terminal>> /\ of \in node.handling
  BY DEF Answers
<1>2. node'.handling = node.handling \ {of}
  BY <1>0 DEF Answers, Reply, NodeStates
<1>3. /\ Told("start", TRUE)' => Told("start", TRUE) \/ (of = "start" /\ ok)
      /\ Told("start", FALSE)' => Told("start", FALSE) \/ of = "start"
      /\ Told("shutdown", TRUE)' => Told("shutdown", TRUE) \/ (of = "shutdown" /\ ok)
  <2>1. answers' \subseteq answers \cup {[of |-> of, ok |-> ok]}
    BY DEF Answers, Reply
  <2>2. \A k, x : [of |-> k, ok |-> x] = [of |-> of, ok |-> ok] => k = of /\ x = ok
    OBVIOUS
  <2> QED BY <2>1, <2>2, ZenonT(60) DEF Told
<1>4. /\ Told("start", TRUE) => Told("start", TRUE)'
      /\ Told("start", FALSE) => Told("start", FALSE)'
      /\ Told("shutdown", TRUE) => Told("shutdown", TRUE)'
  BY DEF Answers, Reply, Told
<1>5. OutputType' /\ FlowInv' /\ PhaseInv'
  BY <1>0, <1>1 DEF OutputType, FlowInv, Flow, PhaseInv, Drained
<1>6. /\ \A kind : Sent(kind)' = Sent(kind) /\ Printed(kind)' = Printed(kind)
      /\ Headed' = Headed /\ Drained' = Drained
  BY <1>1 DEF Sent, Printed, Headed, Drained
<1>7. StartInv'
  <2>1. StartPending' => StartPending /\ of # "start"
    BY <1>0, <1>1, <1>2, <1>6 DEF StartPending, StartInv
  <2>2. of # "start" => (Told("start", TRUE)' <=> Told("start", TRUE)) /\ (Told("start", FALSE)' <=> Told("start", FALSE))
    BY <1>3, <1>4
  <2>3. go.pc \in Opening => of # "start"
    BY <1>0, <1>1 DEF StartInv, StartPending
  <2>4. of = "start" /\ ok => Headed
    <3> SUFFICES ASSUME of = "start", ok PROVE Headed
      OBVIOUS
    <3>1. ~stdout.failed /\ stdout.queue = <<>>
      BY DEF Answers, Flushed
    <3> QED BY <1>0, <1>1, <3>1 DEF StartInv
  <2>5. Told("start", TRUE)' => Headed
    BY <1>0, <1>3, <2>4 DEF StartInv
  <2> QED BY <1>0, <1>1, <1>2, <1>6, <2>1, <2>2, <2>3, <2>5 DEF StartInv
<1>8. EndInv'
  <2>1. Told("shutdown", TRUE)' => Told("shutdown", TRUE) \/ (of = "shutdown" /\ ok)
    BY <1>3
  <2>2. ASSUME of = "shutdown", ok
        PROVE  stdout.queue = <<>> /\ Prints(terminal, 0, go.chunks)
    <3>1. stdout.queue = <<>> /\ ~stdout.failed
      BY <2>2 DEF Answers, Flushed
    <3>2. toNode = <<>> /\ Drained /\ ~pipe.discard
      BY <1>0, <1>1, <2>2 DEF EndInv
    <3>3. PICK q, f, p, u \in Nat : Flow(q, f, p, u)
      BY <1>0 DEF FlowInv
    <3>4. q = f
      BY <3>1, <3>3, PrintsNone DEF Flow
    <3>5. f = p
      BY <3>1, <3>2, <3>3, FramedNone DEF Flow
    <3>6. p <= u /\ u <= go.chunks /\ Chunks(p, u) = <<>> /\ Chunks(u, go.chunks) = <<>>
      BY <3>2, <3>3 DEF Flow, Drained
    <3>7. p = u /\ u = go.chunks
      BY <1>0, <3>6, ChunksEmpty
    <3> QED BY <3>1, <3>3, <3>4, <3>5, <3>7 DEF Flow
  <2>3. Told("shutdown", TRUE) => Told("shutdown", TRUE)'
    BY <1>4
  <2> QED BY <1>0, <1>1, <1>2, <1>6, <2>1, <2>2, <2>3 DEF EndInv
<1> QED BY <1>5, <1>7, <1>8 DEF OutputInv

\* A piece of the report enters the redirected stdout.
LEMMA WritesOutput == SessionType /\ OutputInv /\ Writes => OutputInv'
<1> SUFFICES ASSUME SessionType, OutputInv, Writes PROVE OutputInv'
  OBVIOUS
<1>0. OutputType /\ FlowInv /\ PhaseInv /\ StartInv /\ EndInv /\ go \in GoStates /\ go.chunks \in Nat
  BY DEF OutputInv, SessionType, GoStates
<1>1. /\ go.pc = "report" /\ go'.pc = "report" /\ go'.chunks = go.chunks + 1
      /\ go'.reply = go.reply /\ go'.closed = go.closed /\ go'.table = go.table /\ go'.started = go.started
      /\ go'.flushed = go.flushed
  BY <1>0 DEF Writes, GoStates
<1>2. /\ pipe'.unread = Append(pipe.unread, go.chunks + 1)
      /\ pipe'.pending = pipe.pending /\ pipe'.discard = pipe.discard
      /\ pipe' \in PipeStates
  <2>1. Append(pipe.unread, go.chunks + 1) \in Seq(Nat)
    BY <1>0, AppendFacts DEF OutputType, PipeStates
  <2> QED BY <1>0, <2>1 DEF Writes, OutputType, PipeStates
<1>3. UNCHANGED <<toNode, answers, node, stdout, terminal>>
  BY DEF Writes
<1>4. /\ \A kind : Sent(kind)' = Sent(kind) /\ Printed(kind)' = Printed(kind)
      /\ \A kind, x : Told(kind, x)' = Told(kind, x)
      /\ Headed' = Headed /\ StartPending' = StartPending
  BY <1>3 DEF Sent, Printed, Told, Headed, StartPending
<1>5. OutputType'
  BY <1>0, <1>2, <1>3 DEF OutputType
<1>6. PhaseInv'
  BY <1>0, <1>1, <1>2 DEF PhaseInv, Ending
<1>7. FlowInv'
  <2>1. PICK q, f, p, u \in Nat : Flow(q, f, p, u)
    BY <1>0 DEF FlowInv
  <2>2. ASSUME ~pipe.discard
        PROVE  pipe'.unread = Chunks(u, go'.chunks) /\ u <= go'.chunks
    <3>1. pipe.unread = Chunks(u, go.chunks) /\ u <= go.chunks
      BY <2>1, <2>2 DEF Flow
    <3>2. Append(Chunks(u, go.chunks), go.chunks + 1) = Chunks(u, go.chunks + 1)
      BY <1>0, <3>1, ChunksGrow
    <3> QED BY <1>0, <1>1, <1>2, <3>1, <3>2
  <2>3. Flow(q, f, p, u)'
    BY <1>2, <1>3, <2>1, <2>2 DEF Flow
  <2> QED BY <2>3 DEF FlowInv
<1>8. StartInv'
  BY <1>0, <1>1, <1>3, <1>4 DEF StartInv, Opening, Ending
<1>9. EndInv'
  BY <1>0, <1>1, <1>3, <1>4 DEF EndInv, Ending
<1> QED BY <1>5, <1>6, <1>7, <1>8, <1>9 DEF OutputInv

\* What flush makes of the pieces read so far: the next frame, or nothing on a closed channel.
LEMMA FlushFlow ==
    ASSUME OutputType, PhaseInv, NEW r \in PipeStates,
           r.discard = pipe.discard, Flush(r), UNCHANGED <<go, stdout, terminal>>,
           NEW q \in Nat, NEW f \in Nat, NEW p \in Nat, NEW u \in Nat, go.chunks \in Nat,
           Prints(terminal, 0, q), Prints(stdout.queue, q, f), ~stdout.failed => Framed(toNode, f, p),
           ~r.discard => /\ p <= u /\ u <= go.chunks
                         /\ r.pending = Chunks(p, u) /\ r.unread = Chunks(u, go.chunks)
    PROVE  /\ OutputType' /\ FlowInv' /\ (pipe'.discard => go.closed)
           /\ \/ toNode' = toNode
              \/ \E e \in Frames : e.kind = "output" /\ toNode' = Append(toNode, e)
<1>1. /\ pipe'.unread = r.unread /\ pipe'.pending = <<>> /\ (pipe'.discard <=> r.discard \/ go.closed)
      /\ pipe' \in PipeStates
  <2>1. (r.discard \/ go.closed) \in BOOLEAN /\ <<>> \in Seq(Nat)
    OBVIOUS
  <2>2. pipe' = [r EXCEPT !.pending = <<>>, !.discard = r.discard \/ go.closed]
    BY DEF Flush
  <2>3. pipe' = [unread |-> r.unread, pending |-> <<>>, discard |-> (r.discard \/ go.closed)]
    BY <2>2, ZenonT(60) DEF PipeStates
  <2>4. pipe' \in PipeStates
    BY <2>1, <2>3, ZenonT(60) DEF PipeStates
  <2> QED BY <2>3, <2>4
<1>2. pipe'.discard => go.closed
  BY <1>1 DEF PhaseInv
<1>3. CASE r.pending = <<>> \/ r.discard \/ go.closed
  <2>1. toNode' = toNode
    BY <1>3 DEF Flush
  <2>2. OutputType'
    BY <1>1, <2>1 DEF OutputType
  <2>3. ~pipe'.discard => p = u
    <3> SUFFICES ASSUME ~pipe'.discard PROVE p = u
      OBVIOUS
    <3>1. p <= u /\ Chunks(p, u) = <<>>
      BY <1>1, <1>3
    <3> QED BY <3>1, ChunksEmpty
  <2>4. \A x \in Nat : Chunks(x, x) = <<>>
    BY ChunksNone
  <2>5. Flow(q, f, p, u)'
    BY <1>1, <2>1, <2>3, <2>4 DEF Flow
  <2> QED BY <1>2, <2>1, <2>2, <2>5 DEF FlowInv
<1>4. CASE ~(r.pending = <<>> \/ r.discard \/ go.closed)
  <2> DEFINE e == [kind |-> "output", chunks |-> r.pending]
  <2>1. e \in Frames /\ e.kind = "output" /\ e.chunks = Chunks(p, u) /\ p <= u /\ u <= go.chunks
    BY <1>4 DEF Frames, FrameKinds, PipeStates
  <2>2. toNode' = Append(toNode, e)
    BY <1>4 DEF Flush
  <2> HIDE DEF e
  <2>3. ~stdout.failed => Framed(toNode', f, u)
    BY <2>1, <2>2, FramedAppend DEF OutputType
  <2>4. Chunks(u, u) = <<>>
    BY ChunksNone
  <2>5. Flow(q, f, u, u)'
    BY <1>1, <1>4, <2>1, <2>3, <2>4 DEF Flow
  <2>6. OutputType'
    BY <1>1, <2>1, <2>2, WireGrows DEF OutputType
  <2> QED BY <1>2, <2>1, <2>2, <2>5, <2>6 DEF FlowInv
<1> QED BY <1>3, <1>4

\* The drain moves pieces from the redirected stdout to frames.
LEMMA DrainOutput == SessionType /\ OutputInv /\ (DrainReads \/ FinalFlush) => OutputInv'
<1> SUFFICES ASSUME SessionType, OutputInv, DrainReads \/ FinalFlush PROVE OutputInv'
  OBVIOUS
<1>0. OutputType /\ FlowInv /\ PhaseInv /\ StartInv /\ EndInv /\ go.chunks \in Nat
  BY DEF OutputInv, SessionType, GoStates
<1>1. /\ UNCHANGED <<go, answers, node, stdout, terminal>> /\ ~Drained
      /\ go.pc \in {"report", "drain"}
  BY <1>0 DEF DrainReads, FinalFlush, Drained, PhaseInv, Exited, engine
<1>2. PICK q, f, p, u \in Nat : Flow(q, f, p, u)
  BY <1>0 DEF FlowInv
<1>3. /\ OutputType' /\ FlowInv' /\ (pipe'.discard => go.closed)
      /\ \/ toNode' = toNode
         \/ \E e \in Frames : e.kind = "output" /\ toNode' = Append(toNode, e)
  <2>1. CASE FinalFlush
    <3>1. Flush(pipe) /\ pipe \in PipeStates
      BY <1>0, <2>1 DEF FinalFlush, OutputType
    <3> QED BY <1>0, <1>1, <1>2, <3>1, FlushFlow DEF Flow
  <2>2. CASE DrainReads
    <3> DEFINE r == [pipe EXCEPT !.unread = Tail(@), !.pending = Append(@, Head(pipe.unread))]
    <3>1. pipe.unread # <<>> /\ (Flush(r) \/ (pipe' = r /\ toNode' = toNode))
      BY <2>2 DEF DrainReads
    <3>2. pipe.unread \in Seq(Nat) /\ Head(pipe.unread) \in Nat /\ Tail(pipe.unread) \in Seq(Nat)
      BY <1>0, <3>1, TailFacts DEF OutputType, PipeStates
    <3>3. /\ r \in PipeStates
          /\ r.unread = Tail(pipe.unread) /\ r.pending = Append(pipe.pending, Head(pipe.unread))
          /\ r.discard = pipe.discard
      <4>1. Append(pipe.pending, Head(pipe.unread)) \in Seq(Nat)
        BY <1>0, <3>2, AppendFacts DEF OutputType, PipeStates
      <4> QED BY <1>0, <3>2, <4>1 DEF OutputType, PipeStates
    <3> HIDE DEF r
    <3>4. ASSUME ~pipe.discard
          PROVE  /\ p <= u + 1 /\ u + 1 <= go.chunks
                 /\ r.pending = Chunks(p, u + 1) /\ r.unread = Chunks(u + 1, go.chunks)
      <4>1. p <= u /\ u <= go.chunks /\ pipe.pending = Chunks(p, u) /\ pipe.unread = Chunks(u, go.chunks)
        BY <1>2, <3>4 DEF Flow
      <4>2. u < go.chunks
        BY <1>0, <3>1, <4>1, ChunksNone
      <4>3. Head(pipe.unread) = u + 1 /\ Tail(pipe.unread) = Chunks(u + 1, go.chunks)
        <5>1. Head(Chunks(u, go.chunks)) = u + 1 /\ Tail(Chunks(u, go.chunks)) = Chunks(u + 1, go.chunks)
          BY <1>0, <4>1, <4>2, ChunksFacts
        <5> QED BY <4>1, <5>1
      <4>4. Append(pipe.pending, u + 1) = Chunks(p, u + 1)
        <5>1. Append(Chunks(p, u), u + 1) = Chunks(p, u + 1)
          BY <4>1, ChunksGrow
        <5> QED BY <4>1, <5>1
      <4> QED BY <1>0, <3>3, <4>1, <4>2, <4>3, <4>4
    <3>5. u + 1 \in Nat /\ Prints(terminal, 0, q) /\ Prints(stdout.queue, q, f) /\ (~stdout.failed => Framed(toNode, f, p))
      BY <1>2 DEF Flow
    <3>6. CASE Flush(r)
      BY <1>0, <1>1, <3>3, <3>4, <3>5, <3>6, FlushFlow
    <3>7. CASE pipe' = r /\ toNode' = toNode
      <4>1. Flow(q, f, p, u + 1)'
        BY <1>1, <3>3, <3>4, <3>5, <3>7 DEF Flow
      <4>2. OutputType'
        BY <1>0, <1>1, <3>3, <3>7 DEF OutputType
      <4>3. pipe'.discard => go.closed
        BY <1>0, <3>3, <3>7 DEF PhaseInv
      <4> QED BY <3>5, <3>7, <4>1, <4>2, <4>3 DEF FlowInv
    <3> QED BY <3>1, <3>6, <3>7
  <2> QED BY <2>1, <2>2
<1>4. PhaseInv'
  BY <1>0, <1>1, <1>3 DEF PhaseInv, Ending
<1>5. /\ \A kind \in FrameKinds \ {"output"} : Sent(kind)' => Sent(kind)
      /\ \A kind : Printed(kind)' = Printed(kind)
      /\ \A kind, x : Told(kind, x)' = Told(kind, x)
      /\ Headed' = Headed
  <2>1. \A kind \in FrameKinds \ {"output"} : Sent(kind)' => Sent(kind)
    <3>1. CASE toNode' = toNode
      BY <3>1 DEF Sent
    <3>2. CASE \E e \in Frames : e.kind = "output" /\ toNode' = Append(toNode, e)
      BY <1>0, <3>2, WireGrows DEF OutputType
    <3> QED BY <1>3, <3>1, <3>2
  <2> QED BY <1>1, <2>1 DEF Printed, Told, Headed
<1>6. ~Sent("start")' /\ ~StartPending' /\ ~Sent("shutdown")' /\ "shutdown" \notin node.handling /\ ~Told("shutdown", TRUE)
  <2>1. {"start", "shutdown"} \subseteq FrameKinds \ {"output"}
    BY DEF FrameKinds, RequestKinds
  <2>2. ~StartPending /\ ~Sent("shutdown") /\ "shutdown" \notin node.handling /\ ~Told("shutdown", TRUE)
    BY <1>0, <1>1 DEF StartInv, EndInv
  <2> QED BY <1>1, <1>5, <2>1, <2>2 DEF StartPending
<1>7. StartInv'
  BY <1>0, <1>1, <1>5, <1>6 DEF StartInv, StartPending, Opening
<1>8. \A k \in DOMAIN toNode' : toNode'[k].kind # "shutdown"
  BY <1>6 DEF Sent
<1>9. EndInv'
  BY <1>0, <1>1, <1>5, <1>6, <1>8 DEF EndInv, Ending
<1> QED BY <1>3, <1>4, <1>7, <1>9 DEF OutputInv

\* The destination takes the oldest line of the stream, or the stream breaks.
LEMMA StreamOutput == OutputInv /\ (StdoutWrites \/ Breaks) => OutputInv'
<1> SUFFICES ASSUME OutputInv, StdoutWrites \/ Breaks PROVE OutputInv'
  OBVIOUS
<1>0. OutputType /\ FlowInv /\ PhaseInv /\ StartInv /\ EndInv
  BY DEF OutputInv
<1>1. UNCHANGED <<go, pipe, toNode, answers, node>>
  BY DEF StdoutWrites, Breaks
<1>2. PICK q, f, p, u \in Nat : Flow(q, f, p, u)
  BY <1>0 DEF FlowInv
<1>3. PhaseInv' /\ (\A kind : Sent(kind)' = Sent(kind)) /\ StartPending' = StartPending /\ Drained' = Drained
  BY <1>0, <1>1 DEF PhaseInv, Sent, StartPending, Drained
<1>4. \A kind, x : Told(kind, x)' = Told(kind, x)
  BY <1>1 DEF Told
<1>5. CASE StdoutWrites
  <2> DEFINE e == Head(stdout.queue)
  <2>1. stdout.queue # <<>> /\ stdout.queue \in Seq(QueueLines) /\ stdout.queue \in Seq(Lines) /\ terminal' = Append(terminal, e)
    BY <1>0, <1>5, LineKinds DEF StdoutWrites, OutputType
  <2>2. /\ e \in QueueLines /\ e \in Lines /\ Tail(stdout.queue) \in Seq(QueueLines)
        /\ e = stdout.queue[1]
    BY <2>1, TailFacts
  <2>3. /\ stdout'.queue = Tail(stdout.queue) /\ stdout'.failed = stdout.failed
        /\ stdout' \in [queue : Seq(QueueLines), accepting : BOOLEAN, failed : BOOLEAN]
    BY <1>0, <1>5, <2>2 DEF StdoutWrites, OutputType
  <2>4. e.kind \in {"start", "report"}
    BY <2>2 DEF QueueLines
  <2> HIDE DEF e
  <2>5. OutputType'
    BY <1>0, <1>1, <2>1, <2>2, <2>3, TerminalGrows DEF OutputType
  <2>6. Headed => Headed'
    BY <1>0, <2>1, <2>2, TerminalGrows DEF OutputType
  <2>7. FlowInv'
    <3>1. Prints(terminal, 0, q) /\ Prints(stdout.queue, q, f)
      BY <1>2 DEF Flow
    <3>2. CASE e.kind = "report"
      <4>1. e = Line("report", q + 1) /\ Prints(stdout'.queue, q + 1, f)
        BY <2>1, <2>3, <3>1, <3>2, PrintsHead DEF e
      <4>2. Prints(terminal', 0, q + 1)
        BY <1>0, <2>1, <2>2, <3>1, <4>1, TerminalGrows DEF OutputType
      <4>3. Flow(q + 1, f, p, u)'
        BY <1>1, <1>2, <2>3, <4>1, <4>2 DEF Flow
      <4> QED BY <4>3 DEF FlowInv
    <3>3. CASE e.kind # "report"
      <4>1. Prints(stdout'.queue, q, f)
        BY <2>1, <2>3, <3>1, <3>3, PrintsHead DEF e
      <4>2. Prints(terminal', 0, q)
        BY <1>0, <2>1, <2>2, <3>1, <3>3, TerminalGrows DEF OutputType
      <4>3. Flow(q, f, p, u)'
        BY <1>1, <1>2, <2>3, <4>1, <4>2 DEF Flow
      <4> QED BY <4>3 DEF FlowInv
    <3> QED BY <3>2, <3>3
  <2>8. \A k \in Printed("stderr")' : k \in Printed("stderr")
    BY <1>0, <2>1, <2>2, <2>4, TerminalGrows DEF OutputType
  <2>9. ~Told("shutdown", TRUE)
    BY <1>0, <2>1 DEF EndInv
  <2>10. \A k \in Printed("table")' : k \in Printed("table")
    BY <1>0, <2>1, <2>2, <2>4, TerminalGrows DEF OutputType
  <2>11. Printed("table")' = {}
    BY <1>0, <2>9, <2>10 DEF EndInv
  <2>12. stdout.queue = <<Line("start", 0)>> /\ terminal = <<>> => Headed'
    <3>1. stdout.queue = <<Line("start", 0)>> => e = Line("start", 0)
      BY <2>2
    <3> QED BY <1>0, <2>1, <2>2, <3>1, TerminalGrows DEF OutputType
  <2>13. StartInv'
    <3>1. go.pc \notin Opening /\ ~Sent("start")
      BY <1>0, <2>1 DEF StartInv
    <3> QED BY <1>0, <1>1, <1>3, <1>4, <2>3, <2>6, <2>8, <2>12, <3>1 DEF StartInv
  <2>14. EndInv'
    BY <1>0, <1>1, <1>3, <1>4, <2>9, <2>11 DEF EndInv
  <2> QED BY <1>3, <2>5, <2>7, <2>13, <2>14 DEF OutputInv
<1>6. CASE Breaks
  <2>1. terminal' = terminal
    BY <1>6 DEF Breaks
  <2>2. /\ stdout'.queue = <<>> /\ stdout'.failed
        /\ stdout' \in [queue : Seq(QueueLines), accepting : BOOLEAN, failed : BOOLEAN]
    <3>1. <<>> \in Seq(QueueLines)
      OBVIOUS
    <3>2. stdout' = [stdout EXCEPT !.queue = <<>>, !.failed = TRUE]
      BY <1>6 DEF Breaks
    <3>3. stdout \in [queue : Seq(QueueLines), accepting : BOOLEAN, failed : BOOLEAN]
      BY <1>0 DEF OutputType
    <3> QED BY <3>1, <3>2, <3>3, ZenonT(60)
  <2>3. OutputType'
    BY <1>0, <1>1, <2>1, <2>2 DEF OutputType
  <2>4. Prints(<<>>, q, q)
    BY PrintsNone
  <2>5. Flow(q, q, p, u)'
    BY <1>1, <1>2, <2>1, <2>2, <2>4 DEF Flow
  <2>6. Headed' = Headed /\ (\A kind : Printed(kind)' = Printed(kind))
    BY <2>1 DEF Headed, Printed
  <2>7. StartInv'
    BY <1>0, <1>1, <1>3, <1>4, <2>1, <2>2, <2>6 DEF StartInv
  <2>8. EndInv'
    BY <1>0, <1>1, <1>3, <1>4, <2>1, <2>2, <2>6 DEF EndInv
  <2> QED BY <1>3, <2>3, <2>5, <2>7, <2>8 DEF OutputInv, FlowInv
<1> QED BY <1>5, <1>6

\* What is on the wire once its first frame is read.
LEMMA WireShrinks ==
    ASSUME toNode \in Seq(Frames), toNode # <<>>, toNode' = Tail(toNode)
    PROVE  /\ toNode' \in Seq(Frames) /\ Head(toNode) \in Frames
           /\ Len(toNode') = Len(toNode) - 1 /\ Len(toNode) \in Nat /\ Len(toNode) >= 1
           /\ DOMAIN toNode = 1 .. Len(toNode) /\ Head(toNode) = toNode[1]
           /\ \A k \in DOMAIN toNode' : k \in Nat /\ k + 1 \in DOMAIN toNode /\ toNode'[k] = toNode[k + 1]
           /\ \A kind : Sent(kind)' => Sent(kind)
           /\ Sent(Head(toNode).kind)
           /\ Len(toNode) = 1 => toNode' = <<>>
<1>1. /\ toNode' \in Seq(Frames) /\ Head(toNode) \in Frames
      /\ Len(toNode') = Len(toNode) - 1 /\ Len(toNode) \in Nat /\ Len(toNode) >= 1
      /\ DOMAIN toNode = 1 .. Len(toNode) /\ Head(toNode) = toNode[1]
      /\ DOMAIN toNode' = 1 .. Len(toNode) - 1
      /\ \A k \in 1 .. Len(toNode) - 1 : toNode'[k] = toNode[k + 1]
  BY TailFacts
<1>2. \A k \in DOMAIN toNode' : k \in Nat /\ k + 1 \in DOMAIN toNode /\ toNode'[k] = toNode[k + 1]
  BY <1>1
<1>3. \A kind : Sent(kind)' => Sent(kind)
  BY <1>2 DEF Sent
<1>4. Sent(Head(toNode).kind)
  BY <1>1 DEF Sent
<1>5. Len(toNode) = 1 => toNode' = <<>>
  BY <1>1
<1> QED BY <1>1, <1>2, <1>3, <1>4, <1>5

\* What reading a frame does to the output.
Takes(f) ==
    /\ toNode # <<>> /\ f = Head(toNode) /\ toNode' = Tail(toNode)
    /\ UNCHANGED <<go, pipe, terminal>>
    /\ \A x \in BOOLEAN : (Told("start", x)' <=> Told("start", x)) /\ (Told("shutdown", x)' <=> Told("shutdown", x))
    /\ \/ /\ f.kind \notin {"start", "output", "shutdown"} /\ UNCHANGED stdout
          /\ \A k \in {"start", "shutdown"} : k \in node'.handling <=> k \in node.handling
       \/ /\ f.kind = "start" /\ Write(<<Line("start", 0)>>)
          /\ node'.handling = node.handling \cup {"start"}
       \/ /\ f.kind = "output" /\ Write([i \in DOMAIN f.chunks |-> Line("report", f.chunks[i])])
          /\ node'.handling = node.handling
       \/ /\ f.kind = "shutdown" /\ stdout' = [stdout EXCEPT !.accepting = FALSE]
          /\ node'.handling = node.handling \cup {"shutdown"}

\* It is one of these.
LEMMA ReadTakes ==
    ASSUME node \in NodeStates, ReadFrame
    PROVE  Takes(Head(toNode))
<1> DEFINE f == Head(toNode)
<1>1. toNode # <<>> /\ toNode' = Tail(toNode) /\ UNCHANGED <<go, pipe, terminal>>
  BY DEF ReadFrame
<1>2. ASSUME answers' = answers
      PROVE  \A x \in BOOLEAN : (Told("start", x)' <=> Told("start", x)) /\ (Told("shutdown", x)' <=> Told("shutdown", x))
  BY <1>2 DEF Told
<1>3. ASSUME NEW k \in {"load", "prepare", "activate", "join"}, Reply(k, FALSE)
      PROVE  /\ \A x \in BOOLEAN : (Told("start", x)' <=> Told("start", x)) /\ (Told("shutdown", x)' <=> Told("shutdown", x))
             /\ node'.handling = node.handling \ {k}
  <2>1. answers' \subseteq answers \cup {[of |-> k, ok |-> FALSE]} /\ answers \subseteq answers'
    BY <1>3 DEF Reply
  <2>2. \A w \in {"start", "shutdown"}, x \in BOOLEAN : [of |-> w, ok |-> x] # [of |-> k, ok |-> FALSE]
    <3>1. \A w, x : [of |-> w, ok |-> x] = [of |-> k, ok |-> FALSE] => w = k
      OBVIOUS
    <3>2. k # "start" /\ k # "shutdown"
      OBVIOUS
    <3> QED BY <3>1, <3>2, Zenon
  <2>3. \A x \in BOOLEAN : (Told("start", x)' <=> Told("start", x)) /\ (Told("shutdown", x)' <=> Told("shutdown", x))
    BY <2>1, <2>2, ZenonT(60) DEF Told
  <2> QED BY <1>3, <2>3 DEF Reply, NodeStates
<1>4. ASSUME NEW k, node' = [node EXCEPT !.handling = @ \cup {k}]
      PROVE  node'.handling = node.handling \cup {k}
  BY <1>4 DEF NodeStates
<1>5. node' = [node EXCEPT !.pc = IF @ = "init" THEN "wait" ELSE @] => node'.handling = node.handling
  BY DEF NodeStates
<1> HIDE DEF f
<1>6. CASE f.kind = "ok" /\ node' = [node EXCEPT !.pc = IF @ = "init" THEN "wait" ELSE @] /\ UNCHANGED <<answers, act, stdout>>
  BY <1>1, <1>2, <1>5, <1>6 DEF Takes, f
<1>7. CASE \E k \in {"load", "prepare", "activate", "join"} :
             f.kind = k /\ UNCHANGED stdout /\ (Reply(k, FALSE) \/ (node' = [node EXCEPT !.handling = @ \cup {k}] /\ UNCHANGED answers))
  <2>1. PICK k \in {"load", "prepare", "activate", "join"} :
             f.kind = k /\ UNCHANGED stdout /\ (Reply(k, FALSE) \/ (node' = [node EXCEPT !.handling = @ \cup {k}] /\ UNCHANGED answers))
    BY <1>7
  <2>2. /\ \A x \in BOOLEAN : (Told("start", x)' <=> Told("start", x)) /\ (Told("shutdown", x)' <=> Told("shutdown", x))
        /\ node'.handling = node.handling \ {k} \/ node'.handling = node.handling \cup {k}
    BY <1>2, <1>3, <1>4, <2>1
  <2>3. \A w \in {"start", "shutdown"} : w \in node'.handling <=> w \in node.handling
    BY <2>2
  <2> QED BY <1>1, <2>1, <2>2, <2>3 DEF Takes, f
<1>8. CASE f.kind = "pluginLint" /\ node' = [node EXCEPT !.handling = @ \cup {"pluginLint"}] /\ UNCHANGED <<answers, act, stdout>>
  <2>1. node'.handling = node.handling \cup {"pluginLint"}
    BY <1>4, <1>8
  <2>2. \A w \in {"start", "shutdown"} : w \in node'.handling <=> w \in node.handling
    BY <2>1
  <2> QED BY <1>1, <1>2, <1>8, <2>2 DEF Takes, f
<1>9. CASE f.kind = "start" /\ Write(<<Line("start", 0)>>) /\ node' = [node EXCEPT !.handling = @ \cup {"start"}] /\ UNCHANGED answers
  BY <1>1, <1>2, <1>4, <1>9 DEF Takes, f
<1>10. CASE f.kind = "output" /\ Write([i \in DOMAIN f.chunks |-> Line("report", f.chunks[i])]) /\ UNCHANGED <<answers, node>>
  BY <1>1, <1>2, <1>10 DEF Takes, f
<1>11. CASE /\ f.kind = "shutdown" /\ stdout' = [stdout EXCEPT !.accepting = FALSE]
            /\ node' = [node EXCEPT !.handling = @ \cup {"shutdown"}] /\ UNCHANGED answers
  BY <1>1, <1>2, <1>4, <1>11 DEF Takes, f
<1> QED BY <1>6, <1>7, <1>8, <1>9, <1>10, <1>11 DEF ReadFrame, f

\* What Node's stream takes in: the lines behind what it holds, or nothing ever again.
LEMMA WriteFacts ==
    ASSUME OutputType, NEW lines \in Seq(QueueLines), Write(lines)
    PROVE  /\ stdout' \in [queue : Seq(QueueLines), accepting : BOOLEAN, failed : BOOLEAN]
           /\ \/ ~stdout.failed /\ ~stdout'.failed /\ stdout'.queue = stdout.queue \o lines
              \/ stdout'.failed /\ stdout'.queue = stdout.queue
<1>1. stdout \in [queue : Seq(QueueLines), accepting : BOOLEAN, failed : BOOLEAN]
  BY DEF OutputType
<1>2. CASE stdout.accepting /\ ~stdout.failed
  <2>1. stdout.queue \o lines \in Seq(QueueLines)
    BY <1>1, ConcatFacts
  <2>2. stdout' = [stdout EXCEPT !.queue = stdout.queue \o lines]
    BY <1>2 DEF Write
  <2> QED BY <1>1, <1>2, <2>1, <2>2, ZenonT(60)
<1>3. CASE ~(stdout.accepting /\ ~stdout.failed)
  <2>1. stdout' = [stdout EXCEPT !.failed = TRUE]
    BY <1>3 DEF Write
  <2> QED BY <1>1, <2>1, ZenonT(60)
<1> QED BY <1>2, <1>3

\* Reading a frame moves its pieces to the stream.
LEMMA TakesOutput == SessionType /\ OutputInv /\ ReadFrame => OutputInv'
<1> SUFFICES ASSUME SessionType, OutputInv, ReadFrame PROVE OutputInv'
  OBVIOUS
<1> DEFINE f == Head(toNode)
<1>0. OutputType /\ FlowInv /\ PhaseInv /\ StartInv /\ EndInv
  BY DEF OutputInv
<1>1. Takes(f)
  BY ReadTakes DEF SessionType
<1>2. /\ toNode # <<>> /\ toNode' = Tail(toNode) /\ UNCHANGED <<go, pipe, terminal>>
      /\ (Told("start", TRUE)' <=> Told("start", TRUE)) /\ (Told("start", FALSE)' <=> Told("start", FALSE))
      /\ (Told("shutdown", TRUE)' <=> Told("shutdown", TRUE))
  <2>1. \A x \in BOOLEAN : (Told("start", x)' <=> Told("start", x)) /\ (Told("shutdown", x)' <=> Told("shutdown", x))
    BY <1>1 DEF Takes
  <2>2. (Told("start", TRUE)' <=> Told("start", TRUE)) /\ (Told("start", FALSE)' <=> Told("start", FALSE))
        /\ (Told("shutdown", TRUE)' <=> Told("shutdown", TRUE))
    BY <2>1, Zenon DEF Told
  <2> QED BY <1>1, <2>2 DEF Takes
<1>3. /\ toNode' \in Seq(Frames) /\ f \in Frames
      /\ Len(toNode') = Len(toNode) - 1 /\ Len(toNode) \in Nat /\ Len(toNode) >= 1
      /\ DOMAIN toNode = 1 .. Len(toNode) /\ f = toNode[1]
      /\ \A k \in DOMAIN toNode' : k \in Nat /\ k + 1 \in DOMAIN toNode /\ toNode'[k] = toNode[k + 1]
      /\ \A kind : Sent(kind)' => Sent(kind)
      /\ Sent(f.kind)
      /\ Len(toNode) = 1 => toNode' = <<>>
  BY <1>0, <1>2, WireShrinks DEF OutputType
<1> HIDE DEF f
<1>4. /\ PhaseInv' /\ Drained' = Drained /\ Headed' = Headed /\ (\A kind : Printed(kind)' = Printed(kind))
  BY <1>0, <1>2 DEF PhaseInv, Drained, Headed, Printed
<1>5. "shutdown" \notin node.handling /\ ~Told("shutdown", TRUE)
  BY <1>0, <1>2 DEF EndInv
<1>6. PICK q, b, p, u \in Nat : Flow(q, b, p, u)
  BY <1>0 DEF FlowInv
<1>7. \E c \in Nat :
        /\ ~stdout.failed => /\ IF f.kind = "output" THEN b <= c /\ f.chunks = Chunks(b, c) ELSE c = b
                             /\ Framed(toNode', c, p)
  BY <1>0, <1>2, <1>6, FramedHead DEF OutputType, Flow, f
<1>8. PICK c \in Nat :
        /\ ~stdout.failed => /\ IF f.kind = "output" THEN b <= c /\ f.chunks = Chunks(b, c) ELSE c = b
                             /\ Framed(toNode', c, p)
  BY <1>7
<1>9. /\ stdout' \in [queue : Seq(QueueLines), accepting : BOOLEAN, failed : BOOLEAN]
      /\ \/ f.kind = "output" /\ ~stdout.failed /\ ~stdout'.failed /\ Prints(stdout'.queue, q, c)
         \/ f.kind = "start" /\ ~stdout.failed /\ ~stdout'.failed /\ stdout'.queue = stdout.queue \o <<Line("start", 0)>>
         \/ f.kind \in {"output", "start"} /\ stdout'.failed /\ stdout'.queue = stdout.queue
         \/ f.kind \notin {"output", "start"} /\ stdout'.failed = stdout.failed /\ stdout'.queue = stdout.queue
  <2>0. stdout \in [queue : Seq(QueueLines), accepting : BOOLEAN, failed : BOOLEAN] /\ stdout.queue \in Seq(Lines)
    BY <1>0, LineKinds DEF OutputType
  <2>1. CASE f.kind = "output"
    <3> DEFINE r == [i \in DOMAIN f.chunks |-> Line("report", f.chunks[i])]
    <3>1. Write(r)
      BY <1>1, <2>1 DEF Takes
    <3>2. r \in Seq(QueueLines)
      <4>1. f.chunks \in Seq(Nat)
        BY <1>3 DEF Frames
      <4>2. r \in [1 .. Len(f.chunks) -> QueueLines] /\ Len(f.chunks) \in Nat
        BY <4>1, LineKinds
      <4> QED BY <4>2
    <3>3. ~stdout.failed => Prints(stdout.queue \o r, q, c)
      BY <1>6, <1>8, <2>0, <2>1, PrintsJoin DEF Flow
    <3> HIDE DEF r
    <3> QED BY <1>0, <2>1, <3>1, <3>2, <3>3, WriteFacts
  <2>2. CASE f.kind = "start"
    <3>1. Write(<<Line("start", 0)>>) /\ <<Line("start", 0)>> \in Seq(QueueLines)
      BY <1>1, <2>2, LineKinds DEF Takes
    <3> QED BY <1>0, <2>2, <3>1, WriteFacts
  <2>3. CASE f.kind \notin {"output", "start"}
    <3>1. stdout' = stdout \/ stdout' = [stdout EXCEPT !.accepting = FALSE]
      BY <1>1, <2>3 DEF Takes
    <3>2. /\ stdout' \in [queue : Seq(QueueLines), accepting : BOOLEAN, failed : BOOLEAN]
          /\ stdout'.failed = stdout.failed /\ stdout'.queue = stdout.queue
      BY <2>0, <3>1, ZenonT(60)
    <3> QED BY <2>3, <3>2
  <2> QED BY <2>1, <2>2, <2>3
<1>10. OutputType'
  BY <1>0, <1>2, <1>3, <1>9 DEF OutputType
<1>11. FlowInv'
  <2>1. Prints(terminal, 0, q) /\ Prints(stdout.queue, q, b) /\ stdout.queue \in Seq(Lines)
    BY <1>0, <1>6, LineKinds DEF Flow, OutputType
  <2>2. CASE f.kind = "output" /\ ~stdout.failed /\ ~stdout'.failed /\ Prints(stdout'.queue, q, c)
    <3>1. Flow(q, c, p, u)'
      BY <1>2, <1>6, <1>8, <2>2 DEF Flow
    <3> QED BY <3>1 DEF FlowInv
  <2>3. CASE f.kind = "start" /\ ~stdout.failed /\ ~stdout'.failed /\ stdout'.queue = stdout.queue \o <<Line("start", 0)>>
    <3>1. Prints(stdout'.queue, q, b)
      <4>1. stdout'.queue = Append(stdout.queue, Line("start", 0))
        BY <2>1, <2>3
      <4>2. Line("start", 0) \in Lines /\ Line("start", 0).kind # "report"
        BY LineKinds
      <4> QED BY <2>1, <4>1, <4>2, PrintsOther
    <3>2. Flow(q, b, p, u)'
      BY <1>2, <1>6, <1>8, <2>3, <3>1 DEF Flow
    <3> QED BY <3>2 DEF FlowInv
  <2>4. CASE stdout'.failed /\ stdout'.queue = stdout.queue
    <3>1. Flow(q, b, p, u)'
      BY <1>2, <1>6, <2>4 DEF Flow
    <3> QED BY <3>1 DEF FlowInv
  <2>5. CASE f.kind \notin {"output", "start"} /\ stdout'.failed = stdout.failed /\ stdout'.queue = stdout.queue
    <3>1. Flow(q, b, p, u)'
      BY <1>2, <1>6, <1>8, <2>5 DEF Flow
    <3> QED BY <3>1 DEF FlowInv
  <2> QED BY <1>9, <2>2, <2>3, <2>4, <2>5
<1>12. /\ "start" \in node'.handling <=> "start" \in node.handling \/ f.kind = "start"
       /\ "shutdown" \in node'.handling <=> f.kind = "shutdown"
  BY <1>1, <1>5 DEF Takes
<1>13. StartInv'
  <2>1. StartPending' => StartPending
    BY <1>3, <1>12 DEF StartPending
  <2>2. go.pc \in Opening => f.kind \notin {"output", "start"}
    BY <1>0, <1>3 DEF StartInv, StartPending
  <2>3. StartPending => f.kind # "output"
    BY <1>0, <1>3 DEF StartInv
  <2>4. Sent("start")' => Sent("start") /\ f.kind # "start"
    <3> SUFFICES ASSUME Sent("start")', f.kind = "start" PROVE FALSE
      BY <1>3
    <3>1. PICK k \in DOMAIN toNode' : toNode'[k].kind = "start"
      BY DEF Sent
    <3>2. k + 1 \in DOMAIN toNode /\ toNode[k + 1].kind = "start" /\ 1 \in DOMAIN toNode /\ k + 1 # 1 /\ toNode[1].kind = "start"
      BY <1>3, <3>1
    <3> QED BY <1>0, <1>3, <3>2 DEF StartInv
  <2>5. Sent("start") => \A j, k \in DOMAIN toNode' : toNode'[j].kind = "start" /\ toNode'[k].kind = "start" => j = k
    <3> SUFFICES ASSUME Sent("start"), NEW j \in DOMAIN toNode', NEW k \in DOMAIN toNode',
                        toNode'[j].kind = "start", toNode'[k].kind = "start"
                 PROVE  j = k
      OBVIOUS
    <3>1. j + 1 = k + 1 /\ j \in Nat /\ k \in Nat
      BY <1>0, <1>3 DEF StartInv
    <3> QED BY <3>1
  <2>6. "start" \in node'.handling =>
          stdout'.failed \/ (terminal' = <<>> /\ stdout'.queue = <<Line("start", 0)>>) \/ Headed'
    <3>1. CASE f.kind = "start"
      <4>1. terminal = <<>> /\ stdout.queue = <<>>
        BY <1>0, <1>3, <3>1 DEF StartInv
      <4>2. <<>> \o <<Line("start", 0)>> = <<Line("start", 0)>>
        OBVIOUS
      <4> QED BY <1>2, <1>9, <3>1, <4>1, <4>2
    <3>2. CASE f.kind # "start" /\ "start" \in node.handling
      <4>1. stdout'.queue = stdout.queue /\ stdout'.failed = stdout.failed
        BY <1>9, <2>3, <3>2 DEF StartPending
      <4> QED BY <1>0, <1>2, <1>4, <3>2, <4>1 DEF StartInv
    <3> QED BY <1>12, <3>1, <3>2
  <2>7. go.pc \in Opening \/ Sent("start")' => stdout'.queue = stdout.queue
    BY <1>9, <2>2, <2>3, <2>4 DEF StartPending
  <2>8. Sent("output")' => Sent("output")
    BY <1>3
  <2>9. go'.pc \in Opening =>
          /\ terminal' = <<>> /\ stdout'.queue = <<>> /\ ~Sent("output")' /\ ~StartPending' /\ ~go'.started
          /\ ~Told("start", TRUE)' /\ ~Told("start", FALSE)'
    BY <1>0, <1>2, <2>1, <2>7, <2>8 DEF StartInv
  <2>10. StartPending' => /\ go'.pc \in {"start", "join", "drain", "exited"} \cup Ending
                          /\ ~Sent("output")' /\ ~Told("start", TRUE)' /\ ~Told("start", FALSE)'
                          /\ go'.chunks = 0 /\ Drained' /\ ~go'.started /\ ~go'.table
    BY <1>0, <1>2, <1>4, <2>1, <2>8 DEF StartInv
  <2>11. Sent("start")' => terminal' = <<>> /\ stdout'.queue = <<>> /\ "start" \notin node'.handling
    BY <1>0, <1>2, <1>12, <2>4, <2>7 DEF StartInv
  <2>12. /\ Told("start", TRUE)' \/ go'.started => Headed'
         /\ Printed("stderr")' # {} => Headed'
    BY <1>0, <1>2, <1>4 DEF StartInv
  <2> QED BY <2>4, <2>5, <2>6, <2>9, <2>10, <2>11, <2>12 DEF StartInv
<1>14. EndInv'
  <2>1. \A k \in DOMAIN toNode' : toNode'[k].kind = "shutdown" => k = Len(toNode')
    <3> SUFFICES ASSUME NEW k \in DOMAIN toNode', toNode'[k].kind = "shutdown" PROVE k = Len(toNode')
      OBVIOUS
    <3>1. k + 1 = Len(toNode) /\ k \in Nat
      BY <1>0, <1>3 DEF EndInv
    <3> QED BY <1>3, <3>1
  <2>2. f.kind = "shutdown" => toNode' = <<>>
    BY <1>0, <1>3 DEF EndInv
  <2>3. Sent("shutdown")' \/ f.kind = "shutdown" => Sent("shutdown")
    BY <1>3
  <2> QED BY <1>0, <1>2, <1>4, <1>5, <1>12, <2>1, <2>2, <2>3 DEF EndInv
<1> QED BY <1>4, <1>10, <1>11, <1>13, <1>14 DEF OutputInv

\* Every step keeps the output's invariant.
LEMMA OutputStep == SessionType /\ OutputInv /\ [Next]_vars => OutputInv'
<1> SUFFICES ASSUME SessionType, OutputInv, [Next]_vars PROVE OutputInv'
  OBVIOUS
<1>1. OutputType /\ FlowInv /\ PhaseInv /\ go.chunks \in Nat
  BY DEF OutputInv, SessionType, GoStates
<1>2. CASE Moves
  BY <1>1, <1>2, MovesType, MovesPhase, MovesFlow, MovesStart, MovesEnd DEF OutputInv
<1> QED BY <1>1, <1>2, OutputSteps, WritesOutput, DrainOutput, TakesOutput, StreamOutput, AnswersOutput

\* What the lines of the terminal say when they are the report's first b pieces.
LEMMA PrintedChunks ==
    ASSUME terminal \in Seq(Lines), NEW b \in Nat, Prints(terminal, 0, b)
    PROVE  /\ {terminal[k].n : k \in Printed("report")} = 1 .. b
           /\ \A j, k \in Printed("report") : j < k => terminal[j].n < terminal[k].n
<1>1. \A k \in Printed("report") : terminal[k].n \in 1 .. b
  BY DEF Prints, Printed
<1>2. ASSUME NEW n \in 1 .. b
      PROVE  \E k \in Printed("report") : terminal[k].n = n
  <2>1. PICK k \in DOMAIN terminal : terminal[k] = Line("report", n)
    BY DEF Prints
  <2>2. terminal[k].kind = "report" /\ terminal[k].n = n
    BY <2>1 DEF Line
  <2> QED BY <2>2 DEF Printed
<1>3. {terminal[k].n : k \in Printed("report")} = 1 .. b
  BY <1>1, <1>2
<1>4. \A j, k \in Printed("report") : j < k => terminal[j].n < terminal[k].n
  BY DEF Prints, Printed
<1> QED BY <1>3, <1>4

\* The merged output of the two processes is in order for reports of any size: after the start
\* line comes what the run writes to stderr, the report's pieces appear once, in order and with
\* none left out, and the timing table follows the last of them, whatever is buffered in the
\* pipe, in frames or in Node's stream, whoever crashes and whatever breaks (StdoutWriteBarrier,
\* acknowledgedOutputWriter, shutdownPeer).
THEOREM OutputOrdered == Spec => []OutputInOrder
<1>1. Init => OutputInv
  <2> SUFFICES ASSUME Init PROVE OutputInv
    OBVIOUS
  <2>1. /\ toNode = <<>> /\ terminal = <<>> /\ answers = {} /\ stdout.queue = <<>>
        /\ pipe = [unread |-> <<>>, pending |-> <<>>, discard |-> FALSE]
        /\ go.pc = "init" /\ go.chunks = 0 /\ ~go.started /\ ~go.table /\ ~go.flushed /\ node.handling = {}
    BY DEF Init
  <2>2. OutputType
    <3>1. stdout = [queue |-> <<>>, accepting |-> TRUE, failed |-> FALSE]
      BY DEF Init
    <3>2. <<>> \in Seq(QueueLines) /\ <<>> \in Seq(Lines) /\ <<>> \in Seq(Frames) /\ <<>> \in Seq(Nat)
      OBVIOUS
    <3> QED BY <2>1, <3>1, <3>2 DEF OutputType, PipeStates
  <2>3. FlowInv
    <3>1. Prints(<<>>, 0, 0) /\ Chunks(0, 0) = <<>>
      BY PrintsNone, ChunksNone
    <3>2. Framed(<<>>, 0, 0)
      <4> DEFINE m == [k \in 0 .. 0 |-> 0]
      <4>1. m \in [0 .. Len(<<>>) -> Nat] /\ m[0] = 0 /\ m[Len(<<>>)] = 0
        OBVIOUS
      <4>2. \A k : k \notin 1 .. Len(<<>>)
        OBVIOUS
      <4> QED BY <4>1, <4>2 DEF Framed
    <3>3. Flow(0, 0, 0, 0)
      BY <2>1, <3>1, <3>2 DEF Flow
    <3> QED BY <3>3 DEF FlowInv
  <2>4. PhaseInv
    BY <2>1 DEF PhaseInv, Drained
  <2>5. (\A kind : ~Sent(kind)) /\ (\A kind, x : ~Told(kind, x)) /\ (\A kind : Printed(kind) = {})
    BY <2>1 DEF Sent, Told, Printed
  <2>6. StartInv /\ EndInv
    BY <2>1, <2>5 DEF StartInv, EndInv, StartPending, Sent
  <2> QED BY <2>2, <2>3, <2>4, <2>6 DEF OutputInv
<1>2. SessionType /\ OutputInv => OutputInOrder
  <2> SUFFICES ASSUME SessionType, OutputInv PROVE OutputInOrder
    OBVIOUS
  <2> DEFINE chunks == {terminal[k].n : k \in Printed("report")}
  <2>0. terminal \in Seq(Lines) /\ StartInv /\ EndInv /\ PhaseInv /\ go.chunks \in Nat
    BY DEF OutputInv, OutputType, SessionType, GoStates
  <2>1. PICK q \in Nat : Prints(terminal, 0, q)
    BY DEF OutputInv, FlowInv, Flow
  <2>2. chunks = 1 .. q /\ \A j, k \in Printed("report") : j < k => terminal[j].n < terminal[k].n
    BY <2>0, <2>1, PrintedChunks
  <2>3. Printed("stderr") # {} => terminal[1] = Line("start", 0)
    BY <2>0 DEF StartInv, Headed
  <2>4. \A n \in chunks : n > 0 /\ 1 .. n \subseteq chunks
    BY <2>2
  <2>5. ASSUME NEW k \in Printed("table")
        PROVE  k = Len(terminal) /\ chunks = 1 .. MaxChunks
    <3>1. k = Len(terminal) /\ go.table /\ Told("shutdown", TRUE)
      BY <2>0 DEF EndInv
    <3>2. Prints(terminal, 0, go.chunks) /\ go.chunks = MaxChunks
      BY <2>0, <3>1 DEF EndInv, PhaseInv
    <3> QED BY <2>0, <3>1, <3>2, PrintedChunks
  <2> QED BY <2>2, <2>3, <2>4, <2>5 DEF OutputInOrder
<1> QED BY <1>1, <1>2, OutputStep, TypeCorrect, PTL DEF Spec
=============================================================================
