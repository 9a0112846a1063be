----------------------------- MODULE WorkerPool -----------------------------
(***************************************************************************)
(* The plugin worker pool (worker-pool.ts) with its worker threads         *)
(* (lint-worker.ts).  The pool lives on the host's event loop: each of its *)
(* actions is one callback and the synchronous code it calls.  The worker  *)
(* threads run beside it; they post messages, stop at any moment, and      *)
(* their stop is seen by the pool as an exit event later on.               *)
(*                                                                         *)
(* Per worker id there is at most one thread at a time and at most one     *)
(* slot in the pool's list.  A thread's role says whose handlers listen:   *)
(*   none      no thread                                                   *)
(*   init      spawned by init(), not ready yet                            *)
(*   respawn   spawned for a listed slot that exited, not ready yet        *)
(*   stray     spawned for a slot that is not in the list                  *)
(*   rejected  its spawn was given up, the thread still ends               *)
(*   slot      serves the listed slot                                      *)
(*   unlisted  became ready without entering the list                      *)
(*   reaped    ready after the pool closed, terminated, awaited            *)
(***************************************************************************)
EXTENDS CancelFlagPool, FiniteSets, SequencesExt

CONSTANTS
    Workers,       \* worker ids, 0 .. workerCount - 1 in the code
    MaxTasks,      \* bound: tasks ever enqueued
    RetryCap,      \* retryCap
    Poison,        \* tasks that structured clone refuses
    DeadPost       \* "lost" or "throws": postMessage to a thread that has stopped

ASSUME PoolAssumption ==
    /\ IsFiniteSet(Workers) /\ Workers # {}
    /\ MaxTasks \in Nat
    /\ RetryCap \in Nat
    /\ Poison \subseteq 1 .. MaxTasks
    /\ DeadPost \in {"lost", "throws"}

VARIABLES
    main,       \* what the pool's callbacks read and write (NewMain)
    workers,    \* this.workers, as the ids of its slots in order
    thread,     \* the worker threads and who listens to them
    init,       \* progress of init()
    shutdown,   \* progress of shutdown()
    asked,      \* tasks cancelTask accepted, by where it found them
    respawned   \* respawns per worker, counted up to RetryCap + 1

vars == <<main, workers, thread, init, shutdown, asked, respawned>>

Tasks == 1 .. MaxTasks
NoTask == 0
Spawning == {"init", "respawn", "stray"}

\* Messages a worker posts.
Ready == [kind |-> "ready"]
InitError == [kind |-> "init-error"]
ResultOf(t, cancelled) == [kind |-> "result", task |-> t, cancelled |-> cancelled]

\* Messages the pool posts to a worker.
StopMessage == NoTask

FreshSlot(ready) ==
    [ready |-> ready, exited |-> FALSE, respawning |-> FALSE,
     inflight |-> NoTask, crashCount |-> 0]

NoThread == [st |-> "none", ending |-> FALSE, run |-> NoTask, mail |-> << >>,
             role |-> "none", crash |-> 0]

\* spawnWorker: a thread that loads its plugins; crash is the count the slot
\* it becomes will carry.
Booting(role, crash) == [NoThread EXCEPT !.st = "booting", !.role = role, !.crash = crash]

\* terminateWorker
Terminated(th) == [th EXCEPT !.ending = TRUE]

Listed == Range(workers)
Enqueued == 1 .. (main.nextTaskId - 1)

-----------------------------------------------------------------------------
\* Synchronous code of the pool, as functions of its state.

\* One task settles: its cancel slot goes back and its promise resolves,
\* which only the first call does.
Settle(p, t, how) ==
    [p EXCEPT !.cancelPool = Release(@, p.cancelSlot[t]),
              !.outcome[t] = IF @ = "pending" THEN how ELSE @]

SettleAll(p, ts, how) == FoldLeft(LAMBDA q, t : Settle(q, t, how[t]), p, ts)

Each(how) == [t \in Tasks |-> how]

\* postMessage of a task: refused by structured clone, refused or swallowed
\* when the thread is gone, or put in the worker's inbox.
PostFails(i, t) == t \in Poison \/ (DeadPost = "throws" /\ thread[i].st = "gone")

DispatchToWorker(p, i, t) ==
    IF PostFails(i, t)
    THEN [Settle(p, t, "post_failed") EXCEPT
            !.slots[i].ready = t \in Poison,
            !.kick = TRUE]
    ELSE [p EXCEPT !.slots[i].inflight = t, !.inbox[i] = Append(@, t)]

\* The tasks at the head of the queue that were cancelled while they waited.
CancelledHead(p) ==
    LET Live == {k \in 1 .. Len(p.queue) : p.queue[k] \notin p.withdrawn}
        n    == IF Live = {} THEN Len(p.queue)
                ELSE (CHOOSE k \in Live : \A l \in Live : k <= l) - 1
    IN  SubSeq(p.queue, 1, n)

\* The body of kickQueue's loop for one slot.
IdleSlot(p, i) == p.slots[i].ready /\ p.slots[i].inflight = NoTask

Serve(p, i) ==
    IF ~IdleSlot(p, i) THEN p
    ELSE LET skipped == CancelledHead(p)
             rest    == SubSeq(p.queue, Len(skipped) + 1, Len(p.queue))
             q       == SettleAll(p, skipped, Each("cancelled"))
         IN  IF rest = << >> THEN [q EXCEPT !.queue = << >>]
             ELSE DispatchToWorker([q EXCEPT !.queue = Tail(rest)], i, Head(rest))

KickQueue(p) == IF p.closed THEN p ELSE FoldLeft(Serve, p, workers)

\* drainQueueIfAllSlotsDegraded
Recoverable(slot) == slot.ready \/ slot.respawning

DrainIfDegraded(p) ==
    IF p.closed \/ \E i \in Listed : Recoverable(p.slots[i]) THEN p
    ELSE [SettleAll(p, p.queue, Each("degraded")) EXCEPT !.queue = << >>]

\* The exit handler of a listed slot, up to its decision to respawn.
InflightOf(p, i) == IF p.slots[i].inflight = NoTask THEN << >> ELSE <<p.slots[i].inflight>>

Exited(p, i) ==
    [SettleAll(p, InflightOf(p, i), Each("crashed")) EXCEPT
        !.slots[i].inflight = NoTask,
        !.slots[i].ready = FALSE,
        !.slots[i].exited = TRUE]

WillRespawn(p, crash) == ~p.closed /\ crash < RetryCap

\* lintBatch's enqueue loop for one task; its caller may cancel it at once.
Enqueue(p, cancelled) ==
    LET t == p.nextTaskId
    IN  [p EXCEPT !.nextTaskId = @ + 1,
                  !.cancelSlot[t] = AcquiredSlot(p.cancelPool),
                  !.cancelPool = Acquire(@),
                  !.queue = Append(@, t),
                  !.withdrawn = IF t \in cancelled THEN @ \union {t} ELSE @,
                  !.outcome[t] = "pending"]

-----------------------------------------------------------------------------

NewMain ==
    [closed |-> FALSE, kick |-> FALSE, nextTaskId |-> 1,
     queue |-> << >>, withdrawn |-> {},
     slots |-> [i \in Workers |-> FreshSlot(FALSE)],
     inbox |-> [i \in Workers |-> << >>],
     cancelPool |-> NewPool,
     cancelSlot |-> [t \in Tasks |-> NoSlot],
     outcome |-> [t \in Tasks |-> "none"]]

Init ==
    /\ main = NewMain
    /\ workers = << >>
    /\ thread = [i \in Workers |-> NoThread]
    /\ init = "none"
    /\ shutdown = "none"
    /\ asked = [t \in Tasks |-> "no"]
    /\ respawned = [i \in Workers |-> 0]

\* The event loop takes no other callback while a microtask waits.
Idle == ~main.kick

InitCall ==
    /\ init = "none"
    /\ init' = "running"
    /\ thread' = [i \in Workers |-> Booting("init", 0)]
    /\ UNCHANGED <<main, workers, shutdown, asked, respawned>>

\* shutdown() does not wait for respawns.
AwaitedListed == {i \in Workers : thread[i].role = "reaped"}

\* Every spawn of init() has settled: the pool is up, or one failed and the
\* ready ones are terminated.
AwaitedThreads == {i \in Workers : thread[i].role \in {"respawn", "stray", "reaped"}}
AllReaped == AwaitedThreads = {} /\ \A i \in Listed : main.slots[i].exited

InitSettled ==
    /\ Idle
    /\ init \in {"running", "failing"}
    /\ \A i \in Workers : thread[i].role # "init"
    /\ IF init = "running"
       THEN /\ init' = "done"
            /\ UNCHANGED <<main, thread>>
       ELSE /\ init' = "terminating"
            /\ main' = [main EXCEPT !.closed = TRUE]
            /\ thread' = [i \in Workers |-> IF thread[i].role = "slot"
                                            THEN Terminated(thread[i]) ELSE thread[i]]
    /\ UNCHANGED <<workers, shutdown, asked, respawned>>

InitThrows ==
    /\ Idle
    /\ init = "terminating"
    /\ AllReaped
    /\ init' = "failed"
    /\ workers' = << >>
    /\ UNCHANGED <<main, thread, shutdown, asked, respawned>>

\* lintBatch of n tasks; those in cancelled are cancelled by the callback.
LintBatch(n, cancelled) ==
    LET batch == main.nextTaskId .. (main.nextTaskId + n - 1)
        p == FoldLeft(LAMBDA q, t : Enqueue(q, cancelled), main, [k \in 1 .. n |-> k])
        q == KickQueue(p)
    IN  /\ Idle
        /\ init = "done"
        /\ ~main.closed
        /\ batch \subseteq Tasks
        /\ cancelled \subseteq batch
        /\ main' = IF \A i \in Listed : q.slots[i].exited THEN DrainIfDegraded(q) ELSE q
        /\ asked' = [t \in Tasks |-> IF t \in cancelled THEN "queued" ELSE asked[t]]
        /\ UNCHANGED <<workers, thread, init, shutdown, respawned>>

\* The microtask queued when a post failed.
Microtask ==
    /\ main.kick
    /\ main' = KickQueue([main EXCEPT !.kick = FALSE])
    /\ UNCHANGED <<workers, thread, init, shutdown, asked, respawned>>

CancelTask(t) ==
    /\ Idle
    /\ asked[t] = "no"
    /\ \/ /\ \E i \in Listed : main.slots[i].inflight = t
          /\ main' = [main EXCEPT !.cancelPool = Cancel(@, main.cancelSlot[t])]
          /\ asked' = [asked EXCEPT ![t] = "inflight"]
       \/ /\ t \in Range(main.queue)
          /\ main' = [main EXCEPT !.withdrawn = @ \union {t}]
          /\ asked' = [asked EXCEPT ![t] = "queued"]
    /\ UNCHANGED <<workers, thread, init, shutdown, respawned>>

\* The timer leaves the slot ready.
TimedOutReady(p, i) ==
    [Settle(p, p.slots[i].inflight, "timeout") EXCEPT
        !.slots[i].inflight = NoTask,
        !.slots[i].respawning = @ \/ p.slots[i].crashCount < RetryCap]

\* The timer does not announce the respawn.
TimedOutSilent(p, i) ==
    [Settle(p, p.slots[i].inflight, "timeout") EXCEPT
        !.slots[i].inflight = NoTask,
        !.slots[i].ready = FALSE]

\* The timer announces a respawn that retryCap forbids.
TimedOutHopeful(p, i) ==
    [Settle(p, p.slots[i].inflight, "timeout") EXCEPT
        !.slots[i].inflight = NoTask,
        !.slots[i].ready = FALSE,
        !.slots[i].respawning = TRUE]

\* The timer leaves the task in the slot.
TimedOutHeld(p, i) ==
    [Settle(p, p.slots[i].inflight, "timeout") EXCEPT
        !.slots[i].ready = FALSE,
        !.slots[i].respawning = @ \/ p.slots[i].crashCount < RetryCap]

\* dispatchToWorker's timer.
TimedOut(p, i) ==
    [Settle(p, p.slots[i].inflight, "timeout") EXCEPT
        !.slots[i].inflight = NoTask,
        !.slots[i].ready = FALSE,
        !.slots[i].respawning = @ \/ p.slots[i].crashCount < RetryCap]

TaskTimeout(i, t) ==
    /\ Idle
    /\ i \in Listed
    /\ main.slots[i].inflight = t
    /\ main' = TimedOut(main, i)
    /\ thread' = [thread EXCEPT ![i] = Terminated(@)]
    /\ UNCHANGED <<workers, init, shutdown, asked, respawned>>

\* shutdown(): settle everything and ask the workers to stop.
StopSlot(p, i) ==
    [SettleAll(p, InflightOf(p, i), Each("shutdown")) EXCEPT !.slots[i].inflight = NoTask]

ShutDownSlots(p) == FoldLeft(StopSlot, p, workers)

\* The drained queue is not emptied.
ShutDownQueueKept(p) ==
    SettleAll(p, p.queue, [t \in Tasks |-> IF t \in p.withdrawn THEN "cancelled" ELSE "shutdown"])

ShutDownQueue(p) ==
    [SettleAll(p, p.queue, [t \in Tasks |-> IF t \in p.withdrawn THEN "cancelled" ELSE "shutdown"])
        EXCEPT !.queue = << >>]

Shutdown ==
    LET p == ShutDownQueue(ShutDownSlots([main EXCEPT !.closed = TRUE]))
    IN  /\ Idle
        /\ init = "done"
        /\ ~main.closed
        /\ main' = [p EXCEPT !.inbox =
                      [i \in Workers |-> IF i \in Listed /\ thread[i].role = "slot"
                                         THEN Append(@[i], StopMessage) ELSE @[i]]]
        /\ shutdown' = "waiting"
        /\ UNCHANGED <<workers, thread, init, asked, respawned>>

\* No fallback for a worker that does not stop.
GraceNever(i) ==
    /\ i \in Workers /\ shutdown = "grace"
    /\ UNCHANGED vars

\* A worker did not stop within WORKER_EXIT_GRACE_MS.
GraceExpires(i) ==
    /\ Idle
    /\ shutdown = "waiting"
    /\ i \in Listed
    /\ thread[i].role = "slot" /\ ~thread[i].ending
    /\ thread' = [thread EXCEPT ![i] = Terminated(@)]
    /\ UNCHANGED <<main, workers, init, shutdown, asked, respawned>>

ShutdownReturns ==
    /\ Idle
    /\ shutdown = "waiting"
    /\ AllReaped
    /\ shutdown' = "returned"
    /\ workers' = << >>
    /\ UNCHANGED <<main, thread, init, asked, respawned>>

-----------------------------------------------------------------------------
\* What the pool does when a worker is heard of.

Popped(i) == [thread[i] EXCEPT !.mail = Tail(@)]

Mail(i, kind) ==
    /\ Idle
    /\ thread[i].mail # << >>
    /\ Head(thread[i].mail).kind = kind

\* A failed respawn leaves the queue as it is.
SpawnRejectedSilent(i) ==
    IF thread[i].role = "init"
    THEN init' = "failing" /\ UNCHANGED main
    ELSE /\ main' = IF thread[i].role = "respawn"
                    THEN [main EXCEPT !.slots[i].respawning = FALSE] ELSE main
         /\ UNCHANGED init

\* A spawn promise was rejected: init() notes it, a respawn gives its slot up.
SpawnRejected(i) ==
    IF thread[i].role = "init"
    THEN init' = "failing" /\ UNCHANGED main
    ELSE /\ main' = DrainIfDegraded(
                      IF thread[i].role = "respawn"
                      THEN [main EXCEPT !.slots[i].respawning = FALSE] ELSE main)
         /\ UNCHANGED init

\* 'ready' and init() or a respawn is waiting for it.
Adopted(i) == [FreshSlot(TRUE) EXCEPT !.crashCount = thread[i].crash]

OnReady(i) ==
    /\ Mail(i, "ready")
    /\ \/ /\ thread[i].role = "init"
          /\ main' = [main EXCEPT !.slots[i] = Adopted(i)]
          /\ workers' = Append(workers, i)
          /\ thread' = [thread EXCEPT ![i] = [Popped(i) EXCEPT !.role = "slot"]]
       \/ /\ thread[i].role \in {"respawn", "stray"}
          /\ i \in Listed /\ ~main.closed
          /\ main' = KickQueue([main EXCEPT !.slots[i] = Adopted(i)])
          /\ thread' = [thread EXCEPT ![i] = [Popped(i) EXCEPT !.role = "slot"]]
          /\ UNCHANGED workers
       \/ /\ thread[i].role \in {"respawn", "stray"}
          /\ main.closed
          /\ main' = IF thread[i].role = "respawn"
                     THEN [main EXCEPT !.slots[i].respawning = FALSE] ELSE main
          /\ thread' = [thread EXCEPT ![i] = Terminated([Popped(i) EXCEPT !.role = "reaped"])]
          /\ UNCHANGED workers
       \/ /\ thread[i].role = "stray"
          /\ i \notin Listed /\ ~main.closed
          /\ thread' = [thread EXCEPT ![i] = Terminated([Popped(i) EXCEPT !.role = "unlisted"])]
          /\ UNCHANGED <<main, workers>>
    /\ UNCHANGED <<init, shutdown, asked, respawned>>

\* 'ready' after the init timer gave the spawn up: spawnWorker's listener is
\* still there and attaches the permanent handlers.
OnLateReady(i) ==
    /\ Mail(i, "ready")
    /\ thread[i].role = "rejected"
    /\ thread' = [thread EXCEPT ![i] = [Popped(i) EXCEPT !.role = "unlisted", !.crash = 0]]
    /\ UNCHANGED <<main, workers, init, shutdown, asked, respawned>>

OnInitError(i) ==
    /\ Mail(i, "init-error")
    /\ thread' = [thread EXCEPT ![i] = [Popped(i) EXCEPT !.role = "rejected"]]
    /\ IF thread[i].role \in Spawning THEN SpawnRejected(i) ELSE UNCHANGED <<main, init>>
    /\ UNCHANGED <<workers, shutdown, asked, respawned>>

InitTimeout(i) ==
    /\ Idle
    /\ thread[i].role \in Spawning
    /\ thread' = [thread EXCEPT ![i] = Terminated([@ EXCEPT !.role = "rejected"])]
    /\ SpawnRejected(i)
    /\ UNCHANGED <<workers, shutdown, asked, respawned>>

\* The result handler; a result nobody waits for is dropped.
Expected(i, msg) == thread[i].role = "slot" /\ main.slots[i].inflight = msg.task

OnResult(i) ==
    /\ Mail(i, "result")
    /\ LET msg == Head(thread[i].mail)
           how == IF msg.cancelled THEN "cancelled" ELSE "result"
       IN  main' = IF Expected(i, msg)
                   THEN KickQueue([Settle(main, msg.task, how) EXCEPT !.slots[i].inflight = NoTask])
                   ELSE main
    /\ thread' = [thread EXCEPT ![i] = Popped(i)]
    /\ UNCHANGED <<workers, init, shutdown, asked, respawned>>

\* The exit event, after every message of the thread.
ExitEvent(i, role) ==
    /\ Idle
    /\ thread[i].st = "gone"
    /\ thread[i].mail = << >>
    /\ thread[i].role = role

Respawn(i, role, crash) ==
    /\ thread' = [thread EXCEPT ![i] = Booting(role, crash)]
    /\ respawned' = [respawned EXCEPT ![i] = IF @ > RetryCap THEN @ ELSE @ + 1]

OnSlotExit(i) ==
    LET p == Exited(main, i)
        c == p.slots[i].crashCount
    IN  /\ ExitEvent(i, "slot")
        /\ \/ /\ WillRespawn(p, c)
              /\ main' = [p EXCEPT !.slots[i].crashCount = c + 1,
                                   !.slots[i].respawning = TRUE,
                                   !.inbox[i] = << >>]
              /\ Respawn(i, "respawn", c + 1)
           \/ /\ ~WillRespawn(p, c)
              /\ main' = [DrainIfDegraded(p) EXCEPT !.inbox[i] = << >>]
              /\ thread' = [thread EXCEPT ![i] = NoThread]
              /\ UNCHANGED respawned
        /\ UNCHANGED <<workers, init, shutdown, asked>>

\* The same handler on a slot outside the list, which runs no task.
OnUnlistedExit(i) ==
    /\ ExitEvent(i, "unlisted")
    /\ \/ /\ WillRespawn(main, thread[i].crash)
          /\ Respawn(i, "stray", thread[i].crash + 1)
          /\ UNCHANGED main
       \/ /\ ~WillRespawn(main, thread[i].crash)
          /\ main' = DrainIfDegraded(main)
          /\ thread' = [thread EXCEPT ![i] = NoThread]
          /\ UNCHANGED respawned
    /\ UNCHANGED <<workers, init, shutdown, asked>>

\* Exit while a spawn waits rejects it; afterwards nobody cares.
OnBootExit(i) ==
    /\ \E role \in Spawning : ExitEvent(i, role)
    /\ thread' = [thread EXCEPT ![i] = NoThread]
    /\ SpawnRejected(i)
    /\ UNCHANGED <<workers, shutdown, asked, respawned>>

OnFinalExit(i) ==
    /\ \E role \in {"rejected", "reaped"} : ExitEvent(i, role)
    /\ thread' = [thread EXCEPT ![i] = NoThread]
    /\ UNCHANGED <<main, workers, init, shutdown, asked, respawned>>

-----------------------------------------------------------------------------
\* The worker threads.

Steps(i, th) ==
    /\ thread' = [thread EXCEPT ![i] = th]
    /\ UNCHANGED <<workers, init, shutdown, asked, respawned>>

Posts(th, msg) == [th EXCEPT !.mail = Append(@, msg)]

BootReady(i) ==
    /\ thread[i].st = "booting"
    /\ Steps(i, [Posts(thread[i], Ready) EXCEPT !.st = "up"])
    /\ UNCHANGED main

BootFails(i) ==
    /\ thread[i].st = "booting"
    /\ Steps(i, [Posts(thread[i], InitError) EXCEPT !.st = "closing"])
    /\ UNCHANGED main

\* The message listener: a task is started, a stop closes the port.
Receive(i) ==
    /\ thread[i].st = "up" /\ thread[i].run = NoTask
    /\ main.inbox[i] # << >>
    /\ main' = [main EXCEPT !.inbox[i] = Tail(@)]
    /\ Steps(i, IF Head(main.inbox[i]) = StopMessage
                THEN [thread[i] EXCEPT !.st = "closing"]
                ELSE [thread[i] EXCEPT !.run = Head(main.inbox[i])])

\* The view starts at the array's first flag.
PolledFirst(i) == 0 \in main.cancelPool.flag

\* lintFile polls the task's flag at every node, if it has one.
Polled(i) == main.cancelSlot[thread[i].run] \in main.cancelPool.flag

Finish(i, cancelled) ==
    /\ thread[i].st = "up" /\ thread[i].run # NoTask
    /\ cancelled => Polled(i)
    /\ Steps(i, [Posts(thread[i], ResultOf(thread[i].run, cancelled)) EXCEPT !.run = NoTask])
    /\ UNCHANGED main

\* The thread stops: by itself, by a crash, by process.exit in a plugin, or
\* because it was terminated.
Stop(i) ==
    /\ thread[i].st \in {"booting", "up", "closing"}
    /\ Steps(i, [thread[i] EXCEPT !.st = "gone", !.run = NoTask])
    /\ UNCHANGED main

\* terminate() takes effect.
StopTerminated(i) == thread[i].ending /\ Stop(i)

-----------------------------------------------------------------------------

Caller ==
    \/ InitCall
    \/ \E n \in 1 .. MaxTasks : \E cancelled \in SUBSET Tasks : LintBatch(n, cancelled)
    \/ \E t \in Tasks : CancelTask(t)
    \/ Shutdown

Thread(i) ==
    \/ BootReady(i)
    \/ BootFails(i)
    \/ Receive(i)
    \/ \E cancelled \in BOOLEAN : Finish(i, cancelled)
    \/ Stop(i)

Timer(i) ==
    \/ \E t \in Tasks : TaskTimeout(i, t)
    \/ InitTimeout(i)
    \/ GraceExpires(i)

Event(i) ==
    \/ OnReady(i)
    \/ OnLateReady(i)
    \/ OnInitError(i)
    \/ OnResult(i)
    \/ OnSlotExit(i)
    \/ OnUnlistedExit(i)
    \/ OnBootExit(i)
    \/ OnFinalExit(i)

Settles == Microtask \/ InitSettled \/ InitThrows \/ ShutdownReturns

Next ==
    \/ Caller
    \/ Settles
    \/ \E i \in Workers : Thread(i) \/ Timer(i) \/ Event(i)

Spec == Init /\ [][Next]_vars

\* The event loop handles every event, timers fire, and a terminated thread
\* stops.  Nothing makes a plugin load, finish or crash.
FairSpec ==
    /\ Spec
    /\ WF_vars(Settles)
    /\ \A i \in Workers :
        /\ WF_vars(Event(i))
        /\ WF_vars(InitTimeout(i))
        /\ WF_vars(GraceExpires(i))
        /\ WF_vars(StopTerminated(i))
        /\ \A t \in Tasks : WF_vars(TaskTimeout(i, t))

-----------------------------------------------------------------------------
\* Properties.

Pending == {t \in Tasks : main.outcome[t] = "pending"}
Inflight(i) == {t \in Tasks : main.slots[i].inflight = t}

\* A task lintBatch accepted and has not answered waits in exactly one place,
\* the queue or one listed slot, and an answered task waits nowhere: no
\* crash, timeout, failed post, respawn or shutdown loses a task or lets it
\* be answered while it is still handed on.
TasksHeldOnce ==
    /\ Pending = Range(main.queue) \union UNION {Inflight(i) : i \in Listed}
    /\ Cardinality(Range(main.queue)) = Len(main.queue)
    /\ \A i \in Listed :
        /\ Inflight(i) \cap Range(main.queue) = {}
        /\ \A j \in Listed \ {i} : Inflight(i) \cap Inflight(j) = {}

\* The cancel slots in use are exactly those of the unanswered tasks, no two
\* of which share one, and every other slot is on the free stack once: each
\* settling path gives its slot back once and never somebody else's.
CancelSlotsAccounted ==
    LET p    == main.cancelPool
        Held == {t \in Pending : main.cancelSlot[t] # NoSlot}
    IN  /\ p.inUse = {main.cancelSlot[t] : t \in Held}
        /\ Cardinality(p.inUse) = Cardinality(Held)
        /\ Range(p.free) = (0 .. p.capacity - 1) \ p.inUse
        /\ Cardinality(Range(p.free)) = Len(p.free)

\* A task is answered as cancelled only if cancelTask was called for it: a
\* flag raised for one task is never read by another that got its slot.
CancelledOnlyIfAsked ==
    \A t \in Tasks : main.outcome[t] = "cancelled" => asked[t] # "no"

\* The per-task timer measures that task's run: while a slot waits for a
\* task, its worker neither runs nor has queued any other.
TimerMeasuresItsTask ==
    \A i \in Listed : Inflight(i) # {} =>
        /\ thread[i].role = "slot"
        /\ thread[i].run \in Inflight(i) \union {NoTask}
        /\ Range(main.inbox[i]) \subseteq Inflight(i)

\* A listed slot that serves, is being respawned, or whose exit event will
\* respawn it.
ComingBack(i) ==
    \/ thread[i].role = "respawn"
    \/ thread[i].role = "slot" /\ main.slots[i].crashCount < RetryCap
    \/ thread[i].role = "slot" /\ thread[i].st = "up" /\ ~thread[i].ending

\* Tasks are given up as pool_degraded only when every slot is terminally
\* dead (drainQueueIfAllSlotsDegraded).
DegradedOnlyWhenDead ==
    [][(\E t \in Tasks : main.outcome[t] # "degraded" /\ main'.outcome[t] = "degraded")
        => \A i \in Listed : ~ComingBack(i)']_vars

\* A queued task of an open pool always has somebody who will look at it: no
\* worker is idle, and some listed slot is busy, will come back, or has an
\* exit event due that gives the queue up.
BacklogIsAttended ==
    (main.queue # << >> /\ ~main.closed /\ ~main.kick) =>
        /\ \A i \in Listed : ~IdleSlot(main, i)
        /\ \E i \in Listed : thread[i].role \in {"slot", "respawn"}

\* When shutdown() returns or init() throws, every task is answered and no
\* thread is left that loads plugins or serves: what remains has been
\* terminated or has closed its port.
NothingOutlivesThePool ==
    (shutdown = "returned" \/ init = "failed") =>
        /\ Pending = {}
        /\ \A i \in Workers : thread[i].st \in {"booting", "up"} => thread[i].ending

\* Every lintBatch returns: each of its tasks is answered although plugins
\* hang, workers crash, respawns fail or the pool shuts down.
EveryTaskSettles == \A t \in Tasks : (main.outcome[t] = "pending") ~> (main.outcome[t] # "pending")

\* init() and shutdown() return whatever the workers do.
CallsReturn ==
    /\ (init = "running") ~> (init \in {"done", "failed"})
    /\ (shutdown = "waiting") ~> (shutdown = "returned")

\* A worker is respawned at most retryCap times (WorkerPoolOptions.retryCap).
RespawnsCapped == \A i \in Workers : respawned[i] <= RetryCap
=============================================================================
