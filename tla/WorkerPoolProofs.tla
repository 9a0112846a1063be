-------------------------- MODULE WorkerPoolProofs --------------------------
(***************************************************************************)
(* Safety of the plugin worker pool, for any number of workers, tasks and  *)
(* cancel slots, any retry cap, and every interleaving of callers, timers, *)
(* messages and thread deaths.                                             *)
(***************************************************************************)
EXTENDS WorkerPool, CancelFlagPoolProofs

-----------------------------------------------------------------------------
(* The loops of the code.                                                  *)

\* The bodies of the loops over settled tasks, over the slots of kickQueue
\* and of shutdown, and over the tasks of a batch.
Body(loop, arg, p, x) ==
    CASE loop = "settle"  -> Settle(p, x, arg[x])
      [] loop = "serve"   -> Serve(p, x)
      [] loop = "stop"    -> StopSlot(p, x)
      [] loop = "enqueue" -> Enqueue(p, arg)

\* The function by which a fold over n elements is defined.
Iterates(h, loop, arg, p, xs, n) ==
    h = [s \in SUBSET (1 .. n) |->
           IF s = {} THEN p ELSE Body(loop, arg, h[s \ {Max(s)}], xs[Max(s)])]

\* The successive values of the loop.
Unrolls(c, loop, arg, p, xs, n) ==
    c[0] = p /\ \A k \in 1 .. n : c[k] = Body(loop, arg, c[k - 1], xs[k])

\* The index a fold takes last.
LEMMA MaxOfPrefix ==
    ASSUME NEW m \in Nat, NEW s \in SUBSET (1 .. (m + 1)), m + 1 \in s
    PROVE  Max(s) = m + 1
<1>1. \A y \in s : m + 1 >= y /\ y \in Nat
  OBVIOUS
<1>2. \A x \in s : (\A y \in s : x >= y) => x = m + 1
  BY <1>1
<1> QED BY <1>1, <1>2 DEF Max

\* A set of indices that is not empty has a greatest one.
LEMMA MaxInPrefix ==
    ASSUME NEW m \in Nat, NEW s \in SUBSET (1 .. m), s # {}
    PROVE  Max(s) \in s
<1> DEFINE B == {b \in Nat : b >= 1 /\ \A y \in s : b >= y}
<1>1. m \in B
  <2>1. \A y \in s : m >= y /\ y >= 1
    OBVIOUS
  <2>2. PICK y \in s : TRUE
    OBVIOUS
  <2>3. m >= 1
    BY <2>1, <2>2
  <2> QED BY <2>1, <2>3
<1>2. PICK b \in B : \A y \in B : b <= y
  <2>1. B \in SUBSET Nat /\ B # {}
    BY <1>1
  <2> HIDE DEF B
  <2> QED BY <2>1, LeastExists
<1>3. b \in s
  <2> SUFFICES ASSUME b \notin s PROVE FALSE
    OBVIOUS
  <2>1. PICK y \in s : TRUE
    OBVIOUS
  <2>2. b \in Nat /\ \A z \in s : z \in Nat /\ z >= 1 /\ b >= z /\ z # b
    BY <1>2
  <2>3. b - 1 \in Nat /\ b - 1 >= 1 /\ \A z \in s : b - 1 >= z
    BY <2>1, <2>2
  <2>4. b - 1 \in B
    BY <2>3
  <2> QED BY <1>2, <2>2, <2>4
<1>4. \E x \in s : \A y \in s : x >= y
  BY <1>2, <1>3
<1> QED BY <1>4 DEF Max

\* The function a fold is defined by exists.
LEMMA LoopExists ==
    ASSUME NEW loop, NEW arg, NEW p, NEW xs, NEW n \in Nat
    PROVE  \E h : Iterates(h, loop, arg, p, xs, n)
<1> DEFINE Defined(m) == \E h : h = [s \in SUBSET (1 .. m) |->
                            IF s = {} THEN p ELSE Body(loop, arg, h[s \ {Max(s)}], xs[Max(s)])]
           G == {m \in Nat : Defined(m)}
<1>1. 0 \in G
  <2> DEFINE h == [s \in SUBSET (1 .. 0) |-> p]
  <2>1. \A s \in SUBSET (1 .. 0) : s = {}
    OBVIOUS
  <2>2. h = [s \in SUBSET (1 .. 0) |-> IF s = {} THEN p ELSE Body(loop, arg, h[s \ {Max(s)}], xs[Max(s)])]
    BY <2>1
  <2>3. Defined(0)
    BY <2>2
  <2> QED BY <2>3
<1>2. ASSUME NEW m \in G PROVE m + 1 \in G
  <2>1. m \in Nat /\ Defined(m)
    OBVIOUS
  <2>2. PICK g : g = [s \in SUBSET (1 .. m) |->
                        IF s = {} THEN p ELSE Body(loop, arg, g[s \ {Max(s)}], xs[Max(s)])]
    BY <2>1
  <2> DEFINE h == [s \in SUBSET (1 .. (m + 1)) |->
                     IF m + 1 \in s THEN Body(loop, arg, g[s \ {m + 1}], xs[m + 1]) ELSE g[s]]
             e(s) == IF s = {} THEN p ELSE Body(loop, arg, h[s \ {Max(s)}], xs[Max(s)])
  <2>3. ASSUME NEW s \in SUBSET (1 .. (m + 1)) PROVE h[s] = e(s)
    <3>1. CASE m + 1 \in s
      <4>1. Max(s) = m + 1 /\ s # {}
        BY <2>1, <3>1, MaxOfPrefix
      <4>2. s \ {m + 1} \in SUBSET (1 .. (m + 1)) /\ m + 1 \notin s \ {m + 1}
        OBVIOUS
      <4>3. h[s \ {m + 1}] = g[s \ {m + 1}]
        BY <4>2
      <4>4. h[s] = Body(loop, arg, g[s \ {m + 1}], xs[m + 1])
        BY <3>1
      <4> HIDE DEF h
      <4> QED BY <4>1, <4>3, <4>4
    <3>2. CASE m + 1 \notin s
      <4>1. s \in SUBSET (1 .. m)
        BY <2>1, <3>2
      <4>2. h[s] = g[s]
        BY <3>2
      <4>3. CASE s = {}
        BY <2>2, <4>1, <4>2, <4>3
      <4>4. CASE s # {}
        <5>1. Max(s) \in s
          BY <2>1, <4>1, <4>4, MaxInPrefix
        <5>2. s \ {Max(s)} \in SUBSET (1 .. (m + 1)) /\ m + 1 \notin s \ {Max(s)}
          BY <3>2
        <5>3. h[s \ {Max(s)}] = g[s \ {Max(s)}]
          BY <5>2
        <5>4. g[s] = Body(loop, arg, g[s \ {Max(s)}], xs[Max(s)])
          BY <2>2, <4>1, <4>4
        <5> HIDE DEF h
        <5> QED BY <4>2, <4>4, <5>3, <5>4
      <4> QED BY <4>3, <4>4
    <3> QED BY <3>1, <3>2
  <2>4. h = [s \in SUBSET (1 .. (m + 1)) |-> h[s]]
    OBVIOUS
  <2> HIDE DEF h
  <2>5. h = [s \in SUBSET (1 .. (m + 1)) |-> e(s)]
    BY <2>3, <2>4
  <2>6. Defined(m + 1)
    BY <2>5
  <2> HIDE DEF Defined
  <2> QED BY <2>1, <2>6
<1>3. G = Nat
  <2>1. G \in SUBSET Nat
    OBVIOUS
  <2> HIDE DEF G
  <2> QED BY <1>1, <1>2, <2>1, NatSets
<1>4. n \in G
  BY <1>3
<1> QED BY <1>4 DEF Iterates

\* What such a function gives for the prefixes.
LEMMA LoopUnrolls ==
    ASSUME NEW loop, NEW arg, NEW p, NEW xs, NEW n \in Nat, NEW h,
           Iterates(h, loop, arg, p, xs, n)
    PROVE  \E c : Unrolls(c, loop, arg, p, xs, n) /\ c[n] = h[1 .. n]
<1> DEFINE c == [k \in 0 .. n |-> h[1 .. k]]
<1>1. c[0] = p
  <2>1. 1 .. 0 = {} /\ {} \in SUBSET (1 .. n)
    OBVIOUS
  <2>2. h[{}] = p
    BY <2>1 DEF Iterates
  <2> QED BY <2>1, <2>2
<1>2. c[n] = h[1 .. n]
  <2>1. n \in 0 .. n
    OBVIOUS
  <2> QED BY <2>1
<1>3. ASSUME NEW k \in 1 .. n PROVE c[k] = Body(loop, arg, c[k - 1], xs[k])
  <2>1. k - 1 \in Nat /\ k - 1 + 1 = k /\ k - 1 \in 0 .. n /\ k \in 0 .. n
    OBVIOUS
  <2>2. Max(1 .. k) = k
    <3>1. 1 .. k \in SUBSET (1 .. ((k - 1) + 1)) /\ (k - 1) + 1 \in 1 .. k
      BY <2>1
    <3>2. Max(1 .. k) = (k - 1) + 1
      BY <2>1, <3>1, MaxOfPrefix
    <3> QED BY <2>1, <3>2
  <2>3. (1 .. k) \ {k} = 1 .. (k - 1) /\ 1 .. k \in SUBSET (1 .. n) /\ 1 .. k # {}
    OBVIOUS
  <2>4. h[1 .. k] = Body(loop, arg, h[1 .. (k - 1)], xs[k])
    BY <2>2, <2>3 DEF Iterates
  <2> QED BY <2>1, <2>4
<1>4. Unrolls(c, loop, arg, p, xs, n)
  BY <1>1, <1>3 DEF Unrolls
<1> QED BY <1>2, <1>4

\* The tasks are settled one after the other.
LEMMA SettleAllUnrolls ==
    ASSUME NEW p, NEW ts, NEW how, NEW n \in Nat, DOMAIN ts = 1 .. n
    PROVE  \E c : /\ c[0] = p /\ c[n] = SettleAll(p, ts, how)
                  /\ \A k \in 1 .. n : c[k] = Settle(c[k - 1], ts[k], how[ts[k]])
<1> DEFINE D == SUBSET (1 .. n)
           e(h, s) == IF s = {} THEN p ELSE Settle(h[s \ {Max(s)}], ts[Max(s)], how[ts[Max(s)]])
<1>1. \A h, s : e(h, s) = IF s = {} THEN p ELSE Body("settle", how, h[s \ {Max(s)}], ts[Max(s)])
  BY DEF Body
<1>2. PICK g : Iterates(g, "settle", how, p, ts, n)
  BY LoopExists
<1>3. g = [s \in D |-> e(g, s)]
  <2>1. g = [s \in D |-> g[s]] /\ \A s \in D : g[s] = e(g, s)
    BY <1>1, <1>2 DEF Iterates
  <2> HIDE DEF e, D
  <2> QED BY <2>1
<1>4. PICK h : h = [s \in D |-> e(h, s)] /\ SettleAll(p, ts, how) = h[1 .. n]
  BY <1>3 DEF SettleAll, FoldLeft, MapThenFoldSet
<1>5. Iterates(h, "settle", how, p, ts, n)
  <2>1. h = [s \in D |-> h[s]] /\ \A s \in D : h[s] = e(h, s)
    BY <1>4
  <2>2. \A s \in D : h[s] = IF s = {} THEN p ELSE Body("settle", how, h[s \ {Max(s)}], ts[Max(s)])
    BY <1>1, <2>1
  <2> HIDE DEF e
  <2> QED BY <2>1, <2>2 DEF Iterates
<1>6. PICK c : Unrolls(c, "settle", how, p, ts, n) /\ c[n] = h[1 .. n]
  BY <1>5, LoopUnrolls
<1>7. \A k \in 1 .. n : c[k] = Settle(c[k - 1], ts[k], how[ts[k]])
  BY <1>6 DEF Unrolls, Body
<1> QED BY <1>4, <1>6, <1>7 DEF Unrolls

ServeAll(p) == FoldLeft(Serve, p, workers)

\* kickQueue serves one slot after the other.
LEMMA KickUnrolls ==
    ASSUME NEW p, NEW n \in Nat, DOMAIN workers = 1 .. n
    PROVE  \E c : /\ c[0] = p /\ c[n] = ServeAll(p)
                  /\ \A k \in 1 .. n : c[k] = Serve(c[k - 1], workers[k])
<1> DEFINE D == SUBSET (1 .. n)
           e(h, s) == IF s = {} THEN p ELSE Serve(h[s \ {Max(s)}], workers[Max(s)])
<1>1. \A h, s : e(h, s) = IF s = {} THEN p ELSE Body("serve", 0, h[s \ {Max(s)}], workers[Max(s)])
  BY DEF Body
<1>2. PICK g : Iterates(g, "serve", 0, p, workers, n)
  BY LoopExists
<1>3. g = [s \in D |-> e(g, s)]
  <2>1. g = [s \in D |-> g[s]] /\ \A s \in D : g[s] = e(g, s)
    BY <1>1, <1>2 DEF Iterates
  <2> HIDE DEF e, D
  <2> QED BY <2>1
<1>4. PICK h : h = [s \in D |-> e(h, s)] /\ ServeAll(p) = h[1 .. n]
  BY <1>3 DEF ServeAll, FoldLeft, MapThenFoldSet
<1>5. Iterates(h, "serve", 0, p, workers, n)
  <2>1. h = [s \in D |-> h[s]] /\ \A s \in D : h[s] = e(h, s)
    BY <1>4
  <2>2. \A s \in D : h[s] = IF s = {} THEN p ELSE Body("serve", 0, h[s \ {Max(s)}], workers[Max(s)])
    BY <1>1, <2>1
  <2> HIDE DEF e
  <2> QED BY <2>1, <2>2 DEF Iterates
<1>6. PICK c : Unrolls(c, "serve", 0, p, workers, n) /\ c[n] = h[1 .. n]
  BY <1>5, LoopUnrolls
<1>7. \A k \in 1 .. n : c[k] = Serve(c[k - 1], workers[k])
  BY <1>6 DEF Unrolls, Body
<1> QED BY <1>4, <1>6, <1>7 DEF Unrolls

\* shutdown stops one slot after the other.
LEMMA StopUnrolls ==
    ASSUME NEW p, NEW n \in Nat, DOMAIN workers = 1 .. n
    PROVE  \E c : /\ c[0] = p /\ c[n] = ShutDownSlots(p)
                  /\ \A k \in 1 .. n : c[k] = StopSlot(c[k - 1], workers[k])
<1> DEFINE D == SUBSET (1 .. n)
           e(h, s) == IF s = {} THEN p ELSE StopSlot(h[s \ {Max(s)}], workers[Max(s)])
<1>1. \A h, s : e(h, s) = IF s = {} THEN p ELSE Body("stop", 0, h[s \ {Max(s)}], workers[Max(s)])
  BY DEF Body
<1>2. PICK g : Iterates(g, "stop", 0, p, workers, n)
  BY LoopExists
<1>3. g = [s \in D |-> e(g, s)]
  <2>1. g = [s \in D |-> g[s]] /\ \A s \in D : g[s] = e(g, s)
    BY <1>1, <1>2 DEF Iterates
  <2> HIDE DEF e, D
  <2> QED BY <2>1
<1>4. PICK h : h = [s \in D |-> e(h, s)] /\ ShutDownSlots(p) = h[1 .. n]
  BY <1>3 DEF ShutDownSlots, FoldLeft, MapThenFoldSet
<1>5. Iterates(h, "stop", 0, p, workers, n)
  <2>1. h = [s \in D |-> h[s]] /\ \A s \in D : h[s] = e(h, s)
    BY <1>4
  <2>2. \A s \in D : h[s] = IF s = {} THEN p ELSE Body("stop", 0, h[s \ {Max(s)}], workers[Max(s)])
    BY <1>1, <2>1
  <2> HIDE DEF e
  <2> QED BY <2>1, <2>2 DEF Iterates
<1>6. PICK c : Unrolls(c, "stop", 0, p, workers, n) /\ c[n] = h[1 .. n]
  BY <1>5, LoopUnrolls
<1>7. \A k \in 1 .. n : c[k] = StopSlot(c[k - 1], workers[k])
  BY <1>6 DEF Unrolls, Body
<1> QED BY <1>4, <1>6, <1>7 DEF Unrolls

\* lintBatch's enqueue loop.
Batched(p, n, cancelled) == FoldLeft(LAMBDA q, t : Enqueue(q, cancelled), p, [k \in 1 .. n |-> k])

\* The tasks of a batch are enqueued one after the other.
LEMMA BatchUnrolls ==
    ASSUME NEW p, NEW cancelled, NEW n \in Nat
    PROVE  \E c : /\ c[0] = p /\ c[n] = Batched(p, n, cancelled)
                  /\ \A k \in 1 .. n : c[k] = Enqueue(c[k - 1], cancelled)
<1> DEFINE D == SUBSET (1 .. n)
           e(h, s) == IF s = {} THEN p ELSE Enqueue(h[s \ {Max(s)}], cancelled)
<1>1. \A h, s : e(h, s) = IF s = {} THEN p ELSE Body("enqueue", cancelled, h[s \ {Max(s)}], p[Max(s)])
  BY DEF Body
<1>2. PICK g : Iterates(g, "enqueue", cancelled, p, p, n)
  BY LoopExists
<1>3. g = [s \in D |-> e(g, s)]
  <2>1. g = [s \in D |-> g[s]] /\ \A s \in D : g[s] = e(g, s)
    BY <1>1, <1>2 DEF Iterates
  <2> HIDE DEF e, D
  <2> QED BY <2>1
<1>4. PICK h : h = [s \in D |-> e(h, s)] /\ Batched(p, n, cancelled) = h[1 .. n]
  BY <1>3 DEF Batched, FoldLeft, MapThenFoldSet
<1>5. Iterates(h, "enqueue", cancelled, p, p, n)
  <2>1. h = [s \in D |-> h[s]] /\ \A s \in D : h[s] = e(h, s)
    BY <1>4
  <2>2. \A s \in D : h[s] = IF s = {} THEN p ELSE Body("enqueue", cancelled, h[s \ {Max(s)}], p[Max(s)])
    BY <1>1, <2>1
  <2> HIDE DEF e
  <2> QED BY <2>1, <2>2 DEF Iterates
<1>6. PICK c : Unrolls(c, "enqueue", cancelled, p, p, n) /\ c[n] = h[1 .. n]
  BY <1>5, LoopUnrolls
<1>7. \A k \in 1 .. n : c[k] = Enqueue(c[k - 1], cancelled)
  BY <1>6 DEF Unrolls, Body
<1> QED BY <1>4, <1>6, <1>7 DEF Unrolls

-----------------------------------------------------------------------------
(* The inductive invariant.                                                *)

Answers == {"result", "cancelled", "timeout", "crashed", "post_failed", "degraded", "shutdown"}
Outcomes == Answers \cup {"none", "pending"}
Asks == {"no", "queued", "inflight"}

SlotStates == [ready : BOOLEAN, exited : BOOLEAN, respawning : BOOLEAN,
               inflight : Tasks \cup {NoTask}, crashCount : Nat]

MainStates == [closed : BOOLEAN, kick : BOOLEAN, nextTaskId : Nat \ {0},
               queue : Seq(Tasks), withdrawn : SUBSET Tasks,
               slots : [Workers -> SlotStates],
               inbox : [Workers -> Seq(Tasks \cup {NoTask})],
               cancelPool : CancelPools, cancelSlot : [Tasks -> Int],
               outcome : [Tasks -> Outcomes]]

Messages == {Ready, InitError} \cup {ResultOf(t, c) : t \in Tasks, c \in BOOLEAN}
Roles == {"none", "init", "respawn", "stray", "rejected", "slot", "unlisted", "reaped"}

Threads == [st : {"none", "booting", "up", "closing", "gone"}, ending : BOOLEAN,
            run : Tasks \cup {NoTask}, mail : Seq(Messages), role : Roles, crash : Nat]

TypeInv ==
    /\ main \in MainStates
    /\ workers \in Seq(Workers)
    /\ thread \in [Workers -> Threads]
    /\ init \in {"none", "running", "failing", "terminating", "done", "failed"}
    /\ shutdown \in {"none", "waiting", "returned"}
    /\ asked \in [Tasks -> Asks]
    /\ respawned \in [Workers -> Nat]

Waits(p, t) == p.outcome[t] = "pending"

\* Every cancel slot in use belongs to one waiting task; a raised flag was
\* raised for the task that holds it.
Accounted(p, a) ==
    /\ Booked(p.cancelPool)
    /\ \A t \in Tasks : Waits(p, t) /\ p.cancelSlot[t] # NoSlot => p.cancelSlot[t] \in p.cancelPool.inUse
    /\ \A s \in p.cancelPool.inUse : \E t \in Tasks : Waits(p, t) /\ p.cancelSlot[t] = s
    /\ \A t, u \in Tasks : Waits(p, t) /\ Waits(p, u) /\ p.cancelSlot[t] = p.cancelSlot[u]
                              => t = u \/ p.cancelSlot[t] = NoSlot
    /\ \A t \in Tasks : Waits(p, t) /\ p.cancelSlot[t] \in p.cancelPool.flag => a[t] # "no"

\* A waiting task is in the queue or in one slot, once.
HeldInv(p) ==
    /\ Distinct(p.queue)
    /\ \A t \in Tasks : Waits(p, t) <=> t \in Range(p.queue) \/ \E i \in Workers : p.slots[i].inflight = t
    /\ \A i \in Workers : p.slots[i].inflight \notin Range(p.queue)
    /\ \A i, j \in Workers : p.slots[i].inflight = p.slots[j].inflight => i = j \/ p.slots[i].inflight = NoTask
    /\ \A t \in Tasks : p.outcome[t] = "none" <=> t >= p.nextTaskId

AskedInv(p, a) ==
    /\ \A t \in p.withdrawn : a[t] # "no"
    /\ \A t \in Tasks : p.outcome[t] = "cancelled" => a[t] # "no"

\* A task that has left the queue for a worker.
Handed(p, t) == t = NoTask \/ (p.outcome[t] # "none" /\ t \notin Range(p.queue))

\* A slot of the list is served by its thread as long as it has not exited.
RoleInv(p, w, L, i) ==
    /\ w.role = "slot" => i \in L
    /\ i \in L => (w.role = "slot" <=> ~p.slots[i].exited)
    /\ i \in L /\ p.slots[i].ready => w.role = "slot"
    /\ p.inbox[i] # << >> => w.role = "slot"

\* While a slot waits for a task, its worker has nothing else to do; while it
\* waits for none, its worker has nothing to do.
TimerInv(p, w, L, i) ==
    /\ p.slots[i].inflight # NoTask =>
         /\ i \in L /\ p.slots[i].ready /\ ~p.closed
         /\ w.run \in {p.slots[i].inflight, NoTask}
         /\ p.inbox[i] # << >> => p.inbox[i] = <<p.slots[i].inflight>> /\ w.run = NoTask
         /\ \A k \in DOMAIN w.mail : w.mail[k].kind = "result" /\ w.mail[k].task = p.slots[i].inflight =>
               w.run = NoTask /\ p.inbox[i] = << >>
    /\ ~p.closed /\ i \in L /\ IdleSlot(p, i) => w.run = NoTask /\ p.inbox[i] = << >>

\* What a worker was sent, runs and answers has left the queue; it answers
\* as cancelled only what somebody cancelled.
HandedInv(p, w, a, i) ==
    /\ Handed(p, w.run)
    /\ \A k \in DOMAIN p.inbox[i] : Handed(p, p.inbox[i][k])
    /\ \A k \in DOMAIN w.mail : w.mail[k].kind = "result" =>
         /\ Handed(p, w.mail[k].task)
         /\ w.mail[k].cancelled /\ Waits(p, w.mail[k].task) => a[w.mail[k].task] # "no"

\* A slot announces a respawn exactly when one is due.
RespawnInv(p, w, L, i) ==
    /\ ~p.closed /\ i \in L /\ p.slots[i].respawning =>
         w.role \in {"slot", "respawn"} /\ (w.role = "slot" => p.slots[i].crashCount < RetryCap)
    /\ ~p.closed /\ i \in L /\ w.role = "respawn" => p.slots[i].respawning
    /\ DeadPost = "lost" /\ w.role = "slot" /\ ~p.slots[i].ready =>
         w.ending /\ (p.slots[i].respawning \/ p.slots[i].crashCount >= RetryCap)

Link(p, w, a, L, i) ==
    /\ RoleInv(p, w, L, i)
    /\ TimerInv(p, w, L, i)
    /\ HandedInv(p, w, a, i)
    /\ RespawnInv(p, w, L, i)

Ledger(p, a) == p \in MainStates /\ Accounted(p, a) /\ HeldInv(p) /\ AskedInv(p, a)

PoolState(p, th, a, L) ==
    /\ Ledger(p, a)
    /\ \A i \in Workers : Link(p, th[i], a, L, i)
    /\ p.closed => p.queue = << >>

Boots == Spawning \cup {"rejected"}
Ended(w) == w.ending \/ w.st \in {"closing", "gone"}

\* The life of one thread, whoever listens.
ThreadInv(w) ==
    /\ w.st = "none" <=> w.role = "none"
    /\ w.st = "booting" => w.mail = << >> /\ w.role \in Boots
    /\ \A k \in DOMAIN w.mail :
         /\ w.mail[k].kind \in {"ready", "init-error"} => k = 1 /\ w.role \in Boots
         /\ w.mail[k].kind = "init-error" => w.st \in {"closing", "gone"}
         /\ w.mail[k].kind = "result" => w.role = "slot"
    /\ w.run # NoTask => w.role = "slot" /\ w.st = "up"
    /\ w.role \in {"rejected", "unlisted", "reaped"} => Ended(w)

\* Whoever looks at a backlog later on: a slot that serves or comes back.
Attended(p, th, L) ==
    p.queue # << >> /\ ~p.closed =>
        /\ \E i \in L : th[i].role \in {"slot", "respawn"}
        /\ p.kick \/ \A i \in L : ~IdleSlot(p, i)

\* How far init() and shutdown() have come.
CallsInv ==
    /\ init # "done" => main.nextTaskId = 1
    /\ init = "none" => workers = << >> /\ \A i \in Workers : thread[i].role = "none"
    /\ \A i \in Workers : thread[i].role = "init" => init \in {"running", "failing"} /\ i \notin Listed
    /\ shutdown # "none" => main.closed /\ init = "done"
    /\ init \in {"terminating", "failed"} => main.closed
    /\ shutdown = "returned" \/ init = "failed" =>
         workers = << >> /\ \A i \in Workers : thread[i].role \in {"none", "rejected", "unlisted"}

IInv ==
    /\ TypeInv
    /\ PoolState(main, thread, asked, Listed)
    /\ \A i \in Workers : ThreadInv(thread[i])
    /\ Attended(main, thread, Listed)
    /\ CallsInv

-----------------------------------------------------------------------------
(* Settling.                                                               *)

\* q is p after the tasks of T were answered.
Answered(p, q, T, how) ==
    /\ q \in MainStates
    /\ q.closed = p.closed /\ q.kick = p.kick /\ q.nextTaskId = p.nextTaskId
    /\ q.queue = p.queue /\ q.withdrawn = p.withdrawn /\ q.slots = p.slots
    /\ q.inbox = p.inbox /\ q.cancelSlot = p.cancelSlot
    /\ \A t \in Tasks : q.outcome[t] = IF t \in T THEN how[t] ELSE p.outcome[t]

\* Task ids are positive; NoTask is none of them.
LEMMA TaskIds == Tasks \subseteq Nat /\ NoTask \notin Tasks
BY PoolAssumption DEF Tasks, NoTask

\* The fields of the pool's state.
LEMMA MainFields ==
    ASSUME NEW p \in MainStates
    PROVE  /\ p.closed \in BOOLEAN /\ p.kick \in BOOLEAN /\ p.nextTaskId \in Nat \ {0}
           /\ p.queue \in Seq(Tasks) /\ p.withdrawn \in SUBSET Tasks
           /\ p.slots \in [Workers -> SlotStates]
           /\ p.inbox \in [Workers -> Seq(Tasks \cup {NoTask})]
           /\ p.cancelPool \in CancelPools /\ p.cancelSlot \in [Tasks -> Int]
           /\ p.outcome \in [Tasks -> Outcomes]
           /\ \A i \in Workers : p.slots[i].inflight \in Tasks \cup {NoTask}
BY DEF MainStates, SlotStates

\* Settling one waiting task answers it and gives its cancel slot back.
LEMMA SettleOne ==
    ASSUME NEW p \in MainStates, NEW a, Accounted(p, a),
           NEW t \in Tasks, Waits(p, t), NEW how \in [Tasks -> Answers]
    PROVE  /\ Answered(p, Settle(p, t, how[t]), {t}, how)
           /\ Accounted(Settle(p, t, how[t]), a)
<1> DEFINE q == Settle(p, t, how[t])
           idx == p.cancelSlot[t]
           r == Release(p.cancelPool, idx)
<1>1. /\ Booked(r) /\ r.inUse = p.cancelPool.inUse \ {idx} /\ r.flag = p.cancelPool.flag \ {idx}
      /\ r \in CancelPools
  <2>1. idx \in Int /\ Booked(p.cancelPool)
    BY MainFields DEF Accounted
  <2>2. Booked(r) /\ r.inUse = p.cancelPool.inUse \ {idx} /\ r.flag = p.cancelPool.flag \ {idx}
    BY <2>1, ReleaseBooked
  <2> QED BY <2>2 DEF Booked
<1>2. q = [p EXCEPT !.cancelPool = r, !.outcome = [@ EXCEPT ![t] = how[t]]]
  BY DEF Settle, Waits
<1> HIDE DEF r
<1>3. how[t] \in Outcomes /\ how[t] # "pending"
  BY DEF Outcomes, Answers
<1>4. /\ q \in MainStates /\ q.cancelPool = r /\ q.cancelSlot = p.cancelSlot
      /\ q.closed = p.closed /\ q.kick = p.kick /\ q.nextTaskId = p.nextTaskId
      /\ q.queue = p.queue /\ q.withdrawn = p.withdrawn /\ q.slots = p.slots
      /\ q.inbox = p.inbox
      /\ q.outcome = [p.outcome EXCEPT ![t] = how[t]]
  <2> DEFINE o == [p.outcome EXCEPT ![t] = how[t]]
  <2>1. o \in [Tasks -> Outcomes]
    BY <1>3, MainFields
  <2>2. q = [p EXCEPT !.cancelPool = r, !.outcome = o]
    BY <1>2
  <2> HIDE DEF o
  <2>3. q \in MainStates
    BY <1>1, <2>1, <2>2 DEF MainStates
  <2>4. /\ q.cancelPool = r /\ q.cancelSlot = p.cancelSlot
        /\ q.closed = p.closed /\ q.kick = p.kick /\ q.nextTaskId = p.nextTaskId
        /\ q.queue = p.queue /\ q.withdrawn = p.withdrawn /\ q.slots = p.slots
        /\ q.inbox = p.inbox /\ q.outcome = o
    BY <2>2 DEF MainStates
  <2> QED BY <2>3, <2>4 DEF o
<1> HIDE DEF q
<1>5. \A u \in Tasks : q.outcome[u] = IF u \in {t} THEN how[u] ELSE p.outcome[u]
  BY <1>4, MainFields
<1>6. \A u \in Tasks : Waits(q, u) <=> Waits(p, u) /\ u # t
  BY <1>3, <1>5 DEF Waits
<1>7. Accounted(q, a)
  <2>1. ASSUME NEW u \in Tasks, Waits(q, u), q.cancelSlot[u] # NoSlot
        PROVE  q.cancelSlot[u] \in r.inUse
    BY <1>1, <1>4, <1>6, <2>1 DEF Accounted
  <2>2. ASSUME NEW s \in r.inUse PROVE \E u \in Tasks : Waits(q, u) /\ q.cancelSlot[u] = s
    <3>1. PICK u \in Tasks : Waits(p, u) /\ p.cancelSlot[u] = s
      BY <1>1 DEF Accounted
    <3>2. u # t
      BY <1>1, <3>1
    <3> QED BY <1>4, <1>6, <3>1, <3>2
  <2> QED BY <1>1, <1>4, <1>6, <2>1, <2>2 DEF Accounted
<1> QED BY <1>4, <1>5, <1>7 DEF q, Answered

\* Settling several waiting tasks.
LEMMA SettleMany ==
    ASSUME NEW p \in MainStates, NEW a, Accounted(p, a),
           NEW ts \in Seq(Tasks), Distinct(ts), \A k \in DOMAIN ts : Waits(p, ts[k]),
           NEW how \in [Tasks -> Answers]
    PROVE  /\ Answered(p, SettleAll(p, ts, how), Range(ts), how)
           /\ Accounted(SettleAll(p, ts, how), a)
<1> DEFINE n == Len(ts)
           T(m) == {ts[j] : j \in 1 .. m}
<1>1. n \in Nat /\ DOMAIN ts = 1 .. n
  OBVIOUS
<1>2. PICK c : /\ c[0] = p /\ c[n] = SettleAll(p, ts, how)
               /\ \A k \in 1 .. n : c[k] = Settle(c[k - 1], ts[k], how[ts[k]])
  BY <1>1, SettleAllUnrolls
<1> DEFINE G == {k \in 0 .. n : Answered(p, c[k], T(k), how) /\ Accounted(c[k], a)}
<1>3. 0 \in G
  <2>1. T(0) = {}
    OBVIOUS
  <2> HIDE DEF T
  <2>2. Answered(p, p, T(0), how)
    BY <2>1 DEF Answered
  <2> QED BY <1>1, <1>2, <2>2
<1>4. ASSUME NEW k \in 1 .. n, k - 1 \in G PROVE k \in G
  <2>1. Answered(p, c[k - 1], T(k - 1), how) /\ Accounted(c[k - 1], a)
    BY <1>4
  <2>2. ts[k] \in Tasks /\ ts[k] \notin T(k - 1) /\ T(k) = T(k - 1) \cup {ts[k]}
    <3>1. ts[k] \in Tasks
      BY <1>1
    <3>2. \A j \in 1 .. (k - 1) : j \in DOMAIN ts /\ k \in DOMAIN ts /\ j # k
      BY <1>1
    <3>3. ts[k] \notin T(k - 1)
      BY <3>2 DEF Distinct
    <3>4. 1 .. k = (1 .. (k - 1)) \cup {k}
      BY <1>1
    <3> QED BY <3>1, <3>3, <3>4
  <2> HIDE DEF T
  <2>3. Waits(c[k - 1], ts[k])
    BY <1>1, <2>1, <2>2 DEF Answered, Waits
  <2>4. /\ Answered(c[k - 1], c[k], {ts[k]}, how)
        /\ Accounted(c[k], a)
    BY <1>2, <2>1, <2>2, <2>3, SettleOne DEF Answered
  <2>5. Answered(p, c[k], T(k), how)
    BY <2>1, <2>2, <2>4 DEF Answered
  <2> QED BY <2>4, <2>5
<1>5. n \in G
  <2> HIDE DEF G
  <2> QED BY <1>1, <1>3, <1>4, UpTo
<1>6. T(n) = Range(ts)
  BY <1>1 DEF Range
<1> QED BY <1>2, <1>5, <1>6

-----------------------------------------------------------------------------
(* What survives a change elsewhere.                                       *)

\* The fields of a message.
LEMMA MessageFacts ==
    ASSUME NEW m \in Messages
    PROVE  /\ m.kind \in {"ready", "init-error", "result"}
           /\ m.kind = "result" => m.task \in Tasks /\ m.cancelled \in BOOLEAN
<1>1. CASE m \in {Ready, InitError}
  BY <1>1 DEF Ready, InitError
<1>2. CASE m \in {ResultOf(t, c) : t \in Tasks, c \in BOOLEAN}
  BY <1>2 DEF ResultOf
<1> QED BY <1>1, <1>2 DEF Messages

\* The fields of a thread.
LEMMA ThreadFields ==
    ASSUME NEW w \in Threads
    PROVE  /\ w.run \in Tasks \cup {NoTask} /\ w.mail \in Seq(Messages) /\ w.ending \in BOOLEAN
           /\ w.crash \in Nat /\ w.role \in Roles
           /\ \A k \in DOMAIN w.mail : w.mail[k].kind = "result" => w.mail[k].task \in Tasks
<1>1. w.mail \in Seq(Messages)
  BY DEF Threads
<1>2. \A k \in DOMAIN w.mail : w.mail[k] \in Messages
  BY <1>1
<1> QED BY <1>1, <1>2, MessageFacts DEF Threads

\* q comes after p: tasks only get answered, and only new ones are queued.
Later(p, q) ==
    \A t \in Tasks :
        /\ p.outcome[t] # "none" => q.outcome[t] # "none"
        /\ t \in Range(q.queue) => t \in Range(p.queue) \/ p.outcome[t] = "none"
        /\ Waits(q, t) => Waits(p, t) \/ p.outcome[t] = "none"

\* Later is transitive.
LEMMA LaterTransitive ==
    ASSUME NEW p, NEW q, NEW r, Later(p, q), Later(q, r)
    PROVE  Later(p, r)
BY DEF Later

\* Handed tasks stay handed.
LEMMA HandedKept ==
    ASSUME NEW p, NEW q, Later(p, q), NEW t \in Tasks \cup {NoTask}, Handed(p, t)
    PROVE  Handed(q, t) /\ (t # NoTask /\ Waits(q, t) => Waits(p, t))
BY DEF Handed, Later

\* What a worker was handed stays handed.
LEMMA HandedInvKept ==
    ASSUME NEW p \in MainStates, NEW q \in MainStates, NEW w \in Threads, NEW a, NEW b,
           NEW i \in Workers, HandedInv(p, w, a, i), Later(p, q),
           q.inbox[i] = p.inbox[i], \A t \in Tasks : a[t] # "no" => b[t] # "no"
    PROVE  HandedInv(q, w, b, i)
<1>1. Handed(q, w.run)
  BY HandedKept, ThreadFields DEF HandedInv
<1>2. ASSUME NEW k \in DOMAIN q.inbox[i] PROVE Handed(q, q.inbox[i][k])
  <2>1. q.inbox[i] \in Seq(Tasks \cup {NoTask})
    BY MainFields
  <2>2. q.inbox[i][k] \in Tasks \cup {NoTask}
    BY <2>1
  <2>3. Handed(p, q.inbox[i][k])
    BY DEF HandedInv
  <2> QED BY <2>2, <2>3, HandedKept
<1>3. ASSUME NEW k \in DOMAIN w.mail, w.mail[k].kind = "result"
      PROVE  /\ Handed(q, w.mail[k].task)
             /\ w.mail[k].cancelled /\ Waits(q, w.mail[k].task) => b[w.mail[k].task] # "no"
  <2>1. w.mail[k].task \in Tasks /\ w.mail[k].task # NoTask
    BY <1>3, ThreadFields, TaskIds
  <2>2. Handed(p, w.mail[k].task)
    BY <1>3 DEF HandedInv
  <2>3. Handed(q, w.mail[k].task) /\ (Waits(q, w.mail[k].task) => Waits(p, w.mail[k].task))
    BY <2>1, <2>2, HandedKept
  <2> QED BY <1>3, <2>1, <2>3 DEF HandedInv
<1> QED BY <1>1, <1>2, <1>3 DEF HandedInv

\* A slot that a change does not touch stays linked to its thread.
LEMMA LinkKept ==
    ASSUME NEW p \in MainStates, NEW q \in MainStates, NEW w \in Threads, NEW a, NEW b, NEW L,
           NEW i \in Workers, Link(p, w, a, L, i), Later(p, q),
           q.slots[i] = p.slots[i], q.inbox[i] = p.inbox[i], q.closed = p.closed,
           \A t \in Tasks : a[t] # "no" => b[t] # "no"
    PROVE  Link(q, w, b, L, i)
<1>1. RoleInv(q, w, L, i)
  BY DEF Link, RoleInv
<1>2. TimerInv(q, w, L, i)
  BY DEF Link, TimerInv, IdleSlot
<1>3. HandedInv(q, w, b, i)
  BY HandedInvKept DEF Link
<1>4. RespawnInv(q, w, L, i)
  BY DEF Link, RespawnInv
<1> QED BY <1>1, <1>2, <1>3, <1>4 DEF Link

\* q is p after the tasks of T were answered and taken from where they wait.
Narrows(p, q, a, T, how) ==
    /\ Accounted(q, a)
    /\ T \in SUBSET Tasks /\ how \in [Tasks -> Answers]
    /\ \A t \in T : Waits(p, t) /\ (how[t] = "cancelled" => a[t] # "no")
    /\ \A t \in Tasks : q.outcome[t] = IF t \in T THEN how[t] ELSE p.outcome[t]
    /\ q.nextTaskId = p.nextTaskId /\ q.withdrawn = p.withdrawn
    /\ Distinct(q.queue) /\ Range(q.queue) \subseteq Range(p.queue)
    /\ \A i \in Workers : q.slots[i].inflight \in {p.slots[i].inflight, NoTask}
    /\ \A t \in Tasks : t \in Range(q.queue) \/ (\E i \in Workers : q.slots[i].inflight = t)
          <=> /\ t \notin T
              /\ t \in Range(p.queue) \/ \E i \in Workers : p.slots[i].inflight = t

\* Such a step keeps the ledger.
LEMMA Narrowed ==
    ASSUME NEW p \in MainStates, NEW q \in MainStates, NEW a, NEW T, NEW how,
           Ledger(p, a), Narrows(p, q, a, T, how)
    PROVE  Ledger(q, a) /\ Later(p, q)
<1>1. \A t \in Tasks : how[t] # "pending" /\ how[t] # "none"
  BY DEF Answers, Narrows
<1>2. \A t \in Tasks : Waits(q, t) <=> Waits(p, t) /\ t \notin T
  BY <1>1 DEF Waits, Narrows
<1>3. \A t \in Tasks : q.outcome[t] = "none" <=> p.outcome[t] = "none"
  BY <1>1 DEF Waits, Narrows
<1>4. HeldInv(q)
  <2>1. \A t \in Tasks : Waits(q, t) <=> t \in Range(q.queue) \/ \E i \in Workers : q.slots[i].inflight = t
    BY <1>2 DEF Ledger, HeldInv, Narrows
  <2>2. ASSUME NEW i \in Workers PROVE q.slots[i].inflight \notin Range(q.queue)
    <3>1. NoTask \notin Range(q.queue)
      <4>1. q.queue \in Seq(Tasks)
        BY MainFields
      <4> QED BY <4>1, TaskIds DEF Range
    <3> QED BY <3>1 DEF Ledger, HeldInv, Narrows
  <2>3. ASSUME NEW i \in Workers, NEW j \in Workers, q.slots[i].inflight = q.slots[j].inflight
        PROVE  i = j \/ q.slots[i].inflight = NoTask
    BY <2>3 DEF Ledger, HeldInv, Narrows
  <2> QED BY <1>3, <2>1, <2>2, <2>3 DEF Ledger, HeldInv, Narrows
<1>5. AskedInv(q, a)
  BY DEF Ledger, AskedInv, Narrows
<1>6. Later(p, q)
  BY <1>2, <1>3 DEF Later, Narrows
<1> QED BY <1>4, <1>5, <1>6 DEF Ledger, Narrows

\* Accounted reads three fields.
LEMMA AccountedCopy ==
    ASSUME NEW p, NEW q, NEW a, Accounted(p, a),
           q.cancelPool = p.cancelPool, q.cancelSlot = p.cancelSlot, q.outcome = p.outcome
    PROVE  Accounted(q, a)
BY DEF Accounted, Waits

-----------------------------------------------------------------------------
(* Emptying the queue.                                                     *)

\* The queue is v now; what answering queued tasks leaves alone.
QueueOnly(p, q, v) ==
    /\ q \in MainStates
    /\ q.queue = v
    /\ q.closed = p.closed /\ q.kick = p.kick /\ q.nextTaskId = p.nextTaskId
    /\ q.withdrawn = p.withdrawn /\ q.slots = p.slots /\ q.inbox = p.inbox

\* u and v share the elements of s out.
Splits(s, u, v) ==
    /\ u \in Seq(Tasks) /\ v \in Seq(Tasks) /\ Distinct(u) /\ Distinct(v)
    /\ Range(s) = Range(u) \cup Range(v) /\ Range(u) \cap Range(v) = {}

WithQueue(p, v) == [p EXCEPT !.queue = v]

\* The answers given to the tasks of T.
Justified(how, T, a) ==
    how \in [Tasks -> Answers] /\ \A t \in T : how[t] = "cancelled" => a[t] # "no"

\* The tasks of u leave the queue with an answer, those of v stay.
LEMMA CutQueue ==
    ASSUME NEW p \in MainStates, NEW a, Ledger(p, a), NEW u, NEW v, Splits(p.queue, u, v),
           NEW how, Justified(how, Range(u), a)
    PROVE  LET q == WithQueue(SettleAll(p, u, how), v) IN
           /\ Ledger(q, a) /\ Later(p, q) /\ QueueOnly(p, q, v)
           /\ \A t \in Tasks : q.outcome[t] = IF t \in Range(u) THEN how[t] ELSE p.outcome[t]
<1> DEFINE r == SettleAll(p, u, how)
           T == Range(u)
           q == WithQueue(r, v)
<1>9. /\ u \in Seq(Tasks) /\ v \in Seq(Tasks) /\ Distinct(u) /\ Distinct(v)
      /\ Range(p.queue) = Range(u) \cup Range(v) /\ Range(u) \cap Range(v) = {}
      /\ how \in [Tasks -> Answers] /\ \A t \in Range(u) : how[t] = "cancelled" => a[t] # "no"
  BY DEF Splits, Justified
<1>1. T \in SUBSET Tasks /\ \A k \in DOMAIN u : u[k] \in T
  BY <1>9 DEF Range
<1>2. \A t \in T : Waits(p, t)
  BY <1>1, <1>9 DEF Ledger, HeldInv
<1>3. Answered(p, r, T, how) /\ Accounted(r, a)
  <2>1. Accounted(p, a) /\ \A k \in DOMAIN u : Waits(p, u[k])
    BY <1>1, <1>2 DEF Ledger
  <2> QED BY <1>9, <2>1, SettleMany
<1>0. q = [r EXCEPT !.queue = v]
  BY DEF WithQueue
<1> HIDE DEF r, q
<1>4. /\ q \in MainStates /\ q.queue = v /\ q.cancelPool = r.cancelPool /\ q.outcome = r.outcome
      /\ q.cancelSlot = r.cancelSlot /\ q.closed = p.closed /\ q.kick = p.kick
      /\ q.nextTaskId = p.nextTaskId /\ q.withdrawn = p.withdrawn /\ q.slots = p.slots
      /\ q.inbox = p.inbox
  BY <1>0, <1>3, <1>9 DEF Answered, MainStates
<1>5. \A t \in Tasks : q.outcome[t] = IF t \in T THEN how[t] ELSE p.outcome[t]
  BY <1>3, <1>4 DEF Answered
<1>6. Accounted(q, a)
  BY <1>3, <1>4, AccountedCopy
<1>7. Ledger(q, a) /\ Later(p, q)
  <2>1. \A t \in T : Waits(p, t) /\ (how[t] = "cancelled" => a[t] # "no")
    BY <1>2, <1>9
  <2>2. \A i \in Workers : q.slots[i].inflight \in {p.slots[i].inflight, NoTask}
    BY <1>4
  <2>3. \A t \in Tasks : t \in Range(q.queue) \/ (\E i \in Workers : q.slots[i].inflight = t)
           <=> /\ t \notin T
               /\ t \in Range(p.queue) \/ \E i \in Workers : p.slots[i].inflight = t
    BY <1>4, <1>9 DEF Ledger, HeldInv
  <2> HIDE DEF T
  <2>4. Range(q.queue) \subseteq Range(p.queue) /\ Distinct(q.queue)
    BY <1>4, <1>9
  <2>5. Narrows(p, q, a, T, how)
    BY <1>1, <1>4, <1>5, <1>6, <1>9, <2>1, <2>2, <2>3, <2>4 DEF Narrows
  <2> QED BY <1>4, <2>5, Narrowed
<1> QED BY <1>4, <1>5, <1>7 DEF QueueOnly, q, r

\* The cancelled tasks at the head of the queue.
LEMMA HeadFacts ==
    ASSUME NEW p \in MainStates
    PROVE  \E n \in 0 .. Len(p.queue) :
              /\ CancelledHead(p) = SubSeq(p.queue, 1, n)
              /\ \A k \in 1 .. n : p.queue[k] \in p.withdrawn
<1> DEFINE Live == {k \in 1 .. Len(p.queue) : p.queue[k] \notin p.withdrawn}
           n == IF Live = {} THEN Len(p.queue)
                ELSE (CHOOSE k \in Live : \A l \in Live : k <= l) - 1
<1>1. CancelledHead(p) = SubSeq(p.queue, 1, n)
  BY DEF CancelledHead
<1>2. p.queue \in Seq(Tasks) /\ Len(p.queue) \in Nat
  BY MainFields
<1>3. CASE Live = {}
  <2>1. n = Len(p.queue)
    BY <1>3
  <2>2. \A k \in 1 .. Len(p.queue) : p.queue[k] \in p.withdrawn
    BY <1>3
  <2>3. CancelledHead(p) = SubSeq(p.queue, 1, Len(p.queue))
    BY <1>1, <2>1
  <2> QED BY <1>2, <2>2, <2>3
<1>4. CASE Live # {}
  <2>1. \E x \in Live : \A y \in Live : x <= y
    <3>1. Live \in SUBSET Nat
      BY <1>2
    <3> HIDE DEF Live
    <3> QED BY <1>4, <3>1, LeastExists
  <2> DEFINE x == CHOOSE k \in Live : \A l \in Live : k <= l
  <2>2. x \in Live /\ \A l \in Live : x <= l
    BY <2>1
  <2>3. n = x - 1
    BY <1>4
  <2> HIDE DEF x, n
  <2>4. x \in 1 .. Len(p.queue) /\ n \in 0 .. Len(p.queue)
    BY <1>2, <2>2, <2>3
  <2>5. ASSUME NEW k \in 1 .. n PROVE p.queue[k] \in p.withdrawn
    <3>1. k \in 1 .. Len(p.queue) /\ ~(x <= k)
      BY <1>2, <2>3, <2>4
    <3>2. k \notin Live
      BY <2>2, <3>1
    <3> QED BY <3>1, <3>2
  <2> QED BY <1>1, <2>4, <2>5
<1> QED BY <1>3, <1>4

\* z is p after the cancelled head of the queue was answered; v is left.
Skipped(p, z, a, v) ==
    /\ v \in Seq(Tasks)
    /\ Ledger(z, a) /\ Later(p, z) /\ QueueOnly(p, z, v)
    /\ \A t \in Tasks : z.outcome[t] = p.outcome[t] \/ (z.outcome[t] = "cancelled" /\ Waits(p, t))
    /\ v # << >> => p.queue # << >>

\* kickQueue skips the cancelled head of the queue.
LEMMA SkipKeeps ==
    ASSUME NEW p \in MainStates, NEW a, Ledger(p, a), NEW u, u = CancelledHead(p),
           NEW v, v = SubSeq(p.queue, Len(u) + 1, Len(p.queue))
    PROVE  Skipped(p, WithQueue(SettleAll(p, u, Each("cancelled")), v), a, v)
<1>1. PICK n \in 0 .. Len(p.queue) :
              /\ u = SubSeq(p.queue, 1, n)
              /\ \A k \in 1 .. n : p.queue[k] \in p.withdrawn
  BY HeadFacts
<1>2. p.queue \in Seq(Tasks) /\ Distinct(p.queue)
  BY MainFields DEF Ledger, HeldInv
<1>3. u \in Seq(Tasks) /\ DOMAIN u = 1 .. n /\ \A k \in 1 .. n : u[k] = p.queue[k]
  BY <1>1, <1>2, Cut
<1>4. Len(u) = n
  BY <1>1, <1>3
<1>5. v = SubSeq(p.queue, n + 1, Len(p.queue))
  BY <1>4
<1>6. /\ v \in Seq(Tasks) /\ Range(p.queue) = Range(u) \cup Range(v)
      /\ Distinct(u) /\ Distinct(v) /\ Range(u) \cap Range(v) = {}
      /\ n = Len(p.queue) => v = << >>
  <2> HIDE DEF Distinct
  <2>1. n = Len(p.queue) => v = << >>
    BY <1>2, <1>5, Cut
  <2>2. /\ v \in Seq(Tasks) /\ Range(p.queue) = Range(u) \cup Range(v)
        /\ Distinct(u) /\ Distinct(v) /\ Range(u) \cap Range(v) = {}
    BY <1>1, <1>2, <1>5, Cut
  <2> QED BY <2>1, <2>2
<1>7. \A t \in Range(u) : a[t] # "no"
  BY <1>1, <1>3 DEF Ledger, AskedInv, Range
<1> DEFINE how == Each("cancelled")
           z == WithQueue(SettleAll(p, u, how), v)
<1>8. how \in [Tasks -> Answers] /\ \A t \in Tasks : how[t] = "cancelled"
  BY DEF Each, Answers
<1> HIDE DEF how
<1>9. Justified(how, Range(u), a) /\ Splits(p.queue, u, v)
  BY <1>3, <1>6, <1>7, <1>8 DEF Justified, Splits
<1>10. Ledger(z, a) /\ Later(p, z) /\ QueueOnly(p, z, v)
  BY <1>9, CutQueue
<1>11. \A t \in Tasks : z.outcome[t] = IF t \in Range(u) THEN how[t] ELSE p.outcome[t]
  BY <1>9, CutQueue
<1> HIDE DEF z
<1>12. \A t \in Range(u) : Waits(p, t) /\ t \in Tasks
  <2>1. Range(u) \subseteq Tasks
    BY <1>3 DEF Range
  <2> QED BY <1>6, <2>1 DEF Ledger, HeldInv
<1>13. v # << >> => p.queue # << >>
  <2>1. ASSUME p.queue = << >> PROVE n = Len(p.queue)
    BY <2>1
  <2> QED BY <1>6, <2>1
<1>14. \A t \in Tasks : z.outcome[t] = p.outcome[t] \/ (z.outcome[t] = "cancelled" /\ Waits(p, t))
  BY <1>8, <1>11, <1>12
<1>15. Skipped(p, z, a, v)
  BY <1>6, <1>10, <1>13, <1>14 DEF Skipped
<1> QED BY <1>15 DEF z, how

\* The pool's state after a change of the queue alone.
LEMMA PoolKept ==
    ASSUME NEW p, NEW th \in [Workers -> Threads], NEW a, NEW L,
           PoolState(p, th, a, L), NEW q, Ledger(q, a), Later(p, q),
           q.slots = p.slots, q.inbox = p.inbox, q.closed = p.closed,
           q.closed => q.queue = << >>
    PROVE  PoolState(q, th, a, L)
<1>1. p \in MainStates /\ q \in MainStates
  BY DEF PoolState, Ledger
<1>2. ASSUME NEW i \in Workers PROVE Link(q, th[i], a, L, i)
  <2>1. Link(p, th[i], a, L, i) /\ th[i] \in Threads /\ q.slots[i] = p.slots[i] /\ q.inbox[i] = p.inbox[i]
    BY DEF PoolState
  <2> QED BY <1>1, <2>1, LinkKept
<1> QED BY <1>2 DEF PoolState

\* What drainQueueIfAllSlotsDegraded does.
Drained(p, q) ==
    /\ QueueOnly(p, q, q.queue)
    /\ q.queue \in {p.queue, << >>}
    /\ q.queue # << >> /\ ~p.closed => \E i \in Listed : Recoverable(p.slots[i])
    /\ \A t \in Tasks : q.outcome[t] = "degraded" /\ p.outcome[t] # "degraded" =>
          ~p.closed /\ \A i \in Listed : ~Recoverable(p.slots[i])

\* Giving a backlog up keeps the ledger, and happens only when no slot of the
\* list can come back.
LEMMA DrainKeeps ==
    ASSUME NEW p, NEW a, Ledger(p, a)
    PROVE  /\ Ledger(DrainIfDegraded(p), a) /\ Later(p, DrainIfDegraded(p))
           /\ Drained(p, DrainIfDegraded(p))
<1> DEFINE q == DrainIfDegraded(p)
<1>1. p \in MainStates
  BY DEF Ledger
<1>2. CASE p.closed \/ \E i \in Listed : Recoverable(p.slots[i])
  <2>1. q = p
    BY <1>2 DEF DrainIfDegraded
  <2>2. Later(p, p)
    BY DEF Later
  <2> QED BY <1>1, <1>2, <2>1, <2>2 DEF Drained, QueueOnly
<1>3. CASE ~(p.closed \/ \E i \in Listed : Recoverable(p.slots[i]))
  <2> DEFINE how == Each("degraded")
  <2>1. q = WithQueue(SettleAll(p, p.queue, how), << >>)
    BY <1>3 DEF DrainIfDegraded, WithQueue
  <2>2. Justified(how, Range(p.queue), a)
    <3>1. \A t \in Tasks : how[t] = "degraded"
      BY DEF Each
    <3>2. Range(p.queue) \subseteq Tasks
      <4>1. p.queue \in Seq(Tasks)
        BY <1>1, MainFields
      <4> QED BY <4>1 DEF Range
    <3> QED BY <3>1, <3>2 DEF Justified, Answers, Each
  <2> HIDE DEF how
  <2>3. Splits(p.queue, p.queue, << >>)
    <3>1. p.queue \in Seq(Tasks) /\ Distinct(p.queue)
      BY <1>1, MainFields DEF Ledger, HeldInv
    <3>2. << >> \in Seq(Tasks) /\ Range(<< >>) = {} /\ Distinct(<< >>)
      BY DEF Range, Distinct
    <3> QED BY <3>1, <3>2 DEF Splits
  <2> DEFINE z == WithQueue(SettleAll(p, p.queue, how), << >>)
  <2>4. Ledger(z, a) /\ Later(p, z) /\ QueueOnly(p, z, << >>)
    BY <1>1, <2>2, <2>3, CutQueue
  <2>5. q = z
    BY <2>1
  <2> HIDE DEF z, q
  <2>6. Drained(p, q)
    <3>1. QueueOnly(p, q, << >>)
      BY <2>4, <2>5
    <3> QED BY <1>3, <3>1 DEF Drained, QueueOnly
  <2> QED BY <2>4, <2>5, <2>6 DEF q
<1> QED BY <1>2, <1>3

-----------------------------------------------------------------------------
(* Handing tasks out.                                                      *)

\* What serving slots leaves alone, and that no slot becomes idle.
Served(p, q) ==
    /\ q.closed = p.closed /\ q.nextTaskId = p.nextTaskId /\ q.withdrawn = p.withdrawn
    /\ p.kick => q.kick
    /\ q.queue # << >> => p.queue # << >>
    /\ \A t \in Tasks : q.outcome[t] = "degraded" <=> p.outcome[t] = "degraded"
    /\ \A j \in Workers : /\ q.slots[j].exited = p.slots[j].exited
                          /\ ~IdleSlot(p, j) => ~IdleSlot(q, j)

\* The state a task is posted in.
LEMMA HeadTaken ==
    ASSUME NEW p, NEW a, Ledger(p, a), p.queue # << >>
    PROVE  LET h == WithQueue(p, Tail(p.queue))
               t == Head(p.queue) IN
           /\ QueueOnly(p, h, Tail(p.queue)) /\ h.outcome = p.outcome
           /\ h.cancelPool = p.cancelPool /\ h.cancelSlot = p.cancelSlot
           /\ t \in Tasks /\ t \in Range(p.queue) /\ Waits(p, t)
           /\ Distinct(Tail(p.queue)) /\ t \notin Range(Tail(p.queue))
           /\ Range(p.queue) = Range(Tail(p.queue)) \cup {t}
<1> DEFINE v == Tail(p.queue)
           h == WithQueue(p, v)
           t == Head(p.queue)
<1>1. p \in MainStates /\ p.queue \in Seq(Tasks) /\ Distinct(p.queue)
  BY MainFields DEF Ledger, HeldInv
<1>2. /\ v \in Seq(Tasks) /\ t \in Range(p.queue) /\ t \in Tasks
      /\ Range(p.queue) = Range(v) \cup {t}
      /\ Distinct(v) /\ t \notin Range(v)
  BY <1>1, HeadPopped
<1>3. Waits(p, t)
  BY <1>2 DEF Ledger, HeldInv
<1> HIDE DEF v
<1>4. /\ h \in MainStates /\ h.queue = v
      /\ h.closed = p.closed /\ h.kick = p.kick /\ h.nextTaskId = p.nextTaskId
      /\ h.withdrawn = p.withdrawn /\ h.slots = p.slots /\ h.inbox = p.inbox
      /\ h.cancelPool = p.cancelPool /\ h.cancelSlot = p.cancelSlot /\ h.outcome = p.outcome
  BY <1>1, <1>2 DEF WithQueue, MainStates
<1> QED BY <1>2, <1>3, <1>4 DEF QueueOnly, v

FailedPost(p, i, t, x) ==
    [Settle(p, t, "post_failed") EXCEPT !.slots[i].ready = x, !.kick = TRUE]

\* postMessage failed: the task at the head is answered and its slot waits
\* for the microtask.
LEMMA DispatchFails ==
    ASSUME NEW p, NEW th \in [Workers -> Threads], NEW a, NEW L \in SUBSET Workers,
           PoolState(p, th, a, L), p.queue # << >>, ~p.closed,
           NEW i \in L, IdleSlot(p, i), NEW x \in BOOLEAN, DeadPost = "lost" => x,
           NEW q, q = FailedPost(WithQueue(p, Tail(p.queue)), i, Head(p.queue), x)
    PROVE  PoolState(q, th, a, L) /\ Served(p, q) /\ q.kick
<1> DEFINE v == Tail(p.queue)
           h == WithQueue(p, v)
           t == Head(p.queue)
           how == Each("post_failed")
           r == Settle(h, t, how[t])
           c == [p.slots[i] EXCEPT !.ready = x]
           sl == [p.slots EXCEPT ![i] = c]
<1>1. Ledger(p, a) /\ p \in MainStates /\ i \in Workers
  BY DEF PoolState, Ledger
<1>2. /\ QueueOnly(p, h, v) /\ h.outcome = p.outcome
      /\ h.cancelPool = p.cancelPool /\ h.cancelSlot = p.cancelSlot
      /\ t \in Tasks /\ t \in Range(p.queue) /\ Waits(p, t)
      /\ Distinct(v) /\ t \notin Range(v)
      /\ Range(p.queue) = Range(v) \cup {t}
  BY <1>1, HeadTaken
<1>3. how \in [Tasks -> Answers] /\ \A u \in Tasks : how[u] = "post_failed"
  BY DEF Each, Answers
<1>4. q = [r EXCEPT !.slots[i].ready = x, !.kick = TRUE]
  BY <1>2, <1>3 DEF FailedPost
<1> HIDE DEF h, v, t, how
<1>5. Answered(h, r, {t}, how)
  <2>1. Accounted(h, a) /\ Waits(h, t) /\ h \in MainStates
    BY <1>1, <1>2, AccountedCopy DEF Ledger, QueueOnly, Waits
  <2> QED BY <1>2, <1>3, <2>1, SettleOne
<1>6. Accounted(r, a)
  <2>1. Accounted(h, a) /\ Waits(h, t) /\ h \in MainStates
    BY <1>1, <1>2, AccountedCopy DEF Ledger, QueueOnly, Waits
  <2> QED BY <1>2, <1>3, <2>1, SettleOne
<1> HIDE DEF r
<1>7. /\ sl \in [Workers -> SlotStates]
      /\ \A j \in Workers : /\ j # i => sl[j] = p.slots[j]
                            /\ sl[j].inflight = p.slots[j].inflight
                            /\ sl[j].exited = p.slots[j].exited
      /\ sl[i].ready = x /\ sl[i].respawning = p.slots[i].respawning
      /\ sl[i].crashCount = p.slots[i].crashCount
  <2>1. p.slots \in [Workers -> SlotStates] /\ p.slots[i] \in SlotStates
    BY <1>1, MainFields
  <2>2. /\ c \in SlotStates /\ c.ready = x /\ c.respawning = p.slots[i].respawning
        /\ c.crashCount = p.slots[i].crashCount /\ c.inflight = p.slots[i].inflight
        /\ c.exited = p.slots[i].exited
    BY <2>1 DEF SlotStates
  <2> HIDE DEF c
  <2> QED BY <1>1, <2>1, <2>2
<1>8. q = [r EXCEPT !.slots = sl, !.kick = TRUE]
  BY <1>2, <1>4, <1>5 DEF Answered, QueueOnly
<1> HIDE DEF sl
<1>9. /\ q \in MainStates /\ q.slots = sl /\ q.kick = TRUE /\ q.closed = p.closed
      /\ q.nextTaskId = p.nextTaskId /\ q.withdrawn = p.withdrawn /\ q.queue = v
      /\ q.inbox = p.inbox /\ q.cancelPool = r.cancelPool /\ q.cancelSlot = r.cancelSlot
      /\ q.outcome = r.outcome
  BY <1>2, <1>5, <1>7, <1>8 DEF Answered, QueueOnly, MainStates
<1>10. \A u \in Tasks : q.outcome[u] = IF u \in {t} THEN how[u] ELSE p.outcome[u]
  BY <1>2, <1>5, <1>9 DEF Answered
<1>11. Ledger(q, a) /\ Later(p, q)
  <2>1. Accounted(q, a)
    BY <1>6, <1>9, AccountedCopy
  <2>2. \A u \in {t} : Waits(p, u) /\ (how[u] = "cancelled" => a[u] # "no")
    BY <1>2, <1>3
  <2>3. \A j \in Workers : p.slots[j].inflight # t
    BY <1>1, <1>2 DEF Ledger, HeldInv
  <2>4. \A j \in Workers : q.slots[j].inflight = p.slots[j].inflight
    BY <1>7, <1>9
  <2>5. ASSUME NEW u \in Tasks
        PROVE  u \in Range(q.queue) \/ (\E j \in Workers : q.slots[j].inflight = u)
                 <=> /\ u \notin {t}
                     /\ u \in Range(p.queue) \/ \E j \in Workers : p.slots[j].inflight = u
    BY <1>2, <1>9, <2>3, <2>4
  <2>6. Range(q.queue) \subseteq Range(p.queue) /\ Distinct(q.queue)
    BY <1>2, <1>9
  <2>7. Narrows(p, q, a, {t}, how)
    BY <1>2, <1>3, <1>9, <1>10, <2>1, <2>2, <2>4, <2>5, <2>6 DEF Narrows
  <2> QED BY <1>1, <1>9, <2>7, Narrowed
<1>12. ASSUME NEW j \in Workers PROVE Link(q, th[j], a, L, j)
  <2>1. Link(p, th[j], a, L, j) /\ th[j] \in Threads
    BY DEF PoolState
  <2>2. CASE j # i
    <3>1. q.slots[j] = p.slots[j] /\ q.inbox[j] = p.inbox[j]
      BY <1>7, <1>9, <2>2
    <3> QED BY <1>1, <1>9, <1>11, <2>1, <3>1, LinkKept
  <2>3. CASE j = i
    <3>1. RoleInv(q, th[i], L, i)
      <4>1. RoleInv(p, th[i], L, i)
        BY <2>1, <2>3 DEF Link
      <4>2. q.slots[i].exited = p.slots[i].exited /\ q.inbox[i] = p.inbox[i] /\ p.slots[i].ready
        BY <1>1, <1>7, <1>9 DEF IdleSlot
      <4> QED BY <4>1, <4>2 DEF RoleInv
    <3>2. TimerInv(q, th[i], L, i)
      BY <1>7, <1>9, <2>1, <2>3, SMTT(30) DEF Link, TimerInv, IdleSlot
    <3>3. HandedInv(q, th[i], a, i)
      BY <1>1, <1>9, <1>11, <2>1, <2>3, HandedInvKept DEF Link
    <3>4. RespawnInv(q, th[i], L, i)
      BY <1>7, <1>9, <2>1, <2>3 DEF Link, RespawnInv
    <3> QED BY <2>3, <3>1, <3>2, <3>3, <3>4 DEF Link
  <2> QED BY <2>2, <2>3
<1>13. Served(p, q)
  <2>1. \A u \in Tasks : q.outcome[u] = "degraded" <=> p.outcome[u] = "degraded"
    BY <1>2, <1>3, <1>10 DEF Waits
  <2>2. \A j \in Workers : q.slots[j].exited = p.slots[j].exited /\ (~IdleSlot(p, j) => ~IdleSlot(q, j))
    BY <1>7, <1>9 DEF IdleSlot
  <2> QED BY <1>9, <2>1, <2>2 DEF Served
<1> QED BY <1>9, <1>11, <1>12, <1>13 DEF PoolState

\* The task at the head is in its worker's inbox.
LEMMA DispatchSends ==
    ASSUME NEW p, NEW th \in [Workers -> Threads], NEW a, NEW L \in SUBSET Workers,
           PoolState(p, th, a, L), p.queue # << >>, ~p.closed,
           NEW i \in L, IdleSlot(p, i),
           NEW q, q = [WithQueue(p, Tail(p.queue)) EXCEPT
                          !.slots[i].inflight = Head(p.queue),
                          !.inbox[i] = Append(@, Head(p.queue))]
    PROVE  PoolState(q, th, a, L) /\ Served(p, q) /\ ~IdleSlot(q, i)
<1> DEFINE v == Tail(p.queue)
           h == WithQueue(p, v)
           t == Head(p.queue)
           c == [p.slots[i] EXCEPT !.inflight = t]
           sl == [p.slots EXCEPT ![i] = c]
           ib == [p.inbox EXCEPT ![i] = Append(@, t)]
<1>1. Ledger(p, a) /\ p \in MainStates /\ i \in Workers
  BY DEF PoolState, Ledger
<1>2. /\ QueueOnly(p, h, v) /\ h.outcome = p.outcome
      /\ h.cancelPool = p.cancelPool /\ h.cancelSlot = p.cancelSlot
      /\ t \in Tasks /\ t \in Range(p.queue) /\ Waits(p, t)
      /\ Distinct(v) /\ t \notin Range(v)
      /\ Range(p.queue) = Range(v) \cup {t}
  BY <1>1, HeadTaken
<1>3. Link(p, th[i], a, L, i) /\ th[i] \in Threads
  BY <1>1 DEF PoolState
<1>4. p.slots[i].ready /\ p.slots[i].inflight = NoTask /\ th[i].role = "slot"
      /\ th[i].run = NoTask /\ p.inbox[i] = << >>
  BY <1>1, <1>3 DEF IdleSlot, Link, RoleInv, TimerInv
<1>5. t # NoTask
  BY <1>2, TaskIds
<1> HIDE DEF h, v, t
<1>6. /\ sl \in [Workers -> SlotStates]
      /\ \A j \in Workers : /\ j # i => sl[j] = p.slots[j]
                            /\ sl[j].ready = p.slots[j].ready
                            /\ sl[j].exited = p.slots[j].exited
      /\ sl[i].inflight = t /\ sl[i].respawning = p.slots[i].respawning
      /\ sl[i].crashCount = p.slots[i].crashCount
  <2>1. p.slots \in [Workers -> SlotStates] /\ p.slots[i] \in SlotStates
    BY <1>1, MainFields
  <2>2. /\ c \in SlotStates /\ c.ready = p.slots[i].ready /\ c.respawning = p.slots[i].respawning
        /\ c.crashCount = p.slots[i].crashCount /\ c.inflight = t
        /\ c.exited = p.slots[i].exited
    BY <1>2, <2>1 DEF SlotStates
  <2> HIDE DEF c
  <2> QED BY <1>1, <2>1, <2>2
<1>7. /\ ib \in [Workers -> Seq(Tasks \cup {NoTask})]
      /\ ib[i] = <<t>> /\ \A j \in Workers : j # i => ib[j] = p.inbox[j]
  <2>1. p.inbox \in [Workers -> Seq(Tasks \cup {NoTask})]
    BY <1>1, MainFields
  <2>2. Append(p.inbox[i], t) = <<t>> /\ <<t>> \in Seq(Tasks \cup {NoTask})
    BY <1>2, <1>4
  <2> QED BY <1>1, <2>1, <2>2
<1>8. q = [h EXCEPT !.slots = sl, !.inbox = ib]
  <2>1. q = [h EXCEPT !.slots[i].inflight = t, !.inbox[i] = Append(@, t)]
    BY DEF h, t, v
  <2> QED BY <1>2, <2>1 DEF QueueOnly
<1> HIDE DEF sl, ib
<1>9. /\ q \in MainStates /\ q.slots = sl /\ q.kick = p.kick /\ q.closed = p.closed
      /\ q.nextTaskId = p.nextTaskId /\ q.withdrawn = p.withdrawn /\ q.queue = v
      /\ q.inbox = ib /\ q.cancelPool = p.cancelPool /\ q.cancelSlot = p.cancelSlot
      /\ q.outcome = p.outcome
  BY <1>2, <1>6, <1>7, <1>8 DEF QueueOnly, MainStates
<1>10. \A u \in Tasks : Waits(q, u) <=> Waits(p, u)
  BY <1>9 DEF Waits
<1>11. Later(p, q)
  BY <1>2, <1>9, <1>10 DEF Later
<1>12. Ledger(q, a)
  <2>1. Accounted(q, a)
    BY <1>1, <1>9, AccountedCopy DEF Ledger
  <2>2. AskedInv(q, a)
    BY <1>1, <1>9 DEF Ledger, AskedInv
  <2>3. \A j \in Workers : p.slots[j].inflight # t /\ p.slots[j].inflight \notin Range(v)
    BY <1>1, <1>2 DEF Ledger, HeldInv
  <2>4. \A j \in Workers : sl[j].inflight = IF j = i THEN t ELSE p.slots[j].inflight
    BY <1>6
  <2>5. ASSUME NEW u \in Tasks
        PROVE  Waits(q, u) <=> u \in Range(v) \/ \E j \in Workers : sl[j].inflight = u
    <3>1. Waits(p, u) <=> u \in Range(p.queue) \/ \E j \in Workers : p.slots[j].inflight = u
      BY <1>1 DEF Ledger, HeldInv
    <3>2. CASE u = t
      BY <1>1, <1>2, <1>10, <2>4, <3>2
    <3>3. CASE u # t
      <4>1. (\E j \in Workers : sl[j].inflight = u) <=> (\E j \in Workers : p.slots[j].inflight = u)
        <5>1. u # NoTask
          BY TaskIds
        <5> QED BY <1>1, <1>4, <2>4, <3>3, <5>1
      <4> QED BY <1>2, <1>10, <3>1, <3>3, <4>1
    <3> QED BY <3>2, <3>3
  <2>6. \A j \in Workers : sl[j].inflight \notin Range(v)
    BY <1>2, <2>3, <2>4
  <2>7. \A j, k \in Workers : sl[j].inflight = sl[k].inflight => j = k \/ sl[j].inflight = NoTask
    BY <1>1, <2>3, <2>4 DEF Ledger, HeldInv
  <2>8. HeldInv(q)
    <3>1. \A u \in Tasks : q.outcome[u] = "none" <=> u >= q.nextTaskId
      BY <1>1, <1>9 DEF Ledger, HeldInv
    <3>2. Distinct(v) /\ q.queue = v /\ q.slots = sl
      BY <1>2, <1>9
    <3>3. \A u \in Tasks : Waits(q, u) <=> u \in Range(q.queue) \/ \E j \in Workers : q.slots[j].inflight = u
      BY <2>5, <3>2
    <3>4. /\ \A j \in Workers : q.slots[j].inflight \notin Range(q.queue)
          /\ \A j, k \in Workers : q.slots[j].inflight = q.slots[k].inflight => j = k \/ q.slots[j].inflight = NoTask
      BY <2>6, <2>7, <3>2
    <3> QED BY <3>1, <3>2, <3>3, <3>4 DEF HeldInv
  <2> QED BY <1>9, <2>1, <2>2, <2>8 DEF Ledger
<1>13. ASSUME NEW j \in Workers PROVE Link(q, th[j], a, L, j)
  <2>1. Link(p, th[j], a, L, j) /\ th[j] \in Threads
    BY DEF PoolState
  <2>2. CASE j # i
    <3>1. q.slots[j] = p.slots[j] /\ q.inbox[j] = p.inbox[j]
      BY <1>6, <1>7, <1>9, <2>2
    <3> QED BY <1>1, <1>9, <1>11, <2>1, <3>1, LinkKept
  <2>3. CASE j = i
    <3>1. RoleInv(q, th[i], L, i)
      BY <1>4, <1>6, <1>9, <2>1, <2>3 DEF Link, RoleInv
    <3>2. TimerInv(q, th[i], L, i)
      <4>1. Handed(p, t) => FALSE
        BY <1>2, <1>5 DEF Handed
      <4>2. \A k \in DOMAIN th[i].mail : th[i].mail[k].kind = "result" => th[i].mail[k].task # t
        BY <1>3, <4>1 DEF Link, HandedInv
      <4>3. /\ q.slots[i].inflight = t /\ q.slots[i].ready /\ ~q.closed
            /\ q.inbox[i] = <<t>> /\ th[i].run = NoTask
        BY <1>1, <1>4, <1>6, <1>7, <1>9, ZenonT(60)
      <4>4. ~IdleSlot(q, i)
        BY <1>5, <4>3 DEF IdleSlot
      <4> QED BY <4>2, <4>3, <4>4 DEF TimerInv
    <3>3. HandedInv(q, th[i], a, i)
      <4>1. Handed(q, th[i].run)
        BY <1>4 DEF Handed
      <4>2. \A k \in DOMAIN ib[i] : ib[i][k] = t
        BY <1>7
      <4>3. Handed(q, t)
        BY <1>2, <1>9 DEF Handed, Waits
      <4>4. ASSUME NEW k \in DOMAIN th[i].mail, th[i].mail[k].kind = "result"
            PROVE  /\ Handed(q, th[i].mail[k].task)
                   /\ th[i].mail[k].cancelled /\ Waits(q, th[i].mail[k].task) => a[th[i].mail[k].task] # "no"
        <5>1. th[i].mail[k].task \in Tasks
          BY <1>3, <4>4, ThreadFields
        <5>2. Handed(p, th[i].mail[k].task)
          BY <1>3, <4>4 DEF Link, HandedInv
        <5>3. Handed(q, th[i].mail[k].task)
          BY <1>11, <5>1, <5>2, HandedKept
        <5> QED BY <1>3, <1>10, <4>4, <5>1, <5>3 DEF Link, HandedInv
      <4> QED BY <1>9, <4>1, <4>2, <4>3, <4>4 DEF HandedInv
    <3>4. RespawnInv(q, th[i], L, i)
      BY <1>6, <1>9, <2>1, <2>3, ZenonT(60) DEF Link, RespawnInv
    <3> QED BY <2>3, <3>1, <3>2, <3>3, <3>4 DEF Link
  <2> QED BY <2>2, <2>3
<1>14. Served(p, q) /\ ~IdleSlot(q, i)
  BY <1>1, <1>5, <1>6, <1>9 DEF IdleSlot, Served
<1> QED BY <1>9, <1>12, <1>13, <1>14 DEF PoolState

\* Serving two slots one after the other.
LEMMA ServedTransitive ==
    ASSUME NEW p, NEW q, NEW r, Served(p, q), Served(q, r)
    PROVE  Served(p, r)
BY DEF Served

\* Serving one slot.
LEMMA ServeKeeps ==
    ASSUME NEW p, NEW th \in [Workers -> Threads], NEW a, NEW L \in SUBSET Workers,
           PoolState(p, th, a, L), ~p.closed, NEW i \in L
    PROVE  /\ PoolState(Serve(p, i), th, a, L) /\ Served(p, Serve(p, i))
           /\ Serve(p, i).queue # << >> => Serve(p, i).kick \/ ~IdleSlot(Serve(p, i), i)
<1> DEFINE u == CancelledHead(p)
           v == SubSeq(p.queue, Len(u) + 1, Len(p.queue))
           r == SettleAll(p, u, Each("cancelled"))
           z == WithQueue(r, v)
           q == Serve(p, i)
<1>1. Ledger(p, a) /\ p \in MainStates /\ i \in Workers
  BY DEF PoolState, Ledger
<1>2. CASE ~IdleSlot(p, i)
  <2>1. q = p
    BY <1>2 DEF Serve
  <2>2. Served(p, p)
    BY DEF Served
  <2> QED BY <1>2, <2>1, <2>2
<1>3. CASE IdleSlot(p, i)
  <2>1. q = IF v = << >> THEN [r EXCEPT !.queue = << >>]
            ELSE DispatchToWorker([r EXCEPT !.queue = Tail(v)], i, Head(v))
    BY <1>3 DEF Serve
  <2>2. Skipped(p, z, a, v)
    BY <1>1, SkipKeeps
  <2> HIDE DEF u, v, r, q
  <2>3. /\ z \in MainStates /\ z.queue = v /\ z.closed = p.closed /\ z.kick = p.kick
        /\ z.nextTaskId = p.nextTaskId /\ z.withdrawn = p.withdrawn /\ z.slots = p.slots
        /\ z.inbox = p.inbox
    BY <2>2 DEF Skipped, QueueOnly
  <2>4. PoolState(z, th, a, L)
    BY <2>2, <2>3, PoolKept DEF Skipped
  <2>5. Served(p, z)
    <3>1. \A t \in Tasks : z.outcome[t] = "degraded" <=> p.outcome[t] = "degraded"
      BY <2>2 DEF Skipped, Waits
    <3>2. z.queue # << >> => p.queue # << >>
      BY <2>2, <2>3 DEF Skipped
    <3> QED BY <2>3, <3>1, <3>2 DEF Served, IdleSlot
  <2>6. CASE v = << >>
    <3>1. q = z
      BY <2>1, <2>6 DEF WithQueue
    <3> HIDE DEF z
    <3>2. PoolState(q, th, a, L) /\ Served(p, q) /\ q.queue = << >>
      BY <2>3, <2>4, <2>5, <2>6, <3>1
    <3> QED BY <3>2 DEF q
  <2>7. CASE v # << >>
    <3> DEFINE t == Head(z.queue)
               h == WithQueue(z, Tail(z.queue))
    <3>1. h = [r EXCEPT !.queue = Tail(v)] /\ t = Head(v)
      <4>1. h = WithQueue(WithQueue(r, v), Tail(v))
        BY <2>3
      <4> QED BY <2>3, <4>1 DEF WithQueue
    <3>2. q = DispatchToWorker(h, i, t)
      BY <2>1, <2>7, <3>1
    <3>3. IdleSlot(z, i) /\ ~z.closed /\ z.queue # << >>
      BY <1>3, <2>3, <2>7 DEF IdleSlot
    <3> HIDE DEF z
    <3>4. CASE PostFails(i, t)
      <4> DEFINE x == (t \in Poison)
      <4>1. q = FailedPost(h, i, t, x)
        BY <3>2, <3>4 DEF DispatchToWorker, FailedPost
      <4>2. x \in BOOLEAN /\ (DeadPost = "lost" => x)
        BY <3>4 DEF PostFails
      <4> HIDE DEF x
      <4>3. PoolState(q, th, a, L) /\ Served(z, q) /\ q.kick
        BY <2>4, <3>3, <4>1, <4>2, DispatchFails
      <4> QED BY <2>5, <4>3, ServedTransitive DEF q
    <3>5. CASE ~PostFails(i, t)
      <4>1. q = [h EXCEPT !.slots[i].inflight = t, !.inbox[i] = Append(@, t)]
        BY <3>2, <3>5 DEF DispatchToWorker
      <4>2. PoolState(q, th, a, L) /\ Served(z, q) /\ ~IdleSlot(q, i)
        BY <2>4, <3>3, <4>1, DispatchSends
      <4> QED BY <2>5, <4>2, ServedTransitive DEF q
    <3> QED BY <3>4, <3>5
  <2> QED BY <2>6, <2>7
<1> QED BY <1>2, <1>3

\* What kickQueue does: afterwards a backlog has no idle slot to go to.
Kicked(p, q) ==
    /\ Served(p, q)
    /\ q.queue # << >> /\ ~q.closed => q.kick \/ \A i \in Listed : ~IdleSlot(q, i)

\* kickQueue serves every slot of the list.
LEMMA KickKeeps ==
    ASSUME NEW p, NEW th \in [Workers -> Threads], NEW a, workers \in Seq(Workers),
           PoolState(p, th, a, Listed)
    PROVE  PoolState(KickQueue(p), th, a, Listed) /\ Kicked(p, KickQueue(p))
<1> DEFINE n == Len(workers)
<1>1. /\ n \in Nat /\ DOMAIN workers = 1 .. n /\ Listed \in SUBSET Workers
      /\ \A k \in 1 .. n : workers[k] \in Listed
      /\ \A i \in Listed : \E k \in 1 .. n : workers[k] = i
  BY DEF Listed, Range
<1>2. CASE p.closed
  <2>1. KickQueue(p) = p /\ Served(p, p)
    BY <1>2 DEF KickQueue, Served
  <2> QED BY <1>2, <2>1 DEF Kicked
<1>3. CASE ~p.closed
  <2>1. PICK c : /\ c[0] = p /\ c[n] = ServeAll(p)
                 /\ \A k \in 1 .. n : c[k] = Serve(c[k - 1], workers[k])
    <3> HIDE DEF n
    <3> QED BY <1>1, KickUnrolls
  <2> DEFINE G == {k \in 0 .. n :
                     /\ PoolState(c[k], th, a, Listed) /\ Served(p, c[k])
                     /\ c[k].queue # << >> => c[k].kick \/ \A j \in 1 .. k : ~IdleSlot(c[k], workers[j])}
  <2>2. 0 \in G
    <3>1. Served(p, p)
      BY DEF Served
    <3> QED BY <1>1, <2>1, <3>1
  <2>3. ASSUME NEW k \in 1 .. n, k - 1 \in G PROVE k \in G
    <3> DEFINE b == c[k - 1]
               d == c[k]
    <3>1. /\ PoolState(b, th, a, Listed) /\ Served(p, b)
          /\ b.queue # << >> => b.kick \/ \A j \in 1 .. (k - 1) : ~IdleSlot(b, workers[j])
      BY <2>3
    <3>2. ~b.closed /\ workers[k] \in Listed /\ d = Serve(b, workers[k])
      BY <1>1, <1>3, <2>1, <3>1 DEF Served
    <3> HIDE DEF b, d
    <3>3. /\ PoolState(d, th, a, Listed) /\ Served(b, d)
          /\ d.queue # << >> => d.kick \/ ~IdleSlot(d, workers[k])
      BY <1>1, <3>1, <3>2, ServeKeeps
    <3>4. Served(p, d)
      BY <3>1, <3>3, ServedTransitive
    <3>5. ASSUME d.queue # << >>, ~d.kick, NEW j \in 1 .. k PROVE ~IdleSlot(d, workers[j])
      <4>1. b.queue # << >> /\ ~b.kick
        BY <3>3, <3>5 DEF Served
      <4>2. CASE j = k
        BY <3>3, <3>5, <4>2
      <4>3. CASE j # k
        <5>1. j \in 1 .. (k - 1) /\ workers[j] \in Workers
          BY <1>1, <3>5, <4>3
        <5>2. ~IdleSlot(b, workers[j])
          BY <3>1, <4>1, <5>1
        <5> QED BY <3>3, <5>1, <5>2 DEF Served
      <4> QED BY <4>2, <4>3
    <3>6. d.queue # << >> => d.kick \/ \A j \in 1 .. k : ~IdleSlot(d, workers[j])
      BY <3>5
    <3>7. k \in 0 .. n
      BY <1>1
    <3> QED BY <3>3, <3>4, <3>6, <3>7 DEF d
  <2>4. n \in G
    <3> HIDE DEF G
    <3> QED BY <1>1, <2>2, <2>3, UpTo
  <2>5. KickQueue(p) = c[n]
    BY <1>3, <2>1 DEF KickQueue, ServeAll
  <2>6. Kicked(p, c[n])
    BY <1>1, <2>4 DEF Kicked
  <2> QED BY <2>4, <2>5, <2>6
<1> QED BY <1>2, <1>3

-----------------------------------------------------------------------------
(* Accepting tasks.                                                        *)

\* More tasks are asked to be cancelled.
LEMMA AskedMore ==
    ASSUME NEW p, NEW th \in [Workers -> Threads], NEW a, NEW b, NEW L, PoolState(p, th, a, L),
           \A t \in Tasks : a[t] # "no" => b[t] # "no"
    PROVE  PoolState(p, th, b, L)
<1>1. p \in MainStates /\ Accounted(p, a) /\ HeldInv(p) /\ AskedInv(p, a)
  BY DEF PoolState, Ledger
<1>2. Accounted(p, b)
  BY <1>1 DEF Accounted
<1>3. AskedInv(p, b)
  <2>1. p.withdrawn \subseteq Tasks
    BY <1>1, MainFields
  <2> QED BY <1>1, <2>1 DEF AskedInv
<1>4. ASSUME NEW i \in Workers PROVE Link(p, th[i], b, L, i)
  <2>1. Link(p, th[i], a, L, i) /\ th[i] \in Threads
    BY DEF PoolState
  <2>2. Later(p, p)
    BY DEF Later
  <2> QED BY <1>1, <2>1, <2>2, LinkKept
<1> QED BY <1>1, <1>2, <1>3, <1>4 DEF PoolState, Ledger

\* What accepting a task changes.
Accepted(p, q) ==
    /\ q.closed = p.closed /\ q.kick = p.kick /\ q.slots = p.slots
    /\ q.nextTaskId = p.nextTaskId + 1
    /\ \A t \in Tasks : q.outcome[t] = "degraded" <=> p.outcome[t] = "degraded"

\* The cancel slot of a new task is its own.
LEMMA EnqueueAccounts ==
    ASSUME NEW p \in MainStates, NEW q \in MainStates, NEW a, Accounted(p, a),
           NEW t \in Tasks, p.outcome[t] = "none",
           q.cancelPool = Acquire(p.cancelPool),
           q.cancelSlot = [p.cancelSlot EXCEPT ![t] = AcquiredSlot(p.cancelPool)],
           q.outcome = [p.outcome EXCEPT ![t] = "pending"]
    PROVE  Accounted(q, a)
<1> DEFINE idx == AcquiredSlot(p.cancelPool)
           new == Acquire(p.cancelPool)
<1>1. Booked(p.cancelPool)
  BY DEF Accounted
<1>2. /\ Booked(new) /\ idx \in Int
      /\ IF idx = NoSlot
         THEN new.inUse = p.cancelPool.inUse /\ new.flag = p.cancelPool.flag
         ELSE /\ idx \notin p.cancelPool.inUse
              /\ new.inUse = p.cancelPool.inUse \cup {idx}
              /\ new.flag = p.cancelPool.flag
  BY <1>1, AcquireBooked
<1>3. /\ q.cancelPool = new
      /\ \A u \in Tasks : q.cancelSlot[u] = IF u = t THEN idx ELSE p.cancelSlot[u]
      /\ \A u \in Tasks : Waits(q, u) <=> u = t \/ Waits(p, u)
      /\ ~Waits(p, t)
  BY MainFields DEF Waits
<1> HIDE DEF idx, new
<1>4. \A s \in p.cancelPool.inUse : s # NoSlot
  BY <1>1 DEF Booked, NoSlot
<1>5. p.cancelPool.flag \subseteq p.cancelPool.inUse
  BY <1>1 DEF Booked
<1>6. idx \notin p.cancelPool.flag
  BY <1>2, <1>4, <1>5
<1>7. ASSUME NEW u \in Tasks, Waits(q, u), q.cancelSlot[u] # NoSlot
      PROVE  q.cancelSlot[u] \in new.inUse
  BY <1>2, <1>3, <1>7 DEF Accounted
<1>8. ASSUME NEW s \in new.inUse PROVE \E u \in Tasks : Waits(q, u) /\ q.cancelSlot[u] = s
  <2>1. CASE s \in p.cancelPool.inUse
    <3>1. PICK u \in Tasks : Waits(p, u) /\ p.cancelSlot[u] = s
      BY <2>1 DEF Accounted
    <3> QED BY <1>3, <3>1
  <2>2. CASE s \notin p.cancelPool.inUse
    BY <1>2, <1>3, <2>2
  <2> QED BY <2>1, <2>2
<1>9. ASSUME NEW u \in Tasks, NEW w \in Tasks, Waits(q, u), Waits(q, w),
             q.cancelSlot[u] = q.cancelSlot[w], u # w, q.cancelSlot[u] # NoSlot
      PROVE  FALSE
  <2>1. CASE u # t /\ w # t
    BY <1>3, <1>9, <2>1 DEF Accounted
  <2>2. CASE u = t
    <3>1. p.cancelSlot[w] \in p.cancelPool.inUse /\ idx = p.cancelSlot[w] /\ idx # NoSlot
      BY <1>3, <1>9, <2>2 DEF Accounted
    <3> QED BY <1>2, <3>1
  <2>3. CASE w = t
    <3>1. p.cancelSlot[u] \in p.cancelPool.inUse /\ idx = p.cancelSlot[u] /\ idx # NoSlot
      BY <1>3, <1>9, <2>3 DEF Accounted
    <3> QED BY <1>2, <3>1
  <2> QED BY <2>1, <2>2, <2>3
<1>10. ASSUME NEW u \in Tasks, Waits(q, u), q.cancelSlot[u] \in new.flag PROVE a[u] # "no"
  <2>1. new.flag = p.cancelPool.flag
    BY <1>2
  <2> QED BY <1>3, <1>6, <1>10, <2>1 DEF Accounted
<1> QED BY <1>2, <1>3, <1>7, <1>8, <1>9, <1>10 DEF Accounted

\* Enqueueing one task.
LEMMA EnqueueKeeps ==
    ASSUME NEW p, NEW th \in [Workers -> Threads], NEW a, NEW L \in SUBSET Workers,
           PoolState(p, th, a, L), ~p.closed, p.nextTaskId \in Tasks,
           NEW cancelled, p.nextTaskId \in cancelled => a[p.nextTaskId] # "no"
    PROVE  /\ PoolState(Enqueue(p, cancelled), th, a, L)
           /\ Accepted(p, Enqueue(p, cancelled))
<1> DEFINE t == p.nextTaskId
           q == Enqueue(p, cancelled)
           u == Append(p.queue, t)
           wd == IF t \in cancelled THEN p.withdrawn \cup {t} ELSE p.withdrawn
           cs == [p.cancelSlot EXCEPT ![t] = AcquiredSlot(p.cancelPool)]
           oc == [p.outcome EXCEPT ![t] = "pending"]
           new == Acquire(p.cancelPool)
<1>1. Ledger(p, a) /\ p \in MainStates /\ p.queue \in Seq(Tasks) /\ t \in Nat
  BY MainFields DEF PoolState, Ledger
<1>2. /\ AcquiredSlot(p.cancelPool) \in Int /\ new \in CancelPools
  <2>1. Booked(p.cancelPool)
    BY <1>1 DEF Ledger, Accounted
  <2> QED BY <2>1, AcquireBooked DEF Booked
<1>3. /\ wd \in SUBSET Tasks /\ cs \in [Tasks -> Int] /\ oc \in [Tasks -> Outcomes]
      /\ u \in Seq(Tasks) /\ t + 1 \in Nat \ {0}
  BY <1>1, <1>2, MainFields DEF Outcomes
<1>4. q = [p EXCEPT !.nextTaskId = t + 1, !.cancelSlot = cs, !.cancelPool = new,
                    !.queue = u, !.withdrawn = wd, !.outcome = oc]
  BY DEF Enqueue
<1>5. p.outcome[t] = "none" /\ ~Waits(p, t)
  <2>1. p.outcome[t] = "none" <=> t >= p.nextTaskId
    BY <1>1 DEF Ledger, HeldInv
  <2> QED BY <1>1, <2>1 DEF Waits
<1>6. t \notin Range(p.queue) /\ \A i \in Workers : p.slots[i].inflight # t
  BY <1>1, <1>5 DEF Ledger, HeldInv
<1>7. Range(u) = Range(p.queue) \cup {t} /\ Distinct(u)
  BY <1>1, <1>6, Pushed DEF Ledger, HeldInv
<1> HIDE DEF q, u, wd, cs, oc, new
<1>8. /\ q \in MainStates /\ q.nextTaskId = t + 1 /\ q.cancelSlot = cs /\ q.cancelPool = new
      /\ q.queue = u /\ q.withdrawn = wd /\ q.outcome = oc /\ q.closed = p.closed
      /\ q.kick = p.kick /\ q.slots = p.slots /\ q.inbox = p.inbox
  BY <1>1, <1>2, <1>3, <1>4 DEF MainStates
<1>9. /\ \A x \in Tasks : oc[x] = IF x = t THEN "pending" ELSE p.outcome[x]
      /\ \A x \in Tasks : Waits(q, x) <=> x = t \/ Waits(p, x)
  BY <1>1, <1>8, MainFields DEF oc, Waits
<1>10. Accounted(q, a)
  BY <1>1, <1>5, <1>8, EnqueueAccounts DEF Ledger, cs, oc, new
<1>11. AskedInv(q, a)
  <2>1. \A x \in wd : a[x] # "no"
    BY <1>1 DEF wd, Ledger, AskedInv
  <2> QED BY <1>1, <1>8, <1>9, <2>1 DEF Ledger, AskedInv
<1>12. HeldInv(q)
  <2>1. ASSUME NEW x \in Tasks
        PROVE  Waits(q, x) <=> x \in Range(u) \/ \E i \in Workers : p.slots[i].inflight = x
    BY <1>1, <1>7, <1>9 DEF Ledger, HeldInv
  <2>2. \A i \in Workers : p.slots[i].inflight \notin Range(u)
    BY <1>1, <1>6, <1>7 DEF Ledger, HeldInv
  <2>3. ASSUME NEW x \in Tasks PROVE oc[x] = "none" <=> x >= t + 1
    <3>1. p.outcome[x] = "none" <=> x >= t
      BY <1>1 DEF Ledger, HeldInv
    <3>2. x \in Nat
      BY TaskIds
    <3> QED BY <1>1, <1>9, <3>1, <3>2
  <2>4. \A i, j \in Workers : p.slots[i].inflight = p.slots[j].inflight => i = j \/ p.slots[i].inflight = NoTask
    BY <1>1 DEF Ledger, HeldInv
  <2> QED BY <1>7, <1>8, <2>1, <2>2, <2>3, <2>4 DEF HeldInv
<1>13. Later(p, q)
  BY <1>5, <1>7, <1>8, <1>9 DEF Later
<1>14. Ledger(q, a)
  BY <1>8, <1>10, <1>11, <1>12 DEF Ledger
<1>15. PoolState(q, th, a, L)
  BY <1>8, <1>13, <1>14, PoolKept
<1>16. Accepted(p, q)
  BY <1>5, <1>8, <1>9 DEF Accepted
<1> QED BY <1>15, <1>16 DEF q

\* What accepting a batch changes.
Grown(p, q) ==
    /\ q.closed = p.closed /\ q.kick = p.kick /\ q.slots = p.slots
    /\ \A t \in Tasks : q.outcome[t] = "degraded" <=> p.outcome[t] = "degraded"

\* Enqueueing a batch.
LEMMA BatchKeeps ==
    ASSUME NEW p, NEW th \in [Workers -> Threads], NEW a, NEW L \in SUBSET Workers,
           PoolState(p, th, a, L), ~p.closed, NEW n \in Nat,
           p.nextTaskId .. (p.nextTaskId + n - 1) \subseteq Tasks,
           NEW cancelled \in SUBSET Tasks, \A t \in cancelled : a[t] # "no"
    PROVE  LET q == Batched(p, n, cancelled) IN PoolState(q, th, a, L) /\ Grown(p, q)
<1> DEFINE m == p.nextTaskId
           Good(q, k) ==
             PoolState(q, th, a, L) /\ q.nextTaskId = m + k /\ Grown(p, q)
<1>1. m \in Nat
  BY MainFields DEF PoolState, Ledger
<1>2. PICK c : /\ c[0] = p /\ c[n] = Batched(p, n, cancelled)
               /\ \A k \in 1 .. n : c[k] = Enqueue(c[k - 1], cancelled)
  BY BatchUnrolls
<1> DEFINE G == {k \in 0 .. n : Good(c[k], k)}
<1>3. 0 \in G
  BY <1>1, <1>2 DEF Grown
<1>4. ASSUME NEW k \in 1 .. n, k - 1 \in G PROVE k \in G
  <2> DEFINE b == c[k - 1]
             d == c[k]
  <2>1. Good(b, k - 1) /\ d = Enqueue(b, cancelled)
    BY <1>2, <1>4
  <2> HIDE DEF b, d
  <2>2. b.nextTaskId = m + (k - 1) /\ m + (k - 1) \in m .. (m + n - 1) /\ ~b.closed
    BY <1>1, <2>1 DEF Grown
  <2>3. b.nextTaskId \in Tasks
    BY <2>2
  <2>4. PoolState(d, th, a, L) /\ Accepted(b, d)
    BY <2>1, <2>2, <2>3, EnqueueKeeps
  <2>5. Good(d, k)
    <3>1. d.nextTaskId = m + k
      BY <1>1, <2>2, <2>4 DEF Accepted
    <3> QED BY <2>1, <2>4, <3>1 DEF Accepted, Grown
  <2>6. k \in 0 .. n
    OBVIOUS
  <2> QED BY <2>5, <2>6 DEF d
<1>5. n \in G
  <2> HIDE DEF G
  <2> QED BY <1>3, <1>4, UpTo
<1> QED BY <1>2, <1>5

-----------------------------------------------------------------------------
(* Taking a slot's task back.                                              *)

\* The task a slot waits for.
TaskOf(p, i) == {p.slots[i].inflight} \ {NoTask}

\* q is p after the task of slot i was answered, with the answers of r.
Frees(p, q, r, i) ==
    /\ q \in MainStates
    /\ q.cancelPool = r.cancelPool /\ q.cancelSlot = r.cancelSlot /\ q.outcome = r.outcome
    /\ q.queue = p.queue /\ q.nextTaskId = p.nextTaskId /\ q.withdrawn = p.withdrawn
    /\ q.slots[i].inflight = NoTask
    /\ \A j \in Workers \ {i} : q.slots[j].inflight = p.slots[j].inflight

\* Answering the task of one slot keeps the ledger.
LEMMA FreeSlot ==
    ASSUME NEW p, NEW a, Ledger(p, a), NEW i \in Workers, NEW how,
           Justified(how, TaskOf(p, i), a),
           NEW r, Answered(p, r, TaskOf(p, i), how), Accounted(r, a),
           NEW q, Frees(p, q, r, i)
    PROVE  Ledger(q, a) /\ Later(p, q)
<1> DEFINE T == TaskOf(p, i)
<1>1. p \in MainStates /\ q \in MainStates
  BY DEF Ledger, Frees
<1>2. T \in SUBSET Tasks
  BY <1>1, MainFields DEF TaskOf
<1>3. \A t \in T : Waits(p, t)
  BY <1>2 DEF Ledger, HeldInv, TaskOf
<1>4. Accounted(q, a)
  BY AccountedCopy DEF Frees
<1>5. \A t \in Tasks : q.outcome[t] = IF t \in T THEN how[t] ELSE p.outcome[t]
  BY DEF Frees, Answered
<1>6. \A j \in Workers : q.slots[j].inflight = IF j = i THEN NoTask ELSE p.slots[j].inflight
  BY DEF Frees
<1>7. ASSUME NEW t \in Tasks
      PROVE  t \in Range(q.queue) \/ (\E j \in Workers : q.slots[j].inflight = t)
               <=> /\ t \notin T
                   /\ t \in Range(p.queue) \/ \E j \in Workers : p.slots[j].inflight = t
  <2>1. t # NoTask /\ q.queue = p.queue
    BY TaskIds DEF Frees
  <2>2. CASE t = p.slots[i].inflight
    <3>1. t \in T /\ t \notin Range(p.queue)
      BY <2>1, <2>2 DEF Ledger, HeldInv, TaskOf
    <3>2. \A j \in Workers : q.slots[j].inflight # t
      BY <1>6, <2>1, <2>2 DEF Ledger, HeldInv
    <3> QED BY <2>1, <3>1, <3>2
  <2>3. CASE t # p.slots[i].inflight
    <3>1. t \notin T
      BY <2>3 DEF TaskOf
    <3>2. (\E j \in Workers : q.slots[j].inflight = t) <=> (\E j \in Workers : p.slots[j].inflight = t)
      BY <1>6, <2>1, <2>3
    <3> QED BY <2>1, <3>1, <3>2
  <2> QED BY <2>2, <2>3
<1>8. Narrows(p, q, a, T, how)
  <2>1. /\ how \in [Tasks -> Answers] /\ \A t \in T : how[t] = "cancelled" => a[t] # "no"
    BY DEF Justified
  <2>2. /\ q.nextTaskId = p.nextTaskId /\ q.withdrawn = p.withdrawn
        /\ Distinct(q.queue) /\ Range(q.queue) \subseteq Range(p.queue)
    BY DEF Frees, Ledger, HeldInv
  <2>3. \A j \in Workers : q.slots[j].inflight \in {p.slots[j].inflight, NoTask}
    BY <1>6
  <2> HIDE DEF T
  <2> QED BY <1>2, <1>3, <1>4, <1>5, <1>7, <2>1, <2>2, <2>3 DEF Narrows
<1> QED BY <1>1, <1>8, Narrowed

\* Settling what a slot waits for, if anything.
LEMMA SettleInflight ==
    ASSUME NEW p, NEW a, Ledger(p, a), NEW i \in Workers, NEW how \in [Tasks -> Answers]
    PROVE  /\ Answered(p, SettleAll(p, InflightOf(p, i), how), TaskOf(p, i), how)
           /\ Accounted(SettleAll(p, InflightOf(p, i), how), a)
<1> DEFINE ts == InflightOf(p, i)
           t == p.slots[i].inflight
<1>1. p \in MainStates /\ Accounted(p, a) /\ t \in Tasks \cup {NoTask}
  BY MainFields DEF Ledger
<1>2. t \in Tasks => Waits(p, t)
  BY DEF Ledger, HeldInv
<1>3. /\ ts \in Seq(Tasks) /\ Distinct(ts) /\ Range(ts) = TaskOf(p, i)
      /\ \A k \in DOMAIN ts : Waits(p, ts[k])
  <2>1. CASE t = NoTask
    <3>1. ts = << >> /\ TaskOf(p, i) = {}
      BY <2>1 DEF InflightOf, TaskOf
    <3> HIDE DEF ts
    <3> QED BY <3>1 DEF Distinct, Range
  <2>2. CASE t # NoTask
    <3>1. ts = <<t>> /\ TaskOf(p, i) = {t} /\ t \in Tasks
      BY <1>1, <2>2 DEF InflightOf, TaskOf
    <3> HIDE DEF ts, t
    <3>2. DOMAIN ts = {1} /\ ts[1] = t /\ ts \in Seq(Tasks)
      BY <3>1
    <3> QED BY <1>2, <3>1, <3>2 DEF Distinct, Range, t
  <2> QED BY <2>1, <2>2
<1> HIDE DEF ts
<1>4. Answered(p, SettleAll(p, ts, how), Range(ts), how) /\ Accounted(SettleAll(p, ts, how), a)
  BY <1>1, <1>3, SettleMany
<1> QED BY <1>3, <1>4 DEF ts

\* q is p after shutdown took the tasks of the slots in J back.
Stopped(p, q, J) ==
    /\ q \in MainStates
    /\ q.closed = p.closed /\ q.kick = p.kick /\ q.nextTaskId = p.nextTaskId
    /\ q.queue = p.queue /\ q.withdrawn = p.withdrawn /\ q.inbox = p.inbox
    /\ \A j \in Workers :
         /\ q.slots[j].inflight = IF j \in J THEN NoTask ELSE p.slots[j].inflight
         /\ q.slots[j].ready = p.slots[j].ready /\ q.slots[j].exited = p.slots[j].exited
         /\ q.slots[j].respawning = p.slots[j].respawning
         /\ q.slots[j].crashCount = p.slots[j].crashCount
    /\ \A t \in Tasks : q.outcome[t] = "degraded" <=> p.outcome[t] = "degraded"

\* Stopping one slot.
LEMMA StopSlotKeeps ==
    ASSUME NEW p, NEW a, Ledger(p, a), NEW i \in Workers
    PROVE  LET q == StopSlot(p, i) IN Ledger(q, a) /\ Later(p, q) /\ Stopped(p, q, {i})
<1> DEFINE how == Each("shutdown")
           r == SettleAll(p, InflightOf(p, i), how)
           c == [p.slots[i] EXCEPT !.inflight = NoTask]
           sl == [p.slots EXCEPT ![i] = c]
           q == StopSlot(p, i)
<1>1. p \in MainStates
  BY DEF Ledger
<1>2. how \in [Tasks -> Answers] /\ \A t \in Tasks : how[t] = "shutdown"
  BY DEF Each, Answers
<1>3. q = [r EXCEPT !.slots[i].inflight = NoTask]
  BY DEF StopSlot
<1> HIDE DEF how, q
<1>4. Answered(p, r, TaskOf(p, i), how) /\ Accounted(r, a)
  BY <1>2, SettleInflight
<1> HIDE DEF r
<1>5. q = [r EXCEPT !.slots = sl]
  BY <1>3, <1>4 DEF Answered
<1>6. /\ sl \in [Workers -> SlotStates]
      /\ \A j \in Workers :
           /\ sl[j].inflight = IF j = i THEN NoTask ELSE p.slots[j].inflight
           /\ sl[j].ready = p.slots[j].ready /\ sl[j].exited = p.slots[j].exited
           /\ sl[j].respawning = p.slots[j].respawning
           /\ sl[j].crashCount = p.slots[j].crashCount
  <2>1. p.slots \in [Workers -> SlotStates] /\ p.slots[i] \in SlotStates
    BY <1>1, MainFields
  <2>2. /\ c \in SlotStates /\ c.inflight = NoTask /\ c.ready = p.slots[i].ready
        /\ c.exited = p.slots[i].exited /\ c.respawning = p.slots[i].respawning
        /\ c.crashCount = p.slots[i].crashCount
    BY <2>1 DEF SlotStates
  <2> HIDE DEF c
  <2> QED BY <2>1, <2>2
<1> HIDE DEF sl
<1>7. /\ q \in MainStates /\ q.slots = sl /\ q.kick = p.kick /\ q.closed = p.closed
      /\ q.nextTaskId = p.nextTaskId /\ q.withdrawn = p.withdrawn /\ q.queue = p.queue
      /\ q.inbox = p.inbox /\ q.cancelPool = r.cancelPool /\ q.cancelSlot = r.cancelSlot
      /\ q.outcome = r.outcome
  BY <1>4, <1>5, <1>6 DEF Answered, MainStates
<1>8. Ledger(q, a) /\ Later(p, q)
  <2>1. Justified(how, TaskOf(p, i), a)
    <3>1. TaskOf(p, i) \subseteq Tasks
      BY <1>1, MainFields DEF TaskOf
    <3> QED BY <1>2, <3>1 DEF Justified
  <2>2. Frees(p, q, r, i)
    BY <1>6, <1>7 DEF Frees
  <2> QED BY <1>4, <2>1, <2>2, FreeSlot
<1>9. Stopped(p, q, {i})
  <2>1. ASSUME NEW t \in Tasks PROVE q.outcome[t] = "degraded" <=> p.outcome[t] = "degraded"
    <3>1. CASE t \in TaskOf(p, i)
      <4>1. Waits(p, t)
        BY <3>1 DEF TaskOf, Ledger, HeldInv
      <4> QED BY <1>2, <1>4, <1>7, <3>1, <4>1 DEF Answered, Waits
    <3>2. CASE t \notin TaskOf(p, i)
      BY <1>4, <1>7, <3>2 DEF Answered
    <3> QED BY <3>1, <3>2
  <2> QED BY <1>6, <1>7, <2>1 DEF Stopped
<1> QED BY <1>8, <1>9 DEF q

\* Stopping every slot of the list.
LEMMA StopAllKeeps ==
    ASSUME NEW p, NEW a, Ledger(p, a), workers \in Seq(Workers)
    PROVE  LET q == ShutDownSlots(p) IN Ledger(q, a) /\ Later(p, q) /\ Stopped(p, q, Listed)
<1> DEFINE n == Len(workers)
           J(k) == {workers[l] : l \in 1 .. k}
<1>1. n \in Nat /\ DOMAIN workers = 1 .. n /\ \A k \in 1 .. n : workers[k] \in Workers
  OBVIOUS
<1>2. PICK c : /\ c[0] = p /\ c[n] = ShutDownSlots(p)
               /\ \A k \in 1 .. n : c[k] = StopSlot(c[k - 1], workers[k])
  <2> HIDE DEF n
  <2> QED BY <1>1, StopUnrolls
<1> DEFINE G == {k \in 0 .. n : Ledger(c[k], a) /\ Later(p, c[k]) /\ Stopped(p, c[k], J(k))}
<1>3. 0 \in G
  <2>1. J(0) = {} /\ p \in MainStates
    BY DEF Ledger
  <2> HIDE DEF J
  <2>2. Later(p, p) /\ Stopped(p, p, J(0))
    BY <2>1 DEF Later, Stopped
  <2> QED BY <1>1, <1>2, <2>2
<1>4. ASSUME NEW k \in 1 .. n, k - 1 \in G PROVE k \in G
  <2> DEFINE b == c[k - 1]
             d == c[k]
  <2>1. Ledger(b, a) /\ Later(p, b) /\ Stopped(p, b, J(k - 1)) /\ d = StopSlot(b, workers[k])
    BY <1>2, <1>4
  <2>2. J(k) = J(k - 1) \cup {workers[k]}
    <3>1. 1 .. k = (1 .. (k - 1)) \cup {k}
      BY <1>1
    <3> QED BY <3>1
  <2> HIDE DEF b, d, J
  <2>3. Ledger(d, a) /\ Later(b, d) /\ Stopped(b, d, {workers[k]})
    BY <1>1, <2>1, StopSlotKeeps
  <2>4. Later(p, d)
    BY <2>1, <2>3, LaterTransitive
  <2>5. Stopped(p, d, J(k))
    BY <2>1, <2>2, <2>3 DEF Stopped
  <2>6. k \in 0 .. n
    BY <1>1
  <2> QED BY <2>3, <2>4, <2>5, <2>6 DEF d
<1>5. n \in G
  <2> HIDE DEF G
  <2> QED BY <1>1, <1>3, <1>4, UpTo
<1>6. J(n) = Listed
  BY <1>1 DEF Listed, Range
<1> QED BY <1>2, <1>5, <1>6

-----------------------------------------------------------------------------
(* Steps at one slot.                                                      *)

\* q differs from p in the inbox of i alone.
InboxOnly(p, q, i) ==
    /\ q \in MainStates
    /\ q.closed = p.closed /\ q.kick = p.kick /\ q.nextTaskId = p.nextTaskId
    /\ q.queue = p.queue /\ q.withdrawn = p.withdrawn /\ q.slots = p.slots
    /\ q.cancelPool = p.cancelPool /\ q.cancelSlot = p.cancelSlot /\ q.outcome = p.outcome
    /\ \A j \in Workers \ {i} : q.inbox[j] = p.inbox[j]

\* The ledger reads nothing of the slots but their tasks.
LEMMA LedgerCopy ==
    ASSUME NEW p, NEW q \in MainStates, NEW a, Ledger(p, a),
           q.nextTaskId = p.nextTaskId, q.queue = p.queue, q.withdrawn = p.withdrawn,
           q.cancelPool = p.cancelPool, q.cancelSlot = p.cancelSlot, q.outcome = p.outcome,
           \A j \in Workers : q.slots[j].inflight = p.slots[j].inflight
    PROVE  Ledger(q, a) /\ Later(p, q)
<1>1. Accounted(q, a)
  BY AccountedCopy DEF Ledger
<1>2. HeldInv(q)
  <2>1. HeldInv(p)
    BY DEF Ledger
  <2>2. \A t \in Tasks : Waits(q, t) <=> t \in Range(q.queue) \/ \E i \in Workers : q.slots[i].inflight = t
    BY <2>1 DEF HeldInv, Waits
  <2>3. \A i \in Workers : q.slots[i].inflight \notin Range(q.queue)
    BY <2>1 DEF HeldInv
  <2>4. \A i, j \in Workers : q.slots[i].inflight = q.slots[j].inflight => i = j \/ q.slots[i].inflight = NoTask
    BY <2>1 DEF HeldInv
  <2> QED BY <2>1, <2>2, <2>3, <2>4 DEF HeldInv
<1>3. AskedInv(q, a)
  BY DEF Ledger, AskedInv
<1>4. Later(p, q)
  BY DEF Later, Waits
<1> QED BY <1>1, <1>2, <1>3, <1>4 DEF Ledger

\* A step that touches one slot and its thread.
LEMMA OneSlot ==
    ASSUME NEW p, NEW th \in [Workers -> Threads], NEW a, NEW L, PoolState(p, th, a, L),
           NEW i \in Workers, NEW q, Ledger(q, a), Later(p, q), q.closed = p.closed,
           q.closed => q.queue = << >>,
           \A j \in Workers \ {i} : q.slots[j] = p.slots[j] /\ q.inbox[j] = p.inbox[j],
           NEW th2, \A j \in Workers \ {i} : th2[j] = th[j],
           NEW L2, \A j \in Workers \ {i} : j \in L2 <=> j \in L,
           Link(q, th2[i], a, L2, i)
    PROVE  PoolState(q, th2, a, L2)
<1>1. p \in MainStates /\ q \in MainStates
  BY DEF PoolState, Ledger
<1>2. ASSUME NEW j \in Workers, j # i PROVE Link(q, th2[j], a, L2, j)
  <2>1. /\ Link(p, th[j], a, L, j) /\ th[j] \in Threads /\ th2[j] = th[j]
        /\ q.slots[j] = p.slots[j] /\ q.inbox[j] = p.inbox[j]
    BY <1>2 DEF PoolState
  <2>2. Link(q, th[j], a, L, j)
    BY <1>1, <2>1, LinkKept
  <2>3. j \in L2 <=> j \in L
    BY <1>2
  <2>4. Link(q, th[j], a, L2, j)
    BY <2>2, <2>3 DEF Link, RoleInv, TimerInv, RespawnInv
  <2> QED BY <2>1, <2>4
<1> QED BY <1>2 DEF PoolState

\* A thread that forgets its task or its messages, or is told to end.
LEMMA LinkThread ==
    ASSUME NEW p, NEW w, NEW a, NEW L, NEW i, Link(p, w, a, L, i),
           NEW w2, w2.role = w.role, w.ending => w2.ending, w2.run \in {w.run, NoTask},
           \A k \in DOMAIN w2.mail : w2.mail[k].kind = "result" =>
               \E l \in DOMAIN w.mail : w.mail[l] = w2.mail[k]
    PROVE  Link(p, w2, a, L, i)
<1>1. RoleInv(p, w2, L, i)
  BY DEF Link, RoleInv
<1>2. TimerInv(p, w2, L, i)
  <2>1. TimerInv(p, w, L, i)
    BY DEF Link
  <2>2. ASSUME p.slots[i].inflight # NoTask, NEW k \in DOMAIN w2.mail, w2.mail[k].kind = "result",
               w2.mail[k].task = p.slots[i].inflight
        PROVE  w2.run = NoTask /\ p.inbox[i] = << >>
    BY <2>1, <2>2 DEF TimerInv
  <2> QED BY <2>1, <2>2 DEF TimerInv
<1>3. HandedInv(p, w2, a, i)
  <2>1. HandedInv(p, w, a, i)
    BY DEF Link
  <2>2. Handed(p, w2.run)
    BY <2>1 DEF HandedInv, Handed
  <2> QED BY <2>1, <2>2 DEF HandedInv
<1>4. RespawnInv(p, w2, L, i)
  BY DEF Link, RespawnInv
<1> QED BY <1>1, <1>2, <1>3, <1>4 DEF Link

\* A message at the end of the mail.
LEMMA MailAppended ==
    ASSUME NEW s \in Seq(Messages), NEW m \in Messages
    PROVE  /\ Append(s, m) \in Seq(Messages)
           /\ \A k \in DOMAIN Append(s, m) :
                 (k \in DOMAIN s /\ Append(s, m)[k] = s[k]) \/ (k = Len(s) + 1 /\ Append(s, m)[k] = m)
OBVIOUS

\* A step from p to q gives tasks up as degraded only if the pool is open and
\* no listed slot serves or announces a respawn.
Honest(p, q) ==
    \A t \in Tasks : q.outcome[t] = "degraded" /\ p.outcome[t] # "degraded" =>
        ~q.closed /\ \A i \in Listed : ~Recoverable(q.slots[i])

\* Nothing is given up when nothing is answered, or only otherwise.
LEMMA NoneGivenUp ==
    ASSUME NEW p, NEW q, q.outcome = p.outcome
                           \/ \A t \in Tasks : q.outcome[t] = "degraded" <=> p.outcome[t] = "degraded"
    PROVE  Honest(p, q)
BY DEF Honest

\* The inductive invariant after a step of one thread that keeps its role.
LEMMA ThreadStep ==
    ASSUME IInv, NEW i \in Workers, NEW w \in Threads, w.role = thread[i].role, ThreadInv(w),
           thread' = [thread EXCEPT ![i] = w], InboxOnly(main, main', i),
           Link(main', w, asked, Listed, i),
           UNCHANGED <<workers, init, shutdown, asked, respawned>>
    PROVE  IInv' /\ Honest(main, main')
<1>1. /\ thread \in [Workers -> Threads] /\ thread' \in [Workers -> Threads] /\ thread'[i] = w
      /\ \A j \in Workers : j # i => thread'[j] = thread[j]
      /\ \A j \in Workers : thread'[j].role = thread[j].role
  BY DEF IInv, TypeInv
<1>2. TypeInv'
  BY <1>1 DEF IInv, TypeInv, InboxOnly
<1>3. Listed' = Listed
  BY DEF Listed
<1>4. PoolState(main', thread', asked', Listed')
  <2>1. PoolState(main, thread, asked, Listed) /\ Ledger(main, asked)
    BY DEF IInv, PoolState
  <2>2. Ledger(main', asked) /\ Later(main, main')
    BY <2>1, LedgerCopy DEF InboxOnly
  <2>3. /\ main'.closed = main.closed /\ (main'.closed => main'.queue = << >>)
        /\ \A j \in Workers \ {i} : main'.slots[j] = main.slots[j] /\ main'.inbox[j] = main.inbox[j]
    BY <2>1 DEF InboxOnly, PoolState
  <2>4. PoolState(main', thread', asked, Listed)
    BY <1>1, <2>1, <2>2, <2>3, OneSlot
  <2> QED BY <1>3, <2>4
<1>5. \A j \in Workers : ThreadInv(thread'[j])
  BY <1>1 DEF IInv
<1>6. Attended(main', thread', Listed')
  BY <1>1, <1>3 DEF IInv, Attended, InboxOnly, IdleSlot, Listed, Range, TypeInv
<1>7. CallsInv'
  BY <1>1, <1>3 DEF IInv, CallsInv, InboxOnly
<1>8. Honest(main, main')
  BY NoneGivenUp DEF InboxOnly
<1> QED BY <1>2, <1>4, <1>5, <1>6, <1>7, <1>8 DEF IInv

\* What the invariant says of one worker.
LEMMA AtWorker ==
    ASSUME IInv, NEW i \in Workers
    PROVE  /\ main \in MainStates /\ workers \in Seq(Workers) /\ Listed \subseteq Workers
           /\ thread \in [Workers -> Threads] /\ thread[i] \in Threads
           /\ asked \in [Tasks -> Asks] /\ respawned \in [Workers -> Nat]
           /\ main.slots[i] \in SlotStates
           /\ PoolState(main, thread, asked, Listed) /\ Ledger(main, asked)
           /\ Link(main, thread[i], asked, Listed, i) /\ ThreadInv(thread[i])
<1>1. main \in MainStates /\ workers \in Seq(Workers)
  BY DEF IInv, TypeInv
<1>2. /\ thread \in [Workers -> Threads] /\ thread[i] \in Threads
      /\ asked \in [Tasks -> Asks] /\ respawned \in [Workers -> Nat]
  BY DEF IInv, TypeInv
<1>3. Listed \subseteq Workers
  BY <1>1 DEF Listed, Range
<1>4. main.slots[i] \in SlotStates
  BY <1>1, MainFields
<1>5. /\ PoolState(main, thread, asked, Listed) /\ Ledger(main, asked)
      /\ Link(main, thread[i], asked, Listed, i) /\ ThreadInv(thread[i])
  BY DEF IInv, PoolState
<1> QED BY <1>1, <1>2, <1>3, <1>4, <1>5

\* Nothing in the inbox changes when the pool's state does not.
LEMMA SameInbox ==
    ASSUME NEW p \in MainStates, NEW q, q = p, NEW i
    PROVE  InboxOnly(p, q, i)
BY DEF InboxOnly

\* A worker posts 'ready'.
LEMMA BootReadyKeeps ==
    ASSUME IInv, NEW i \in Workers, BootReady(i)
    PROVE  IInv' /\ Honest(main, main')
<1> DEFINE m == Append(thread[i].mail, Ready)
           w == [thread[i] EXCEPT !.mail = m, !.st = "up"]
<1>1. /\ thread[i].st = "booting" /\ main' = main
      /\ thread' = [thread EXCEPT ![i] = w]
      /\ UNCHANGED <<workers, init, shutdown, asked, respawned>>
  BY AtWorker DEF BootReady, Steps, Posts, Threads
<1>2. thread[i].mail = << >> /\ thread[i].role \in Boots /\ thread[i].run = NoTask
  BY <1>1, AtWorker DEF ThreadInv, Boots, Spawning
<1>3. m = <<Ready>> /\ m \in Seq(Messages) /\ Ready.kind = "ready"
  BY <1>2 DEF Messages, Ready
<1> HIDE DEF m
<1>4. /\ w \in Threads /\ w.mail = m /\ w.st = "up" /\ w.role = thread[i].role
      /\ w.run = thread[i].run /\ w.ending = thread[i].ending
  BY <1>3, AtWorker DEF Threads
<1> HIDE DEF w
<1>5. \A k \in DOMAIN m : k = 1 /\ m[k] = Ready
  BY <1>3
<1>6. ThreadInv(w)
  <2>1. ThreadInv(thread[i])
    BY AtWorker
  <2>2. w.st = "up" /\ w.role \in Boots /\ w.role # "none" /\ w.run = NoTask
    BY <1>2, <1>4 DEF Boots, Spawning
  <2>3. w.role \in {"rejected", "unlisted", "reaped"} => Ended(w)
    BY <1>1, <1>4, <2>1 DEF ThreadInv, Ended
  <2>4. \A k \in DOMAIN w.mail : k = 1 /\ w.mail[k].kind = "ready"
    BY <1>3, <1>4, <1>5
  <2> QED BY <2>2, <2>3, <2>4 DEF ThreadInv
<1>7. Link(main, w, asked, Listed, i)
  BY <1>3, <1>4, <1>5, AtWorker, LinkThread
<1>8. InboxOnly(main, main', i)
  BY <1>1, AtWorker, SameInbox
<1> QED BY <1>1, <1>4, <1>6, <1>7, <1>8, ThreadStep

\* A worker posts 'init-error' and closes its port.
LEMMA BootFailsKeeps ==
    ASSUME IInv, NEW i \in Workers, BootFails(i)
    PROVE  IInv' /\ Honest(main, main')
<1> DEFINE m == Append(thread[i].mail, InitError)
           w == [thread[i] EXCEPT !.mail = m, !.st = "closing"]
<1>1. /\ thread[i].st = "booting" /\ main' = main
      /\ thread' = [thread EXCEPT ![i] = w]
      /\ UNCHANGED <<workers, init, shutdown, asked, respawned>>
  BY AtWorker DEF BootFails, Steps, Posts, Threads
<1>2. thread[i].mail = << >> /\ thread[i].role \in Boots /\ thread[i].run = NoTask
  BY <1>1, AtWorker DEF ThreadInv, Boots, Spawning
<1>3. m = <<InitError>> /\ m \in Seq(Messages) /\ InitError.kind = "init-error"
  BY <1>2 DEF Messages, InitError
<1> HIDE DEF m
<1>4. /\ w \in Threads /\ w.mail = m /\ w.st = "closing" /\ w.role = thread[i].role
      /\ w.run = thread[i].run /\ w.ending = thread[i].ending
  BY <1>3, AtWorker DEF Threads
<1> HIDE DEF w
<1>5. \A k \in DOMAIN m : k = 1 /\ m[k] = InitError
  BY <1>3
<1>6. ThreadInv(w)
  BY <1>1, <1>2, <1>3, <1>4, <1>5, AtWorker DEF ThreadInv, Ended
<1>7. Link(main, w, asked, Listed, i)
  BY <1>3, <1>4, <1>5, AtWorker, LinkThread
<1>8. InboxOnly(main, main', i)
  BY <1>1, AtWorker, SameInbox
<1> QED BY <1>1, <1>4, <1>6, <1>7, <1>8, ThreadStep

\* A thread stops.
LEMMA StopKeeps ==
    ASSUME IInv, NEW i \in Workers, Stop(i)
    PROVE  IInv' /\ Honest(main, main')
<1> DEFINE w == [thread[i] EXCEPT !.st = "gone", !.run = NoTask]
<1>1. /\ thread[i].st \in {"booting", "up", "closing"} /\ main' = main
      /\ thread' = [thread EXCEPT ![i] = w]
      /\ UNCHANGED <<workers, init, shutdown, asked, respawned>>
  BY DEF Stop, Steps
<1>2. /\ w \in Threads /\ w.mail = thread[i].mail /\ w.st = "gone" /\ w.role = thread[i].role
      /\ w.run = NoTask /\ w.ending = thread[i].ending
  BY AtWorker DEF Threads
<1> HIDE DEF w
<1>3. ThreadInv(w)
  BY <1>1, <1>2, AtWorker DEF ThreadInv, Ended
<1>4. Link(main, w, asked, Listed, i)
  BY <1>2, AtWorker, LinkThread
<1>5. InboxOnly(main, main', i)
  BY <1>1, AtWorker, SameInbox
<1> QED BY <1>1, <1>2, <1>3, <1>4, <1>5, ThreadStep

\* A worker that does not stop in time is terminated.
LEMMA GraceExpiresKeeps ==
    ASSUME IInv, NEW i \in Workers, GraceExpires(i)
    PROVE  IInv' /\ Honest(main, main')
<1> DEFINE w == [thread[i] EXCEPT !.ending = TRUE]
<1>1. /\ main' = main /\ thread' = [thread EXCEPT ![i] = w]
      /\ UNCHANGED <<workers, init, shutdown, asked, respawned>>
  BY DEF GraceExpires, Terminated
<1>2. /\ w \in Threads /\ w.mail = thread[i].mail /\ w.st = thread[i].st /\ w.role = thread[i].role
      /\ w.run = thread[i].run /\ w.ending
  BY AtWorker DEF Threads
<1> HIDE DEF w
<1>3. ThreadInv(w)
  BY <1>2, AtWorker DEF ThreadInv, Ended
<1>4. Link(main, w, asked, Listed, i)
  BY <1>2, AtWorker, LinkThread
<1>5. InboxOnly(main, main', i)
  BY <1>1, AtWorker, SameInbox
<1> QED BY <1>1, <1>2, <1>3, <1>4, <1>5, ThreadStep

\* A worker posts a result; it says cancelled only if the flag of the task it
\* ran was raised.
LEMMA FinishKeeps ==
    ASSUME IInv, NEW i \in Workers, NEW cancelled \in BOOLEAN, Finish(i, cancelled)
    PROVE  IInv' /\ Honest(main, main')
<1> DEFINE t == thread[i].run
           msg == ResultOf(t, cancelled)
           m == Append(thread[i].mail, msg)
           w == [thread[i] EXCEPT !.mail = m, !.run = NoTask]
<1>1. /\ thread[i].st = "up" /\ t # NoTask /\ main' = main
      /\ cancelled => main.cancelSlot[t] \in main.cancelPool.flag
      /\ thread' = [thread EXCEPT ![i] = w]
      /\ UNCHANGED <<workers, init, shutdown, asked, respawned>>
  BY AtWorker DEF Finish, Steps, Posts, Threads, Polled
<1>2. t \in Tasks /\ thread[i].role = "slot" /\ thread[i].mail \in Seq(Messages)
  BY <1>1, AtWorker, ThreadFields DEF ThreadInv
<1>3. /\ msg \in Messages /\ msg.kind = "result" /\ msg.task = t /\ msg.cancelled = cancelled
  BY <1>2 DEF Messages, ResultOf
<1> HIDE DEF msg
<1>4. /\ m \in Seq(Messages)
      /\ \A k \in DOMAIN m :
            \/ k \in DOMAIN thread[i].mail /\ m[k] = thread[i].mail[k]
            \/ k = Len(thread[i].mail) + 1 /\ m[k] = msg
  BY <1>2, <1>3, MailAppended
<1> HIDE DEF m
<1>5. /\ w \in Threads /\ w.mail = m /\ w.st = thread[i].st /\ w.role = thread[i].role
      /\ w.run = NoTask /\ w.ending = thread[i].ending
  BY <1>4, AtWorker DEF Threads
<1> HIDE DEF w
<1>6. ThreadInv(w)
  BY <1>1, <1>2, <1>3, <1>4, <1>5, AtWorker DEF ThreadInv, Ended
<1>7. Link(main, w, asked, Listed, i)
  <2>1. Link(main, thread[i], asked, Listed, i)
    BY AtWorker
  <2>2. RoleInv(main, w, Listed, i)
    BY <1>5, <2>1 DEF Link, RoleInv
  <2>3. TimerInv(main, w, Listed, i)
    <3>1. TimerInv(main, thread[i], Listed, i)
      BY <2>1 DEF Link
    <3>2. ASSUME main.slots[i].inflight # NoTask
          PROVE  main.inbox[i] = << >>
      BY <1>1, <3>1, <3>2 DEF TimerInv
    <3> QED BY <1>5, <3>1, <3>2 DEF TimerInv
  <2>4. HandedInv(main, w, asked, i)
    <3>1. HandedInv(main, thread[i], asked, i)
      BY <2>1 DEF Link
    <3>2. cancelled /\ Waits(main, t) => asked[t] # "no"
      BY <1>1, <1>2, AtWorker DEF Ledger, Accounted
    <3>3. Handed(main, NoTask) /\ Handed(main, t)
      BY <3>1 DEF HandedInv, Handed
    <3>4. ASSUME NEW k \in DOMAIN m, m[k].kind = "result"
          PROVE  /\ Handed(main, m[k].task)
                 /\ m[k].cancelled /\ Waits(main, m[k].task) => asked[m[k].task] # "no"
      BY <1>3, <1>4, <3>1, <3>2, <3>3, <3>4 DEF HandedInv
    <3> QED BY <1>5, <3>1, <3>3, <3>4 DEF HandedInv
  <2>5. RespawnInv(main, w, Listed, i)
    BY <1>5, <2>1 DEF Link, RespawnInv
  <2> QED BY <2>2, <2>3, <2>4, <2>5 DEF Link
<1>8. InboxOnly(main, main', i)
  BY <1>1, AtWorker, SameInbox
<1> QED BY <1>1, <1>5, <1>6, <1>7, <1>8, ThreadStep

\* A worker takes the head of its inbox.
LEMMA ReceiveKeeps ==
    ASSUME IInv, NEW i \in Workers, Receive(i)
    PROVE  IInv' /\ Honest(main, main')
<1> DEFINE x == Head(main.inbox[i])
           y == Tail(main.inbox[i])
           ib == [main.inbox EXCEPT ![i] = y]
           w == IF x = StopMessage THEN [thread[i] EXCEPT !.st = "closing"]
                ELSE [thread[i] EXCEPT !.run = x]
<1>1. /\ thread[i].st = "up" /\ thread[i].run = NoTask /\ main.inbox[i] # << >>
      /\ main' = [main EXCEPT !.inbox = ib]
      /\ thread' = [thread EXCEPT ![i] = w]
      /\ UNCHANGED <<workers, init, shutdown, asked, respawned>>
  BY DEF Receive, Steps
<1>2. main.inbox \in [Workers -> Seq(Tasks \cup {NoTask})] /\ main.inbox[i] \in Seq(Tasks \cup {NoTask})
  BY AtWorker, MainFields
<1>3. /\ x \in Tasks \cup {NoTask} /\ y \in Seq(Tasks \cup {NoTask})
      /\ \E k \in DOMAIN main.inbox[i] : x = main.inbox[i][k]
      /\ \A k \in DOMAIN y : k + 1 \in DOMAIN main.inbox[i] /\ y[k] = main.inbox[i][k + 1]
  <2>1. 1 \in DOMAIN main.inbox[i] /\ main.inbox[i][1] = x
    BY <1>1, <1>2
  <2>2. /\ x \in Tasks \cup {NoTask} /\ y \in Seq(Tasks \cup {NoTask})
        /\ \A k \in DOMAIN y : k + 1 \in DOMAIN main.inbox[i] /\ y[k] = main.inbox[i][k + 1]
    BY <1>1, <1>2, HeadPopped
  <2> QED BY <2>1, <2>2
<1>4. ib \in [Workers -> Seq(Tasks \cup {NoTask})] /\ ib[i] = y /\ \A j \in Workers \ {i} : ib[j] = main.inbox[j]
  BY <1>2, <1>3
<1>5. \A z : main.inbox[i] = <<z>> => x = z /\ y = << >>
  OBVIOUS
<1> HIDE DEF ib, x, y
<1>6. /\ InboxOnly(main, main', i) /\ main'.inbox[i] = y
  BY <1>1, <1>4, AtWorker DEF InboxOnly, MainStates
<1>7. /\ w \in Threads /\ w.mail = thread[i].mail /\ w.role = thread[i].role
      /\ w.run = x /\ w.st \in {"up", "closing"} /\ w.ending = thread[i].ending
  BY <1>1, <1>3, AtWorker DEF Threads, StopMessage, NoTask
<1>8. w.run # NoTask => w.st = "up"
  BY <1>1, <1>7, AtWorker DEF Threads, StopMessage, NoTask
<1> HIDE DEF w
<1>9. Link(main, thread[i], asked, Listed, i) /\ ThreadInv(thread[i])
  BY AtWorker
<1>10. thread[i].role = "slot"
  BY <1>1, <1>9 DEF Link, RoleInv
<1>11. ThreadInv(w)
  BY <1>1, <1>7, <1>8, <1>9, <1>10 DEF ThreadInv, Ended, Boots, Spawning
<1>12. Link(main', w, asked, Listed, i)
  <2>1. RoleInv(main', w, Listed, i)
    BY <1>6, <1>7, <1>9, <1>10 DEF Link, RoleInv, InboxOnly
  <2>2. TimerInv(main', w, Listed, i)
    <3>1. TimerInv(main, thread[i], Listed, i)
      BY <1>9 DEF Link
    <3>2. ASSUME main.slots[i].inflight # NoTask
          PROVE  /\ x = main.slots[i].inflight /\ y = << >>
                 /\ \A k \in DOMAIN thread[i].mail :
                       ~(thread[i].mail[k].kind = "result" /\ thread[i].mail[k].task = main.slots[i].inflight)
      BY <1>1, <1>5, <3>1, <3>2 DEF TimerInv
    <3>3. ~main.closed /\ i \in Listed => ~IdleSlot(main, i)
      BY <1>1, <3>1 DEF TimerInv
    <3> QED BY <1>6, <1>7, <3>1, <3>2, <3>3 DEF TimerInv, InboxOnly, IdleSlot
  <2>3. HandedInv(main', w, asked, i)
    <3>1. HandedInv(main, thread[i], asked, i)
      BY <1>9 DEF Link
    <3>2. \A t : (Handed(main', t) <=> Handed(main, t)) /\ (Waits(main', t) <=> Waits(main, t))
      BY <1>6 DEF InboxOnly, Handed, Waits
    <3>3. Handed(main, x) /\ \A k \in DOMAIN y : Handed(main, y[k])
      BY <1>3, <3>1 DEF HandedInv
    <3> QED BY <1>6, <1>7, <3>1, <3>2, <3>3 DEF HandedInv
  <2>4. RespawnInv(main', w, Listed, i)
    BY <1>6, <1>7, <1>9 DEF Link, RespawnInv, InboxOnly
  <2> QED BY <2>1, <2>2, <2>3, <2>4 DEF Link
<1> QED BY <1>1, <1>6, <1>7, <1>11, <1>12, ThreadStep

-----------------------------------------------------------------------------
(* Events at one worker.                                                   *)

\* Roles that may be left when shutdown() or init() is over.
Quiet == {"none", "rejected", "unlisted"}

\* The inductive invariant after an event that leaves the list alone.
LEMMA EventStep ==
    ASSUME IInv, NEW i \in Workers, NEW w \in Threads, ThreadInv(w),
           thread' = [thread EXCEPT ![i] = w],
           PoolState(main', thread', asked, Listed), Attended(main', thread', Listed),
           main'.nextTaskId = main.nextTaskId, main'.closed = main.closed,
           w.role = "init" => thread[i].role = "init",
           thread[i].role = "none" => w.role = "none",
           main.closed /\ thread[i].role \in Quiet => w.role \in Quiet,
           init' = init \/ (init \in {"running", "failing"} /\ init' = "failing"),
           respawned' \in [Workers -> Nat], UNCHANGED <<workers, shutdown, asked>>
    PROVE  IInv'
<1>1. /\ thread \in [Workers -> Threads] /\ thread' \in [Workers -> Threads] /\ thread'[i] = w
      /\ \A j \in Workers : j # i => thread'[j] = thread[j]
  BY DEF IInv, TypeInv
<1>2. TypeInv'
  <2>1. main' \in MainStates
    BY DEF PoolState, Ledger
  <2> QED BY <1>1, <2>1 DEF IInv, TypeInv
<1>3. Listed' = Listed
  BY DEF Listed
<1>4. \A j \in Workers : ThreadInv(thread'[j])
  BY <1>1 DEF IInv
<1>5. CallsInv'
  <2>1. CallsInv
    BY DEF IInv
  <2>2. init' # "done" => main'.nextTaskId = 1
    BY <2>1 DEF CallsInv
  <2>3. init' = "none" => workers' = << >> /\ \A j \in Workers : thread'[j].role = "none"
    BY <1>1, <2>1 DEF CallsInv
  <2>4. \A j \in Workers : thread'[j].role = "init" => init' \in {"running", "failing"} /\ j \notin Listed'
    BY <1>1, <1>3, <2>1 DEF CallsInv
  <2>5. /\ shutdown' # "none" => main'.closed /\ init' = "done"
        /\ init' \in {"terminating", "failed"} => main'.closed
    BY <2>1 DEF CallsInv
  <2>6. shutdown' = "returned" \/ init' = "failed" =>
          workers' = << >> /\ \A j \in Workers : thread'[j].role \in Quiet
    BY <1>1, <2>1 DEF CallsInv, Quiet
  <2> QED BY <2>2, <2>3, <2>4, <2>5, <2>6 DEF CallsInv, Quiet
<1> QED BY <1>2, <1>3, <1>4, <1>5 DEF IInv

\* The slot of a worker that no listed slot listens to.
LEMMA OffSlot ==
    ASSUME NEW p, NEW w, NEW a, NEW L, NEW i, Link(p, w, a, L, i), w.role # "slot"
    PROVE  /\ p.slots[i].inflight = NoTask /\ p.inbox[i] = << >>
           /\ i \in L => p.slots[i].exited /\ ~p.slots[i].ready
           /\ ~p.closed /\ i \in L => (p.slots[i].respawning <=> w.role = "respawn")
<1>1. p.slots[i].inflight = NoTask /\ p.inbox[i] = << >>
  BY DEF Link, RoleInv, TimerInv
<1>2. i \in L => p.slots[i].exited /\ ~p.slots[i].ready
  BY DEF Link, RoleInv
<1>3. ~p.closed /\ i \in L => (p.slots[i].respawning <=> w.role = "respawn")
  BY DEF Link, RespawnInv
<1> QED BY <1>1, <1>2, <1>3

\* A thread that serves no slot has one message at most.
LEMMA BootMail ==
    ASSUME NEW w \in Threads, ThreadInv(w), w.role # "slot", w.mail # << >>
    PROVE  Tail(w.mail) = << >> /\ Head(w.mail).kind \in {"ready", "init-error"} /\ w.role \in Boots
<1>1. w.mail \in Seq(Messages) /\ Len(w.mail) \in Nat /\ Len(w.mail) # 0 /\ DOMAIN w.mail = 1 .. Len(w.mail)
  BY ThreadFields
<1>2. \A k \in DOMAIN w.mail : w.mail[k] \in Messages
  BY <1>1
<1>3. \A k \in DOMAIN w.mail : w.mail[k].kind \in {"ready", "init-error"} /\ k = 1 /\ w.role \in Boots
  BY <1>2, MessageFacts DEF ThreadInv
<1>4. Len(w.mail) = 1
  <2>1. Len(w.mail) \in DOMAIN w.mail
    BY <1>1
  <2> QED BY <1>3, <2>1
<1>5. Tail(w.mail) = << >> /\ Head(w.mail) = w.mail[1] /\ 1 \in DOMAIN w.mail
  <2>1. Head(w.mail) = w.mail[1] /\ 1 \in DOMAIN w.mail
    BY <1>1, <1>4
  <2>2. Tail(w.mail) \in Seq(Messages) /\ Len(Tail(w.mail)) = 0
    BY <1>1, <1>4, HeadTailProperties
  <2>3. \A v \in Seq(Messages) : Len(v) = 0 => v = << >>
    OBVIOUS
  <2>4. Tail(w.mail) = << >>
    BY <2>2, <2>3
  <2> QED BY <2>1, <2>4
<1> QED BY <1>3, <1>5

\* A thread that serves no slot is linked when its slot waits for nothing.
LEMMA LinkIdle ==
    ASSUME NEW p, NEW w \in Threads, NEW a, NEW L, NEW i, ThreadInv(w), w.role # "slot",
           p.slots[i].inflight = NoTask, p.inbox[i] = << >>,
           i \in L => p.slots[i].exited /\ ~p.slots[i].ready,
           ~p.closed /\ i \in L => (p.slots[i].respawning <=> w.role = "respawn")
    PROVE  Link(p, w, a, L, i)
<1>1. w.run = NoTask /\ \A k \in DOMAIN w.mail : w.mail[k].kind # "result"
  BY DEF ThreadInv
<1>2. RoleInv(p, w, L, i)
  BY DEF RoleInv
<1>3. TimerInv(p, w, L, i)
  BY <1>1 DEF TimerInv, IdleSlot
<1>4. HandedInv(p, w, a, i)
  BY <1>1 DEF HandedInv, Handed
<1>5. RespawnInv(p, w, L, i)
  BY DEF RespawnInv
<1> QED BY <1>2, <1>3, <1>4, <1>5 DEF Link

\* A queue that is empty or unchanged is attended as before, unless the slot
\* or the role of one worker mattered.
LEMMA AttendedKept ==
    ASSUME NEW p, NEW q, NEW th, NEW th2, NEW L \in SUBSET Workers, Attended(p, th, L),
           q.queue = p.queue, q.closed = p.closed, p.kick => q.kick,
           \A j \in L : /\ IdleSlot(q, j) => IdleSlot(p, j)
                        /\ th[j].role \in {"slot", "respawn"} => th2[j].role \in {"slot", "respawn"}
    PROVE  Attended(q, th2, L)
BY DEF Attended

\* After the queue was given up unless somebody comes back, whoever comes
\* back attends to it.
LEMMA AttendedDrained ==
    ASSUME NEW p, NEW th, NEW a, NEW L \in SUBSET Workers, PoolState(p, th, a, L),
           p.queue # << >> /\ ~p.closed => \E j \in L : Recoverable(p.slots[j]),
           p.queue # << >> /\ ~p.closed => p.kick \/ \A j \in L : ~IdleSlot(p, j)
    PROVE  Attended(p, th, L)
<1>1. ASSUME NEW j \in L, ~p.closed, Recoverable(p.slots[j])
      PROVE  th[j].role \in {"slot", "respawn"}
  <2>1. Link(p, th[j], a, L, j)
    BY DEF PoolState
  <2> QED BY <1>1, <2>1 DEF Link, RoleInv, RespawnInv, Recoverable
<1> QED BY <1>1 DEF Attended

\* A thread that is gone for the pool.
LEMMA NoThreadFacts ==
    /\ NoThread \in Threads /\ ThreadInv(NoThread)
    /\ NoThread.role = "none" /\ NoThread.mail = << >> /\ NoThread.run = NoTask
<1>1. NoThread \in Threads
  BY DEF NoThread, Threads, Roles
<1>2. /\ NoThread.role = "none" /\ NoThread.mail = << >> /\ NoThread.run = NoTask
      /\ NoThread.st = "none"
  BY DEF NoThread
<1> QED BY <1>1, <1>2 DEF ThreadInv, Ended

\* A thread that loads its plugins.
LEMMA BootingFacts ==
    ASSUME NEW role \in Spawning, NEW crash \in Nat
    PROVE  LET w == Booting(role, crash) IN
           w \in Threads /\ ThreadInv(w) /\ w.role = role /\ w.mail = << >> /\ w.run = NoTask
<1> DEFINE w == Booting(role, crash)
<1>2. role \in Roles /\ role # "none" /\ role \in Boots
  BY DEF Spawning, Roles, Boots
<1>1. w.st = "booting" /\ w.role = role /\ w.mail = << >> /\ w.run = NoTask
  BY DEF Booting, NoThread
<1>3. w \in Threads
  BY <1>2, NoThreadFacts DEF Booting, Threads
<1> HIDE DEF w
<1>4. ThreadInv(w)
  BY <1>1, <1>2 DEF ThreadInv, Ended, Spawning
<1> QED BY <1>1, <1>3, <1>4 DEF w

\* What giving a backlog up makes of the pool.
DrainsTo(p, q, th, a) == PoolState(q, th, a, Listed) /\ Drained(p, q)

\* Giving a backlog up keeps the pool's state.
LEMMA DrainPool ==
    ASSUME NEW p, NEW th \in [Workers -> Threads], NEW a, PoolState(p, th, a, Listed)
    PROVE  DrainsTo(p, DrainIfDegraded(p), th, a)
<1> DEFINE q == DrainIfDegraded(p)
<1>1. Ledger(q, a) /\ Later(p, q) /\ Drained(p, q)
  BY DrainKeeps DEF PoolState
<1> HIDE DEF q
<1>2. q.closed => q.queue = << >>
  BY <1>1 DEF PoolState, Drained, QueueOnly
<1>3. PoolState(q, th, a, Listed)
  BY <1>1, <1>2, PoolKept DEF Drained, QueueOnly
<1> QED BY <1>1, <1>3 DEF DrainsTo, q

\* A change that leaves the list, its slots but one flag, and the queue as
\* they are, at a worker whose spawn ends.
LEMMA SpawnRejectedKeeps ==
    ASSUME IInv, NEW i \in Workers, thread[i].role \in Spawning, SpawnRejected(i),
           NEW w \in Threads, ThreadInv(w), w.role \in {"rejected", "none"},
           thread' = [thread EXCEPT ![i] = w],
           UNCHANGED <<workers, shutdown, asked, respawned>>
    PROVE  IInv' /\ Honest(main, main')
<1> DEFINE c == [main.slots[i] EXCEPT !.respawning = FALSE]
           sl == [main.slots EXCEPT ![i] = c]
           p0 == [main EXCEPT !.slots = sl]
           p == IF thread[i].role = "respawn" THEN p0 ELSE main
<1>1. Link(main, thread[i], asked, Listed, i) /\ PoolState(main, thread, asked, Listed)
      /\ Ledger(main, asked) /\ main \in MainStates /\ Listed \subseteq Workers
      /\ thread \in [Workers -> Threads] /\ CallsInv /\ Attended(main, thread, Listed)
      /\ respawned \in [Workers -> Nat]
  BY AtWorker DEF IInv
<1>2. thread[i].role # "slot" /\ w.role # "slot" /\ w.role # "respawn" /\ w.role # "init"
      /\ thread[i].role # "none" /\ w.role \in Quiet
  BY DEF Spawning, Quiet
<1>3. /\ main.slots[i].inflight = NoTask /\ main.inbox[i] = << >>
      /\ i \in Listed => main.slots[i].exited /\ ~main.slots[i].ready
      /\ ~main.closed /\ i \in Listed => (main.slots[i].respawning <=> thread[i].role = "respawn")
  BY <1>1, <1>2, OffSlot
<1>4. /\ thread' \in [Workers -> Threads] /\ thread'[i] = w
      /\ \A j \in Workers \ {i} : thread'[j] = thread[j]
  BY <1>1
<1>5. CASE thread[i].role = "init"
  <2>1. init' = "failing" /\ main' = main
    BY <1>5 DEF SpawnRejected
  <2>2. init \in {"running", "failing"} /\ i \notin Listed
    BY <1>1, <1>5 DEF CallsInv
  <2>3. Link(main, w, asked, Listed, i)
    BY <1>2, <1>3, <2>2, LinkIdle
  <2>4. Later(main, main) /\ (main.closed => main.queue = << >>)
    BY <1>1 DEF Later, PoolState
  <2>5. PoolState(main, thread', asked, Listed)
    BY <1>1, <1>4, <2>3, <2>4, OneSlot
  <2>6. \A j \in Listed : thread'[j] = thread[j]
    BY <1>1, <1>4, <2>2
  <2>7. Attended(main, thread', Listed)
    BY <1>1, <2>6, AttendedKept
  <2> QED BY <1>1, <1>2, <2>1, <2>2, <2>5, <2>7, EventStep, NoneGivenUp
<1>6. CASE thread[i].role # "init"
  <2>1. main' = DrainIfDegraded(p) /\ init' = init
    <3>1. p0 = [main EXCEPT !.slots[i].respawning = FALSE]
      BY <1>1 DEF MainStates
    <3> QED BY <1>6, <3>1 DEF SpawnRejected
  <2>2. /\ sl \in [Workers -> SlotStates]
        /\ \A j \in Workers : /\ j # i => sl[j] = main.slots[j]
                              /\ sl[j].inflight = main.slots[j].inflight
                              /\ sl[j].exited = main.slots[j].exited
                              /\ sl[j].ready = main.slots[j].ready
        /\ ~sl[i].respawning
    <3>1. main.slots \in [Workers -> SlotStates] /\ main.slots[i] \in SlotStates
      BY <1>1, MainFields
    <3>2. /\ c \in SlotStates /\ c.ready = main.slots[i].ready /\ c.exited = main.slots[i].exited
          /\ c.inflight = main.slots[i].inflight /\ ~c.respawning
      BY <3>1 DEF SlotStates
    <3> HIDE DEF c
    <3> QED BY <3>1, <3>2
  <2> HIDE DEF sl
  <2>3. /\ p0 \in MainStates /\ p0.slots = sl /\ p0.kick = main.kick /\ p0.closed = main.closed
        /\ p0.nextTaskId = main.nextTaskId /\ p0.withdrawn = main.withdrawn
        /\ p0.queue = main.queue /\ p0.inbox = main.inbox /\ p0.cancelPool = main.cancelPool
        /\ p0.cancelSlot = main.cancelSlot /\ p0.outcome = main.outcome
    BY <1>1, <2>2 DEF MainStates
  <2>4. /\ p \in MainStates /\ p.kick = main.kick /\ p.closed = main.closed
        /\ p.nextTaskId = main.nextTaskId /\ p.withdrawn = main.withdrawn
        /\ p.queue = main.queue /\ p.inbox = main.inbox /\ p.cancelPool = main.cancelPool
        /\ p.cancelSlot = main.cancelSlot /\ p.outcome = main.outcome
        /\ \A j \in Workers : /\ j # i => p.slots[j] = main.slots[j]
                              /\ p.slots[j].inflight = main.slots[j].inflight
                              /\ p.slots[j].exited = main.slots[j].exited
                              /\ p.slots[j].ready = main.slots[j].ready
        /\ ~p.closed /\ i \in Listed => ~p.slots[i].respawning
    BY <1>1, <1>3, <2>2, <2>3
  <2> HIDE DEF p
  <2>5. Ledger(p, asked) /\ Later(main, p)
    BY <1>1, <2>4, LedgerCopy
  <2>6. Link(p, w, asked, Listed, i)
    BY <1>2, <1>3, <2>4, LinkIdle
  <2>7. PoolState(p, thread', asked, Listed)
    <3>1. p.closed => p.queue = << >>
      BY <1>1, <2>4 DEF PoolState
    <3>2. p.closed = main.closed
      BY <2>4
    <3>3. \A j \in Workers \ {i} : p.slots[j] = main.slots[j] /\ p.inbox[j] = main.inbox[j]
      BY <2>4
    <3>4. Link(p, thread'[i], asked, Listed, i)
      BY <1>4, <2>6
    <3>5. \A j \in Workers \ {i} : thread'[j] = thread[j]
      BY <1>4
    <3>6. thread \in [Workers -> Threads] /\ PoolState(main, thread, asked, Listed)
      BY <1>1
    <3> QED BY <2>5, <3>1, <3>2, <3>3, <3>4, <3>5, <3>6, OneSlot
  <2>8. DrainsTo(p, main', thread', asked)
    BY <1>4, <2>1, <2>7, DrainPool
  <2>9. Attended(main', thread', Listed)
    <3>1. ASSUME main'.queue # << >>, ~main'.closed
          PROVE  main'.kick \/ \A j \in Listed : ~IdleSlot(main', j)
      <4>1. main.queue # << >> /\ ~main.closed /\ main'.kick = main.kick /\ main'.slots = p.slots
        BY <2>4, <2>8, <3>1 DEF DrainsTo, Drained, QueueOnly
      <4> QED BY <1>1, <2>4, <4>1 DEF Attended, IdleSlot
    <3> QED BY <1>1, <2>8, <3>1, AttendedDrained DEF DrainsTo, Drained, QueueOnly
  <2>10. main'.nextTaskId = main.nextTaskId /\ main'.closed = main.closed
    BY <2>4, <2>8 DEF DrainsTo, Drained, QueueOnly
  <2>11. Honest(main, main')
    BY <2>4, <2>8 DEF Honest, DrainsTo, Drained, QueueOnly
  <2>12. IInv'
    BY <1>1, <1>2, <2>1, <2>8, <2>9, <2>10, EventStep DEF DrainsTo
  <2> QED BY <2>11, <2>12
<1> QED BY <1>5, <1>6

\* A message from a thread that loads its plugins.
LEMMA PoppedBoot ==
    ASSUME IInv, NEW i \in Workers, NEW kind \in {"ready", "init-error"}, Mail(i, kind)
    PROVE  LET w == Popped(i) IN
           /\ w \in Threads /\ w.mail = << >> /\ w.run = NoTask /\ w.role = thread[i].role
           /\ w.st = thread[i].st /\ w.ending = thread[i].ending /\ w.crash = thread[i].crash
           /\ w.role \in Boots /\ w.st \in {"up", "closing", "gone"}
           /\ kind = "init-error" => w.st \in {"closing", "gone"}
           /\ w.role = "rejected" => Ended(w)
<1> DEFINE w == Popped(i)
           m == Tail(thread[i].mail)
<1>1. thread[i] \in Threads /\ ThreadInv(thread[i])
  BY AtWorker
<1>2. thread[i].mail # << >> /\ Head(thread[i].mail).kind = kind /\ thread[i].mail \in Seq(Messages)
  BY <1>1, ThreadFields DEF Mail
<1>3. 1 \in DOMAIN thread[i].mail /\ thread[i].mail[1].kind = kind
  BY <1>2
<1>4. thread[i].role \in Boots /\ (kind = "init-error" => thread[i].st \in {"closing", "gone"})
  BY <1>1, <1>3 DEF ThreadInv
<1>5. m = << >>
  BY <1>1, <1>2, <1>4, BootMail DEF Boots, Spawning
<1> HIDE DEF m
<1>6. /\ w \in Threads /\ w.mail = << >> /\ w.run = thread[i].run /\ w.role = thread[i].role
      /\ w.st = thread[i].st /\ w.ending = thread[i].ending /\ w.crash = thread[i].crash
  <2>1. w = [thread[i] EXCEPT !.mail = m]
    BY DEF Popped, m
  <2>2. m \in Seq(Messages)
    BY <1>5
  <2> HIDE DEF w
  <2> QED BY <1>1, <1>5, <2>1, <2>2 DEF Threads
<1> HIDE DEF w
<1>7. w.st \in {"up", "closing", "gone"}
  BY <1>1, <1>2, <1>4, <1>6 DEF ThreadInv, Threads, Boots, Spawning
<1>8. w.run = NoTask /\ (w.role = "rejected" => Ended(w))
  BY <1>1, <1>4, <1>6 DEF ThreadInv, Boots, Spawning, Ended
<1> QED BY <1>4, <1>6, <1>7, <1>8 DEF w

\* An event at a worker that serves no slot, before and after, and of which
\* the pool keeps no record.
LEMMA OffEvent ==
    ASSUME IInv, NEW i \in Workers, thread[i].role # "slot",
           NEW w \in Threads, ThreadInv(w), w.role # "slot",
           thread' = [thread EXCEPT ![i] = w], main' = main,
           main.closed \/ i \notin Listed \/ (w.role = "respawn" <=> thread[i].role = "respawn"),
           w.role = "init" => thread[i].role = "init",
           thread[i].role = "none" => w.role = "none",
           main.closed /\ thread[i].role \in Quiet => w.role \in Quiet,
           respawned' \in [Workers -> Nat], UNCHANGED <<workers, init, shutdown, asked>>
    PROVE  IInv' /\ Honest(main, main')
<1>1. Link(main, thread[i], asked, Listed, i) /\ PoolState(main, thread, asked, Listed)
      /\ Ledger(main, asked) /\ main \in MainStates /\ Listed \subseteq Workers
      /\ thread \in [Workers -> Threads] /\ Attended(main, thread, Listed)
  BY AtWorker DEF IInv
<1>2. /\ main.slots[i].inflight = NoTask /\ main.inbox[i] = << >>
      /\ i \in Listed => main.slots[i].exited /\ ~main.slots[i].ready
      /\ ~main.closed /\ i \in Listed => (main.slots[i].respawning <=> thread[i].role = "respawn")
  BY <1>1, OffSlot
<1>3. thread'[i] = w /\ \A j \in Workers \ {i} : thread'[j] = thread[j]
  BY <1>1
<1>4. Link(main, w, asked, Listed, i)
  BY <1>2, LinkIdle
<1>5. Later(main, main) /\ (main.closed => main.queue = << >>)
  BY <1>1 DEF Later, PoolState
<1>6. PoolState(main', thread', asked, Listed)
  BY <1>1, <1>3, <1>4, <1>5, OneSlot
<1>7. Attended(main', thread', Listed)
  <2>1. \A j \in Listed : ~main.closed =>
           (thread[j].role \in {"slot", "respawn"} => thread'[j].role \in {"slot", "respawn"})
    BY <1>1, <1>3
  <2> QED BY <1>1, <2>1 DEF Attended
<1> QED BY <1>1, <1>6, <1>7, EventStep, NoneGivenUp

\* 'ready' of a spawn that was given up.
LEMMA OnLateReadyKeeps ==
    ASSUME IInv, NEW i \in Workers, OnLateReady(i)
    PROVE  IInv' /\ Honest(main, main')
<1> DEFINE v == Popped(i)
           w == [v EXCEPT !.role = "unlisted", !.crash = 0]
<1>1. /\ Mail(i, "ready") /\ thread[i].role = "rejected"
      /\ thread' = [thread EXCEPT ![i] = w]
      /\ UNCHANGED <<main, workers, init, shutdown, asked, respawned>>
  BY DEF OnLateReady
<1>2. /\ v \in Threads /\ v.mail = << >> /\ v.run = NoTask /\ v.role = thread[i].role
      /\ v.st \in {"up", "closing", "gone"} /\ Ended(v)
  BY <1>1, PoppedBoot
<1> HIDE DEF v
<1>3. /\ w \in Threads /\ w.mail = << >> /\ w.run = NoTask /\ w.role = "unlisted"
      /\ w.st = v.st /\ w.ending = v.ending
  BY <1>2 DEF Threads, Roles
<1> HIDE DEF w
<1>4. ThreadInv(w)
  BY <1>2, <1>3 DEF ThreadInv, Ended
<1>5. w.role \in Quiet /\ respawned \in [Workers -> Nat]
  BY <1>3, AtWorker DEF Quiet
<1> QED BY <1>1, <1>3, <1>4, <1>5, OffEvent

\* 'init-error'.
LEMMA OnInitErrorKeeps ==
    ASSUME IInv, NEW i \in Workers, OnInitError(i)
    PROVE  IInv' /\ Honest(main, main')
<1> DEFINE v == Popped(i)
           w == [v EXCEPT !.role = "rejected"]
<1>1. /\ Mail(i, "init-error")
      /\ thread' = [thread EXCEPT ![i] = w]
      /\ IF thread[i].role \in Spawning THEN SpawnRejected(i) ELSE UNCHANGED <<main, init>>
      /\ UNCHANGED <<workers, shutdown, asked, respawned>>
  BY DEF OnInitError
<1>2. /\ v \in Threads /\ v.mail = << >> /\ v.run = NoTask /\ v.role = thread[i].role
      /\ v.role \in Boots /\ v.st \in {"closing", "gone"}
  BY <1>1, PoppedBoot
<1> HIDE DEF v
<1>3. /\ w \in Threads /\ w.mail = << >> /\ w.run = NoTask /\ w.role = "rejected"
      /\ w.st = v.st /\ w.ending = v.ending
  BY <1>2 DEF Threads, Roles
<1> HIDE DEF w
<1>4. ThreadInv(w)
  BY <1>2, <1>3 DEF ThreadInv, Ended
<1>5. w.role \in Quiet /\ respawned \in [Workers -> Nat]
  BY <1>3, AtWorker DEF Quiet
<1>6. CASE thread[i].role \in Spawning
  BY <1>1, <1>3, <1>4, <1>6, SpawnRejectedKeeps
<1>7. CASE thread[i].role \notin Spawning
  <2>1. thread[i].role = "rejected"
    BY <1>2, <1>7 DEF Boots
  <2> QED BY <1>1, <1>3, <1>4, <1>5, <1>7, <2>1, OffEvent
<1> QED BY <1>6, <1>7

\* The init timer.
LEMMA InitTimeoutKeeps ==
    ASSUME IInv, NEW i \in Workers, InitTimeout(i)
    PROVE  IInv' /\ Honest(main, main')
<1> DEFINE w == [thread[i] EXCEPT !.role = "rejected", !.ending = TRUE]
<1>1. /\ thread[i].role \in Spawning
      /\ thread' = [thread EXCEPT ![i] = w]
      /\ SpawnRejected(i)
      /\ UNCHANGED <<workers, shutdown, asked, respawned>>
  BY AtWorker DEF InitTimeout, Terminated, Threads
<1>2. /\ w \in Threads /\ w.mail = thread[i].mail /\ w.run = thread[i].run /\ w.role = "rejected"
      /\ w.st = thread[i].st /\ w.ending
  BY AtWorker DEF Threads, Roles
<1> HIDE DEF w
<1>3. ThreadInv(w)
  BY <1>1, <1>2, AtWorker DEF ThreadInv, Ended, Boots, Spawning
<1> QED BY <1>1, <1>2, <1>3, SpawnRejectedKeeps

\* The exit event of a thread whose spawn is awaited.
LEMMA OnBootExitKeeps ==
    ASSUME IInv, NEW i \in Workers, OnBootExit(i)
    PROVE  IInv' /\ Honest(main, main')
<1>1. /\ thread[i].role \in Spawning
      /\ thread' = [thread EXCEPT ![i] = NoThread]
      /\ SpawnRejected(i)
      /\ UNCHANGED <<workers, shutdown, asked, respawned>>
  BY DEF OnBootExit, ExitEvent
<1> QED BY <1>1, NoThreadFacts, SpawnRejectedKeeps

\* The exit event nobody waits for.
LEMMA OnFinalExitKeeps ==
    ASSUME IInv, NEW i \in Workers, OnFinalExit(i)
    PROVE  IInv' /\ Honest(main, main')
<1>1. /\ thread[i].role \in {"rejected", "reaped"}
      /\ thread' = [thread EXCEPT ![i] = NoThread]
      /\ UNCHANGED <<main, workers, init, shutdown, asked, respawned>>
  BY DEF OnFinalExit, ExitEvent
<1>2. NoThread.role \in Quiet /\ respawned \in [Workers -> Nat]
  BY NoThreadFacts, AtWorker DEF Quiet
<1> QED BY <1>1, <1>2, NoThreadFacts, OffEvent

\* The count of respawns stays a number.
LEMMA RespawnCounted ==
    ASSUME IInv, NEW i \in Workers, NEW role, NEW crash, Respawn(i, role, crash)
    PROVE  thread' = [thread EXCEPT ![i] = Booting(role, crash)] /\ respawned' \in [Workers -> Nat]
<1>1. respawned \in [Workers -> Nat] /\ RetryCap \in Nat
  BY AtWorker, PoolAssumption
<1> QED BY <1>1 DEF Respawn

\* The exit event of a slot outside the list.
LEMMA OnUnlistedExitKeeps ==
    ASSUME IInv, NEW i \in Workers, OnUnlistedExit(i)
    PROVE  IInv' /\ Honest(main, main')
<1>1. /\ thread[i].role = "unlisted" /\ UNCHANGED <<workers, init, shutdown, asked>>
      /\ Link(main, thread[i], asked, Listed, i) /\ PoolState(main, thread, asked, Listed)
      /\ Ledger(main, asked) /\ main \in MainStates /\ Listed \subseteq Workers
      /\ thread \in [Workers -> Threads] /\ Attended(main, thread, Listed)
  BY AtWorker DEF OnUnlistedExit, ExitEvent, IInv
<1>2. CASE ~main.closed /\ main' = main /\ Respawn(i, "stray", thread[i].crash + 1)
  <2> DEFINE w == Booting("stray", thread[i].crash + 1)
  <2>1. thread[i].crash + 1 \in Nat
    BY AtWorker, ThreadFields
  <2>2. w \in Threads /\ ThreadInv(w) /\ w.role = "stray"
    BY <2>1, BootingFacts DEF Spawning
  <2>3. thread' = [thread EXCEPT ![i] = w] /\ respawned' \in [Workers -> Nat]
    BY <1>2, RespawnCounted
  <2> HIDE DEF w
  <2> QED BY <1>1, <1>2, <2>2, <2>3, OffEvent
<1>3. CASE main' = DrainIfDegraded(main) /\ thread' = [thread EXCEPT ![i] = NoThread] /\ respawned' = respawned
  <2> DEFINE w == NoThread
  <2>1. w \in Threads /\ ThreadInv(w) /\ w.role = "none"
    BY NoThreadFacts
  <2>2. thread' = [thread EXCEPT ![i] = w]
    BY <1>3
  <2> HIDE DEF w
  <2>3. /\ thread' \in [Workers -> Threads] /\ thread'[i] = w
        /\ \A j \in Workers \ {i} : thread'[j] = thread[j]
    BY <1>1, <2>1, <2>2
  <2>4. Link(main, w, asked, Listed, i)
    <3>1. /\ main.slots[i].inflight = NoTask /\ main.inbox[i] = << >>
          /\ i \in Listed => main.slots[i].exited /\ ~main.slots[i].ready
          /\ ~main.closed /\ i \in Listed => (main.slots[i].respawning <=> thread[i].role = "respawn")
      BY <1>1, OffSlot
    <3> QED BY <1>1, <2>1, <3>1, LinkIdle
  <2>5. Later(main, main) /\ (main.closed => main.queue = << >>)
    BY <1>1 DEF Later, PoolState
  <2>6. PoolState(main, thread', asked, Listed)
    BY <1>1, <2>3, <2>4, <2>5, OneSlot
  <2>7. DrainsTo(main, main', thread', asked)
    BY <1>3, <2>3, <2>6, DrainPool
  <2>8. Attended(main', thread', Listed)
    <3>1. ASSUME main'.queue # << >>, ~main'.closed
          PROVE  main'.kick \/ \A j \in Listed : ~IdleSlot(main', j)
      BY <1>1, <2>7, <3>1 DEF DrainsTo, Drained, QueueOnly, Attended, IdleSlot
    <3> QED BY <1>1, <2>7, <3>1, AttendedDrained DEF DrainsTo, Drained, QueueOnly
  <2>9. /\ main'.nextTaskId = main.nextTaskId /\ main'.closed = main.closed /\ w.role \in Quiet
        /\ respawned' \in [Workers -> Nat]
    BY <1>3, <2>1, <2>7, AtWorker DEF DrainsTo, Drained, QueueOnly, Quiet
  <2>10. Honest(main, main')
    BY <2>7 DEF Honest, DrainsTo, Drained, QueueOnly
  <2>11. IInv'
    BY <1>1, <2>1, <2>2, <2>7, <2>8, <2>9, EventStep DEF DrainsTo
  <2> QED BY <2>10, <2>11
<1> QED BY <1>2, <1>3 DEF OnUnlistedExit, WillRespawn

\* A slot whose thread has just become ready is linked to it.
LEMMA LinkFresh ==
    ASSUME NEW p, NEW w, NEW a, NEW L, NEW i \in L,
           w.role = "slot", w.run = NoTask, w.mail = << >>, p.inbox[i] = << >>,
           p.slots[i].ready, ~p.slots[i].exited, ~p.slots[i].respawning, p.slots[i].inflight = NoTask
    PROVE  Link(p, w, a, L, i)
<1>1. RoleInv(p, w, L, i)
  BY DEF RoleInv
<1>2. TimerInv(p, w, L, i)
  BY DEF TimerInv
<1>3. HandedInv(p, w, a, i)
  BY DEF HandedInv, Handed
<1>4. RespawnInv(p, w, L, i)
  BY DEF RespawnInv
<1> QED BY <1>1, <1>2, <1>3, <1>4 DEF Link

\* q is p but for slots, and each slot waits for the same task.
SlotsOnly(p, q) ==
    /\ q \in MainStates
    /\ q.closed = p.closed /\ q.kick = p.kick /\ q.nextTaskId = p.nextTaskId
    /\ q.queue = p.queue /\ q.withdrawn = p.withdrawn /\ q.inbox = p.inbox
    /\ q.cancelPool = p.cancelPool /\ q.cancelSlot = p.cancelSlot /\ q.outcome = p.outcome
    /\ \A j \in Workers : q.slots[j].inflight = p.slots[j].inflight

\* A slot taken over by a thread that became ready.
LEMMA AdoptedKeeps ==
    ASSUME IInv, NEW i \in Workers, thread[i].role \in Spawning,
           NEW w \in Threads, w.role = "slot", w.run = NoTask, w.mail = << >>,
           thread' = [thread EXCEPT ![i] = w],
           NEW L2, i \in L2, \A j \in Workers \ {i} : j \in L2 <=> j \in Listed
    PROVE  LET p == [main EXCEPT !.slots[i] = Adopted(i)] IN
           PoolState(p, thread', asked, L2) /\ SlotsOnly(main, p)
<1> DEFINE c == Adopted(i)
           sl == [main.slots EXCEPT ![i] = c]
           p == [main EXCEPT !.slots[i] = Adopted(i)]
<1>1. Link(main, thread[i], asked, Listed, i) /\ PoolState(main, thread, asked, Listed)
      /\ Ledger(main, asked) /\ main \in MainStates /\ Listed \subseteq Workers
      /\ thread \in [Workers -> Threads] /\ thread[i].crash \in Nat
  BY AtWorker, ThreadFields
<1>2. main.slots[i].inflight = NoTask /\ main.inbox[i] = << >>
  BY <1>1, OffSlot DEF Spawning
<1>3. /\ c \in SlotStates /\ c.ready /\ ~c.exited /\ ~c.respawning /\ c.inflight = NoTask
  BY <1>1 DEF Adopted, FreshSlot, SlotStates
<1>4. p = [main EXCEPT !.slots = sl]
  BY <1>1 DEF MainStates
<1> HIDE DEF p, c
<1>5. /\ sl \in [Workers -> SlotStates] /\ sl[i] = c
      /\ \A j \in Workers \ {i} : sl[j] = main.slots[j]
  <2>1. main.slots \in [Workers -> SlotStates]
    BY <1>1, MainFields
  <2> QED BY <1>3, <2>1
<1> HIDE DEF sl
<1>6. /\ p \in MainStates /\ p.slots = sl /\ p.kick = main.kick /\ p.closed = main.closed
      /\ p.nextTaskId = main.nextTaskId /\ p.withdrawn = main.withdrawn /\ p.queue = main.queue
      /\ p.inbox = main.inbox /\ p.cancelPool = main.cancelPool /\ p.cancelSlot = main.cancelSlot
      /\ p.outcome = main.outcome
  BY <1>1, <1>4, <1>5 DEF MainStates
<1>7. \A j \in Workers : p.slots[j].inflight = main.slots[j].inflight
  BY <1>2, <1>3, <1>5, <1>6
<1>8. SlotsOnly(main, p)
  BY <1>6, <1>7 DEF SlotsOnly
<1>9. Ledger(p, asked) /\ Later(main, p)
  BY <1>1, <1>6, <1>7, LedgerCopy
<1>10. Link(p, w, asked, L2, i)
  <2>1. /\ p.inbox[i] = << >> /\ p.slots[i].ready /\ ~p.slots[i].exited
        /\ ~p.slots[i].respawning /\ p.slots[i].inflight = NoTask
    BY <1>2, <1>3, <1>5, <1>6
  <2> QED BY <2>1, LinkFresh
<1>11. PoolState(p, thread', asked, L2)
  <2>1. p.closed = main.closed /\ (p.closed => p.queue = << >>)
    BY <1>1, <1>6 DEF PoolState
  <2>2. \A j \in Workers \ {i} : p.slots[j] = main.slots[j] /\ p.inbox[j] = main.inbox[j]
    BY <1>5, <1>6
  <2>3. Link(p, thread'[i], asked, L2, i) /\ \A j \in Workers \ {i} : thread'[j] = thread[j]
    BY <1>1, <1>10
  <2> QED BY <1>1, <1>9, <2>1, <2>2, <2>3, OneSlot, ZenonT(60)
<1> QED BY <1>8, <1>11 DEF p

\* The inductive invariant after an event at a listed slot that ends in
\* kickQueue.
LEMMA KickStep ==
    ASSUME IInv, NEW i \in Listed, NEW w \in Threads, ThreadInv(w), w.role = "slot",
           thread[i].role \notin Quiet, thread' = [thread EXCEPT ![i] = w],
           NEW p, PoolState(p, thread', asked, Listed), main' = KickQueue(p),
           p.nextTaskId = main.nextTaskId, p.closed = main.closed,
           \A t \in Tasks : p.outcome[t] = "degraded" <=> main.outcome[t] = "degraded",
           UNCHANGED <<workers, init, shutdown, asked, respawned>>
    PROVE  IInv' /\ Honest(main, main')
<1>1. i \in Workers /\ workers \in Seq(Workers) /\ thread \in [Workers -> Threads]
      /\ respawned \in [Workers -> Nat]
  BY DEF IInv, TypeInv, Listed, Range
<1>2. thread' \in [Workers -> Threads] /\ thread'[i] = w
  BY <1>1
<1>3. PoolState(main', thread', asked, Listed) /\ Kicked(p, main')
  BY <1>1, <1>2, KickKeeps
<1>4. main'.nextTaskId = main.nextTaskId /\ main'.closed = main.closed
  BY <1>3 DEF Kicked, Served
<1>5. Attended(main', thread', Listed)
  BY <1>2, <1>3 DEF Attended, Kicked
<1>6. Honest(main, main')
  <2>1. \A t \in Tasks : main'.outcome[t] = "degraded" <=> p.outcome[t] = "degraded"
    BY <1>3 DEF Kicked, Served
  <2> QED BY <2>1 DEF Honest
<1>7. IInv'
  BY <1>1, <1>3, <1>4, <1>5, EventStep DEF Quiet
<1> QED BY <1>6, <1>7

\* A respawn that became ready after the pool closed.
LEMMA ReapedKeeps ==
    ASSUME IInv, NEW i \in Workers, thread[i].role \in {"respawn", "stray"}, main.closed,
           main' = IF thread[i].role = "respawn"
                   THEN [main EXCEPT !.slots[i].respawning = FALSE] ELSE main,
           NEW w \in Threads, ThreadInv(w), w.role = "reaped",
           thread' = [thread EXCEPT ![i] = w],
           UNCHANGED <<workers, init, shutdown, asked, respawned>>
    PROVE  IInv' /\ Honest(main, main')
<1> DEFINE c == [main.slots[i] EXCEPT !.respawning = FALSE]
           sl == [main.slots EXCEPT ![i] = c]
<1>1. Link(main, thread[i], asked, Listed, i) /\ PoolState(main, thread, asked, Listed)
      /\ Ledger(main, asked) /\ main \in MainStates /\ Listed \subseteq Workers
      /\ thread \in [Workers -> Threads] /\ respawned \in [Workers -> Nat]
  BY AtWorker
<1>2. CASE thread[i].role = "stray"
  BY <1>1, <1>2, OffEvent DEF Quiet
<1>3. CASE thread[i].role = "respawn"
  <2>1. main' = [main EXCEPT !.slots = sl]
    BY <1>1, <1>3 DEF MainStates
  <2>2. /\ sl \in [Workers -> SlotStates]
        /\ \A j \in Workers : /\ j # i => sl[j] = main.slots[j]
                              /\ sl[j].inflight = main.slots[j].inflight
                              /\ sl[j].exited = main.slots[j].exited
                              /\ sl[j].ready = main.slots[j].ready
    <3>1. main.slots \in [Workers -> SlotStates] /\ main.slots[i] \in SlotStates
      BY <1>1, MainFields
    <3>2. /\ c \in SlotStates /\ c.ready = main.slots[i].ready /\ c.exited = main.slots[i].exited
          /\ c.inflight = main.slots[i].inflight
      BY <3>1 DEF SlotStates
    <3> HIDE DEF c
    <3> QED BY <3>1, <3>2
  <2> HIDE DEF sl
  <2>3. /\ main' \in MainStates /\ main'.slots = sl /\ main'.kick = main.kick
        /\ main'.closed = main.closed
        /\ main'.nextTaskId = main.nextTaskId /\ main'.withdrawn = main.withdrawn
        /\ main'.queue = main.queue /\ main'.inbox = main.inbox
        /\ main'.cancelPool = main.cancelPool
        /\ main'.cancelSlot = main.cancelSlot /\ main'.outcome = main.outcome
    BY <1>1, <2>1, <2>2 DEF MainStates
  <2>4. \A j \in Workers : main'.slots[j].inflight = main.slots[j].inflight
    BY <2>2, <2>3
  <2>5. Ledger(main', asked) /\ Later(main, main')
    BY <1>1, <2>3, <2>4, LedgerCopy
  <2>6. Link(main', w, asked, Listed, i)
    <3>1. /\ main.slots[i].inflight = NoTask /\ main.inbox[i] = << >>
          /\ i \in Listed => main.slots[i].exited /\ ~main.slots[i].ready
      BY <1>1, <1>3, OffSlot
    <3>2. /\ main'.slots[i].inflight = NoTask /\ main'.inbox[i] = << >> /\ main'.closed
          /\ i \in Listed => main'.slots[i].exited /\ ~main'.slots[i].ready
      BY <2>2, <2>3, <3>1
    <3> QED BY <3>2, LinkIdle
  <2>7. PoolState(main', thread', asked, Listed)
    <3> DEFINE q == main'
    <3>1. q.closed = main.closed /\ (q.closed => q.queue = << >>)
      BY <1>1, <2>3 DEF PoolState
    <3>2. \A j \in Workers \ {i} : q.slots[j] = main.slots[j] /\ q.inbox[j] = main.inbox[j]
      BY <2>2, <2>3
    <3>3. Link(q, thread'[i], asked, Listed, i) /\ \A j \in Workers \ {i} : thread'[j] = thread[j]
      BY <1>1, <2>6
    <3>4. Ledger(q, asked) /\ Later(main, q)
      BY <2>5
    <3> HIDE DEF q
    <3>5. PoolState(q, thread', asked, Listed)
      BY <1>1, <3>1, <3>2, <3>3, <3>4, OneSlot
    <3> QED BY <3>5 DEF q
  <2>8. Attended(main', thread', Listed)
    BY <2>3 DEF Attended
  <2>9. Honest(main, main')
    BY <2>3, NoneGivenUp
  <2>10. IInv'
    BY <1>1, <1>3, <2>3, <2>7, <2>8, EventStep DEF Quiet
  <2> QED BY <2>9, <2>10
<1> QED BY <1>2, <1>3

\* 'ready' of a spawn that init() waits for.
LEMMA InitReadyKeeps ==
    ASSUME IInv, NEW i \in Workers, thread[i].role = "init",
           NEW w \in Threads, ThreadInv(w), w.role = "slot", w.run = NoTask, w.mail = << >>,
           thread' = [thread EXCEPT ![i] = w],
           main' = [main EXCEPT !.slots[i] = Adopted(i)], workers' = Append(workers, i),
           UNCHANGED <<init, shutdown, asked, respawned>>
    PROVE  IInv' /\ Honest(main, main')
<1>1. /\ workers \in Seq(Workers) /\ main \in MainStates /\ thread \in [Workers -> Threads]
      /\ Ledger(main, asked) /\ Listed \subseteq Workers
  BY AtWorker
<1>2. CallsInv /\ init \in {"running", "failing"} /\ main.nextTaskId = 1
  BY DEF IInv, CallsInv
<1>3. workers' \in Seq(Workers) /\ Listed' = Listed \cup {i}
  BY <1>1, Pushed DEF Listed
<1>4. PoolState(main', thread', asked, Listed') /\ SlotsOnly(main, main')
  <2> DEFINE L2 == Listed \cup {i}
  <2>1. i \in L2 /\ \A j \in Workers \ {i} : j \in L2 <=> j \in Listed
    OBVIOUS
  <2> HIDE DEF L2
  <2>2. PoolState(main', thread', asked, L2) /\ SlotsOnly(main, main')
    BY <2>1, AdoptedKeeps DEF Spawning
  <2> QED BY <1>3, <2>2 DEF L2
<1>5. main'.queue = << >> /\ main'.nextTaskId = 1
  <2>1. \A t \in Tasks : ~Waits(main, t)
    BY <1>1, <1>2 DEF Ledger, HeldInv, Waits, Tasks
  <2>2. main.queue \in Seq(Tasks) /\ Range(main.queue) = {}
    <3>1. main.queue \in Seq(Tasks)
      BY <1>1, MainFields
    <3>2. Range(main.queue) \subseteq Tasks
      BY <3>1 DEF Range
    <3> QED BY <1>1, <2>1, <3>1, <3>2 DEF Ledger, HeldInv
  <2>3. main.queue = << >>
    <3>1. main.queue # << >> => 1 \in DOMAIN main.queue
      BY <2>2
    <3> QED BY <2>2, <3>1 DEF Range
  <2> QED BY <1>2, <1>4, <2>3 DEF SlotsOnly
<1>6. /\ thread' \in [Workers -> Threads] /\ thread'[i] = w
      /\ \A j \in Workers : j # i => thread'[j] = thread[j]
  BY <1>1
<1>7. TypeInv'
  BY <1>3, <1>4, <1>6 DEF IInv, TypeInv, SlotsOnly
<1>8. \A j \in Workers : ThreadInv(thread'[j])
  BY <1>6 DEF IInv
<1>9. Attended(main', thread', Listed')
  BY <1>5 DEF Attended
<1>10. CallsInv'
  <2>1. \A j \in Workers : thread'[j].role = "init" => init' \in {"running", "failing"} /\ j \notin Listed'
    BY <1>2, <1>3, <1>6 DEF CallsInv
  <2>2. main'.closed = main.closed /\ shutdown' = "none" /\ init' = init
    BY <1>2, <1>4 DEF SlotsOnly, CallsInv, IInv, TypeInv
  <2> QED BY <1>2, <1>5, <2>1, <2>2 DEF CallsInv
<1>11. Honest(main, main')
  BY <1>4, NoneGivenUp DEF SlotsOnly
<1> QED BY <1>4, <1>7, <1>8, <1>9, <1>10, <1>11 DEF IInv

\* 'ready' of a spawn that somebody waits for, or of a stray respawn.
LEMMA OnReadyKeeps ==
    ASSUME IInv, NEW i \in Workers, OnReady(i)
    PROVE  IInv' /\ Honest(main, main')
<1> DEFINE v == Popped(i)
           s == [v EXCEPT !.role = "slot"]
           r == [v EXCEPT !.role = "reaped", !.ending = TRUE]
           u == [v EXCEPT !.role = "unlisted", !.ending = TRUE]
<1>1. Mail(i, "ready") /\ UNCHANGED <<init, shutdown, asked, respawned>>
  BY DEF OnReady
<1>2. /\ v \in Threads /\ v.mail = << >> /\ v.run = NoTask /\ v.st \in {"up", "closing", "gone"}
  BY <1>1, PoppedBoot
<1>3. Terminated([v EXCEPT !.role = "reaped"]) = r /\ Terminated([v EXCEPT !.role = "unlisted"]) = u
  BY <1>2 DEF Terminated, Threads
<1>4. \/ /\ thread[i].role = "init" /\ main' = [main EXCEPT !.slots[i] = Adopted(i)]
         /\ workers' = Append(workers, i) /\ thread' = [thread EXCEPT ![i] = s]
      \/ /\ thread[i].role \in {"respawn", "stray"} /\ i \in Listed /\ ~main.closed
         /\ main' = KickQueue([main EXCEPT !.slots[i] = Adopted(i)])
         /\ thread' = [thread EXCEPT ![i] = s] /\ workers' = workers
      \/ /\ thread[i].role \in {"respawn", "stray"} /\ main.closed
         /\ main' = IF thread[i].role = "respawn"
                    THEN [main EXCEPT !.slots[i].respawning = FALSE] ELSE main
         /\ thread' = [thread EXCEPT ![i] = r] /\ workers' = workers
      \/ /\ thread[i].role = "stray" /\ i \notin Listed /\ ~main.closed
         /\ thread' = [thread EXCEPT ![i] = u] /\ UNCHANGED <<main, workers>>
  BY <1>3 DEF OnReady
<1> HIDE DEF v
<1>5. /\ s \in Threads /\ s.mail = << >> /\ s.run = NoTask /\ s.role = "slot"
      /\ s.st \in {"up", "closing", "gone"}
  BY <1>2 DEF Threads, Roles
<1>6. /\ r \in Threads /\ r.mail = << >> /\ r.run = NoTask /\ r.role = "reaped" /\ r.ending
      /\ r.st \in {"up", "closing", "gone"}
  BY <1>2 DEF Threads, Roles
<1>7. /\ u \in Threads /\ u.mail = << >> /\ u.run = NoTask /\ u.role = "unlisted" /\ u.ending
      /\ u.st \in {"up", "closing", "gone"}
  BY <1>2 DEF Threads, Roles
<1> HIDE DEF s, r, u
<1>8. ThreadInv(s) /\ ThreadInv(r) /\ ThreadInv(u)
  BY <1>5, <1>6, <1>7 DEF ThreadInv, Ended
<1>9. CASE /\ thread[i].role = "init" /\ main' = [main EXCEPT !.slots[i] = Adopted(i)]
           /\ workers' = Append(workers, i) /\ thread' = [thread EXCEPT ![i] = s]
  BY <1>1, <1>5, <1>8, <1>9, InitReadyKeeps
<1>10. CASE /\ thread[i].role \in {"respawn", "stray"} /\ i \in Listed /\ ~main.closed
            /\ main' = KickQueue([main EXCEPT !.slots[i] = Adopted(i)])
            /\ thread' = [thread EXCEPT ![i] = s] /\ workers' = workers
  <2> DEFINE p == [main EXCEPT !.slots[i] = Adopted(i)]
  <2>1. PoolState(p, thread', asked, Listed) /\ SlotsOnly(main, p)
    BY <1>5, <1>10, AdoptedKeeps DEF Spawning
  <2>2. main' = KickQueue(p)
    BY <1>10
  <2> HIDE DEF p
  <2>3. /\ thread[i].role \notin Quiet /\ p.nextTaskId = main.nextTaskId /\ p.closed = main.closed
        /\ \A t \in Tasks : p.outcome[t] = "degraded" <=> main.outcome[t] = "degraded"
    BY <1>10, <2>1 DEF Quiet, SlotsOnly
  <2> QED BY <1>1, <1>5, <1>8, <1>10, <2>1, <2>2, <2>3, KickStep
<1>11. CASE /\ thread[i].role \in {"respawn", "stray"} /\ main.closed
            /\ main' = IF thread[i].role = "respawn"
                       THEN [main EXCEPT !.slots[i].respawning = FALSE] ELSE main
            /\ thread' = [thread EXCEPT ![i] = r] /\ workers' = workers
  BY <1>1, <1>6, <1>8, <1>11, ReapedKeeps
<1>12. CASE /\ thread[i].role = "stray" /\ i \notin Listed /\ ~main.closed
            /\ thread' = [thread EXCEPT ![i] = u] /\ UNCHANGED <<main, workers>>
  <2>1. respawned \in [Workers -> Nat]
    BY AtWorker
  <2> QED BY <1>1, <1>7, <1>8, <1>12, <2>1, OffEvent
<1> QED BY <1>4, <1>9, <1>10, <1>11, <1>12

WithSlot(p, i, c) == [p EXCEPT !.slots[i] = c]

\* q is p after the task of slot i was answered and the slot became c.
Freed(p, q, a, i, c) ==
    /\ Ledger(q, a) /\ Later(p, q)
    /\ q.closed = p.closed /\ q.kick = p.kick /\ q.nextTaskId = p.nextTaskId
    /\ q.queue = p.queue /\ q.inbox = p.inbox /\ q.slots[i] = c
    /\ \A j \in Workers \ {i} : q.slots[j] = p.slots[j]
    /\ \A t \in Tasks : q.outcome[t] = "degraded" <=> p.outcome[t] = "degraded"

\* Answering the task of one slot, whatever else becomes of the slot.
LEMMA SlotFreed ==
    ASSUME NEW p, NEW a, Ledger(p, a), NEW i \in Workers, NEW how,
           Justified(how, TaskOf(p, i), a), \A t \in Tasks : how[t] # "degraded",
           NEW r, Answered(p, r, TaskOf(p, i), how), Accounted(r, a),
           NEW c \in SlotStates, c.inflight = NoTask
    PROVE  Freed(p, WithSlot(r, i, c), a, i, c)
<1> DEFINE sl == [p.slots EXCEPT ![i] = c]
           q == WithSlot(r, i, c)
<1>1. p \in MainStates /\ p.slots \in [Workers -> SlotStates]
  BY MainFields DEF Ledger
<1>2. q = [r EXCEPT !.slots = sl]
  BY DEF Answered, WithSlot
<1> HIDE DEF q
<1>3. /\ sl \in [Workers -> SlotStates] /\ sl[i] = c
      /\ \A j \in Workers \ {i} : sl[j] = p.slots[j]
  BY <1>1
<1> HIDE DEF sl
<1>4. /\ q \in MainStates /\ q.slots = sl /\ q.kick = p.kick /\ q.closed = p.closed
      /\ q.nextTaskId = p.nextTaskId /\ q.withdrawn = p.withdrawn /\ q.queue = p.queue
      /\ q.inbox = p.inbox /\ q.cancelPool = r.cancelPool /\ q.cancelSlot = r.cancelSlot
      /\ q.outcome = r.outcome
  BY <1>2, <1>3 DEF Answered, MainStates
<1>5. Frees(p, q, r, i)
  BY <1>3, <1>4 DEF Frees
<1>6. Ledger(q, a) /\ Later(p, q)
  BY <1>5, FreeSlot
<1>7. ASSUME NEW t \in Tasks PROVE q.outcome[t] = "degraded" <=> p.outcome[t] = "degraded"
  <2>1. CASE t \in TaskOf(p, i)
    <3>1. Waits(p, t)
      BY <2>1 DEF TaskOf, Ledger, HeldInv
    <3> QED BY <1>4, <2>1, <3>1 DEF Answered, Waits
  <2>2. CASE t \notin TaskOf(p, i)
    BY <1>4, <2>2 DEF Answered
  <2> QED BY <2>1, <2>2
<1> QED BY <1>3, <1>4, <1>6, <1>7 DEF Freed, q

\* Answering the one task of a slot.
LEMMA SettledTask ==
    ASSUME NEW p, NEW a, Ledger(p, a), NEW i \in Workers, p.slots[i].inflight # NoTask,
           NEW how \in Answers, how # "degraded",
           how = "cancelled" => a[p.slots[i].inflight] # "no",
           NEW c \in SlotStates, c.inflight = NoTask
    PROVE  /\ Freed(p, WithSlot(Settle(p, p.slots[i].inflight, how), i, c), a, i, c)
           /\ Settle(p, p.slots[i].inflight, how) \in MainStates
<1> DEFINE t == p.slots[i].inflight
           r == Settle(p, t, how)
           hows == Each(how)
<1>1. p \in MainStates /\ Accounted(p, a) /\ t \in Tasks /\ Waits(p, t) /\ TaskOf(p, i) = {t}
  BY MainFields DEF Ledger, HeldInv, TaskOf
<1>2. hows \in [Tasks -> Answers] /\ \A x \in Tasks : hows[x] = how
  BY DEF Each
<1> HIDE DEF hows
<1>3. r = Settle(p, t, hows[t])
  BY <1>1, <1>2
<1> HIDE DEF r
<1>4. Answered(p, r, {t}, hows) /\ Accounted(r, a)
  BY <1>1, <1>2, <1>3, SettleOne
<1>5. Justified(hows, TaskOf(p, i), a)
  BY <1>1, <1>2 DEF Justified
<1>6. Answered(p, r, TaskOf(p, i), hows) /\ \A x \in Tasks : hows[x] # "degraded"
  BY <1>1, <1>2, <1>4
<1>7. Freed(p, WithSlot(r, i, c), a, i, c)
  BY <1>4, <1>5, <1>6, SlotFreed
<1>8. r \in MainStates
  BY <1>4 DEF Answered
<1> QED BY <1>7, <1>8 DEF r

\* The mail of a slot's thread without its head.
LEMMA PoppedSlot ==
    ASSUME IInv, NEW i \in Workers, Mail(i, "result")
    PROVE  LET w == Popped(i) IN
           /\ w \in Threads /\ ThreadInv(w) /\ w.run = thread[i].run /\ w.role = "slot"
           /\ w.ending = thread[i].ending /\ thread[i].role = "slot"
           /\ \A k \in DOMAIN w.mail : \E l \in DOMAIN thread[i].mail : thread[i].mail[l] = w.mail[k]
           /\ \E k \in DOMAIN thread[i].mail : thread[i].mail[k] = Head(thread[i].mail)
           /\ Head(thread[i].mail).kind = "result" /\ Head(thread[i].mail).task \in Tasks
           /\ Head(thread[i].mail).cancelled \in BOOLEAN
<1> DEFINE w == Popped(i)
           m == Tail(thread[i].mail)
           x == Head(thread[i].mail)
<1>1. thread[i] \in Threads /\ ThreadInv(thread[i]) /\ thread[i].mail \in Seq(Messages)
      /\ thread[i].mail # << >> /\ x.kind = "result"
  BY AtWorker, ThreadFields DEF Mail
<1>2. /\ m \in Seq(Messages) /\ x \in Messages
      /\ \A k \in DOMAIN m : k + 1 \in DOMAIN thread[i].mail /\ m[k] = thread[i].mail[k + 1] /\ k \in Nat \ {0}
  BY <1>1, HeadPopped
<1>3. 1 \in DOMAIN thread[i].mail /\ thread[i].mail[1] = x
  BY <1>1
<1>4. x.task \in Tasks /\ x.cancelled \in BOOLEAN
  BY <1>1, <1>2 DEF Messages, Ready, InitError, ResultOf
<1>5. thread[i].role = "slot"
  BY <1>1, <1>3 DEF ThreadInv
<1>6. w = [thread[i] EXCEPT !.mail = m]
  BY DEF Popped
<1> HIDE DEF m, w, x
<1>7. /\ w \in Threads /\ w.mail = m /\ w.run = thread[i].run /\ w.role = thread[i].role
      /\ w.ending = thread[i].ending /\ w.st = thread[i].st
  BY <1>1, <1>2, <1>6 DEF Threads
<1>8. ASSUME NEW k \in DOMAIN m
      PROVE  m[k].kind \notin {"ready", "init-error"}
  <2>1. k + 1 \in DOMAIN thread[i].mail /\ m[k] = thread[i].mail[k + 1] /\ k + 1 # 1
    BY <1>2
  <2> QED BY <1>1, <2>1 DEF ThreadInv
<1>9. thread[i].st # "booting" /\ thread[i].st # "none"
  BY <1>1, <1>5 DEF ThreadInv
<1>10. ThreadInv(w)
  BY <1>1, <1>5, <1>7, <1>8, <1>9 DEF ThreadInv
<1> QED BY <1>1, <1>2, <1>3, <1>4, <1>5, <1>7, <1>10 DEF w, x

\* A result comes in.
LEMMA OnResultKeeps ==
    ASSUME IInv, NEW i \in Workers, OnResult(i)
    PROVE  IInv' /\ Honest(main, main')
<1> DEFINE w == Popped(i)
           x == Head(thread[i].mail)
           how == IF x.cancelled THEN "cancelled" ELSE "result"
           c == [main.slots[i] EXCEPT !.inflight = NoTask]
           r == Settle(main, x.task, how)
           p == WithSlot(r, i, c)
<1>1. /\ Mail(i, "result") /\ thread' = [thread EXCEPT ![i] = w]
      /\ UNCHANGED <<workers, init, shutdown, asked, respawned>>
      /\ main' = IF thread[i].role = "slot" /\ main.slots[i].inflight = x.task
                 THEN KickQueue([r EXCEPT !.slots[i].inflight = NoTask]) ELSE main
  BY DEF OnResult, Expected
<1>2. /\ w \in Threads /\ ThreadInv(w) /\ w.run = thread[i].run /\ w.role = "slot"
      /\ w.ending = thread[i].ending /\ thread[i].role = "slot"
      /\ \A k \in DOMAIN w.mail : \E l \in DOMAIN thread[i].mail : thread[i].mail[l] = w.mail[k]
      /\ \E k \in DOMAIN thread[i].mail : thread[i].mail[k] = x
      /\ x.kind = "result" /\ x.task \in Tasks /\ x.cancelled \in BOOLEAN
  BY <1>1, PoppedSlot
<1> HIDE DEF w, x
<1>3. Link(main, thread[i], asked, Listed, i) /\ PoolState(main, thread, asked, Listed)
      /\ Ledger(main, asked) /\ main \in MainStates /\ Listed \subseteq Workers
      /\ thread \in [Workers -> Threads] /\ main.slots[i] \in SlotStates
  BY AtWorker
<1>4. CASE main.slots[i].inflight # x.task
  <2>1. main' = main
    BY <1>1, <1>4
  <2>2. Link(main', w, asked, Listed, i)
    BY <1>2, <1>3, <2>1, LinkThread
  <2> QED BY <1>1, <1>2, <1>3, <2>1, <2>2, SameInbox, ThreadStep
<1>5. CASE main.slots[i].inflight = x.task
  <2>1. /\ c \in SlotStates /\ c.inflight = NoTask /\ c.ready = main.slots[i].ready
        /\ c.exited = main.slots[i].exited /\ c.respawning = main.slots[i].respawning
        /\ c.crashCount = main.slots[i].crashCount
    BY <1>3 DEF SlotStates
  <2>2. how \in Answers /\ how # "degraded"
    BY DEF Answers
  <2>3. how = "cancelled" => asked[x.task] # "no"
    <3>1. Waits(main, x.task)
      BY <1>2, <1>3, <1>5 DEF Ledger, HeldInv
    <3> QED BY <1>2, <1>3, <3>1 DEF Link, HandedInv
  <2>4. main.slots[i].inflight # NoTask
    BY <1>2, <1>5, TaskIds
  <2>5. [r EXCEPT !.slots[i].inflight = NoTask] = p
    <3>1. r.slots = main.slots
      BY DEF Settle
    <3> HIDE DEF r
    <3> QED BY <3>1 DEF WithSlot
  <2> HIDE DEF how, c
  <2>6. Freed(main, p, asked, i, c)
    <3>1. Freed(main, WithSlot(Settle(main, main.slots[i].inflight, how), i, c), asked, i, c)
      BY <1>3, <1>5, <2>1, <2>2, <2>3, <2>4, SettledTask
    <3> QED BY <1>5, <3>1
  <2>7. main' = KickQueue(p)
    BY <1>1, <1>2, <1>5, <2>5
  <2> HIDE DEF p, r
  <2>8. Ledger(p, asked) /\ Later(main, p) /\ p \in MainStates
    BY <2>6 DEF Freed, Ledger
  <2>9. i \in Listed /\ main.slots[i].ready /\ ~main.closed /\ thread[i].run = NoTask /\ main.inbox[i] = << >>
    BY <1>2, <1>3, <1>5, <2>4 DEF Link, TimerInv
  <2>10. /\ p.inbox = main.inbox /\ p.closed = main.closed /\ p.slots[i] = c
         /\ p.queue = main.queue /\ p.nextTaskId = main.nextTaskId
         /\ \A j \in Workers \ {i} : p.slots[j] = main.slots[j]
         /\ \A t \in Tasks : p.outcome[t] = "degraded" <=> main.outcome[t] = "degraded"
    BY <2>6 DEF Freed
  <2>11. Link(p, thread[i], asked, Listed, i)
    <3>1. RoleInv(p, thread[i], Listed, i)
      BY <1>3, <2>1, <2>10 DEF Link, RoleInv
    <3>2. TimerInv(p, thread[i], Listed, i)
      BY <2>1, <2>9, <2>10 DEF TimerInv
    <3>3. HandedInv(p, thread[i], asked, i)
      <4>1. HandedInv(main, thread[i], asked, i) /\ thread[i] \in Threads
        BY <1>3 DEF Link
      <4> QED BY <1>3, <2>8, <2>10, <4>1, HandedInvKept
    <3>4. RespawnInv(p, thread[i], Listed, i)
      BY <1>3, <2>1, <2>10 DEF Link, RespawnInv
    <3> QED BY <3>1, <3>2, <3>3, <3>4 DEF Link
  <2>12. Link(p, w, asked, Listed, i)
    BY <1>2, <2>11, LinkThread
  <2>13. PoolState(p, thread', asked, Listed)
    <3>1. p.closed => p.queue = << >>
      BY <1>3, <2>10 DEF PoolState
    <3>2. Link(p, thread'[i], asked, Listed, i) /\ \A j \in Workers \ {i} : thread'[j] = thread[j]
      BY <1>1, <1>3, <2>12
    <3>3. p.closed = main.closed
      BY <2>10
    <3>4. \A j \in Workers \ {i} : p.slots[j] = main.slots[j] /\ p.inbox[j] = main.inbox[j]
      BY <2>10
    <3> QED BY <1>3, <2>8, <3>1, <3>2, <3>3, <3>4, OneSlot
  <2> QED BY <1>1, <1>2, <2>7, <2>9, <2>10, <2>13, KickStep DEF Quiet
<1> QED BY <1>4, <1>5

\* The timer of a task.
LEMMA TaskTimeoutKeeps ==
    ASSUME IInv, NEW i \in Workers, NEW t \in Tasks, TaskTimeout(i, t)
    PROVE  IInv' /\ Honest(main, main')
<1> DEFINE w == [thread[i] EXCEPT !.ending = TRUE]
           e == main.slots[i].respawning \/ main.slots[i].crashCount < RetryCap
           c == [main.slots[i] EXCEPT !.inflight = NoTask, !.ready = FALSE, !.respawning = e]
           r == Settle(main, main.slots[i].inflight, "timeout")
           p == WithSlot(r, i, c)
<1>1. /\ i \in Listed /\ main.slots[i].inflight = t /\ main' = TimedOut(main, i)
      /\ thread' = [thread EXCEPT ![i] = w]
      /\ UNCHANGED <<workers, init, shutdown, asked, respawned>>
  BY DEF TaskTimeout, Terminated
<1>2. Link(main, thread[i], asked, Listed, i) /\ PoolState(main, thread, asked, Listed)
      /\ Ledger(main, asked) /\ main \in MainStates /\ Listed \subseteq Workers
      /\ thread \in [Workers -> Threads] /\ main.slots[i] \in SlotStates
      /\ thread[i] \in Threads /\ ThreadInv(thread[i]) /\ respawned \in [Workers -> Nat]
      /\ Attended(main, thread, Listed)
  BY AtWorker DEF IInv
<1>3. main.slots[i].inflight # NoTask /\ RetryCap \in Nat
  BY <1>1, TaskIds, PoolAssumption
<1>4. /\ c \in SlotStates /\ c.inflight = NoTask /\ ~c.ready
      /\ c.exited = main.slots[i].exited /\ c.respawning = e
      /\ c.crashCount = main.slots[i].crashCount
  BY <1>2, <1>3 DEF SlotStates
<1>5. main' = p
  <2>1. r.slots = main.slots /\ r \in MainStates
    <3>1. "timeout" \in Answers
      BY DEF Answers
    <3>2. r \in MainStates
      <4> HIDE DEF c
      <4> QED BY <1>2, <1>3, <1>4, <3>1, SettledTask
    <3> QED BY <3>2 DEF Settle
  <2>2. TimedOut(main, i) = [r EXCEPT !.slots[i].inflight = NoTask, !.slots[i].ready = FALSE,
                                      !.slots[i].respawning = @ \/ main.slots[i].crashCount < RetryCap]
    BY DEF TimedOut
  <2> HIDE DEF r
  <2>3. main.slots \in [Workers -> SlotStates]
    BY <1>2, MainFields
  <2> DEFINE x == [main.slots[i] EXCEPT !.inflight = NoTask, !.ready = FALSE]
             xs == [main.slots EXCEPT ![i] = x]
             z == [r EXCEPT !.slots[i].inflight = NoTask, !.slots[i].ready = FALSE]
  <2>6. z = [r EXCEPT !.slots = xs]
    BY <1>2, <2>1, <2>3 DEF SlotStates
  <2>7. TimedOut(main, i) = [z EXCEPT !.slots[i].respawning = e]
    <3>1. TimedOut(main, i) = [r EXCEPT !.slots[i].inflight = NoTask, !.slots[i].ready = FALSE,
                                        !.slots[i].respawning = e]
      BY <2>1, <2>2
    <3> HIDE DEF e
    <3> QED BY <3>1
  <2> HIDE DEF z
  <2>8. /\ x \in SlotStates /\ x.respawning = main.slots[i].respawning
        /\ c = [x EXCEPT !.respawning = e]
    BY <1>2 DEF SlotStates
  <2> HIDE DEF x, c
  <2>9. xs \in [Workers -> SlotStates] /\ xs[i] = x /\ [xs EXCEPT ![i] = c] = [main.slots EXCEPT ![i] = c]
    BY <2>3, <2>8
  <2> HIDE DEF xs
  <2>10. z.slots = xs /\ z.slots[i].respawning = main.slots[i].respawning
    BY <2>1, <2>6, <2>8, <2>9 DEF MainStates
  <2> HIDE DEF e
  <2>12. [z EXCEPT !.slots[i].respawning = e] = [z EXCEPT !.slots = [xs EXCEPT ![i] = c]]
    BY <2>8, <2>9, <2>10
  <2>4. TimedOut(main, i) = [r EXCEPT !.slots = [main.slots EXCEPT ![i] = c]]
    BY <2>1, <2>6, <2>7, <2>9, <2>12 DEF MainStates
  <2>5. p = [r EXCEPT !.slots = [main.slots EXCEPT ![i] = c]]
    BY <2>1 DEF WithSlot
  <2> QED BY <1>1, <2>4, <2>5
<1>6. Freed(main, p, asked, i, c)
  <2> HIDE DEF c
  <2>1. "timeout" \in Answers
    BY DEF Answers
  <2> QED BY <1>2, <1>3, <1>4, <2>1, SettledTask
<1> HIDE DEF p, c, e
<1>7. Ledger(p, asked) /\ Later(main, p) /\ p \in MainStates
  BY <1>6 DEF Freed, Ledger
<1>8. /\ p.inbox = main.inbox /\ p.closed = main.closed /\ p.slots[i] = c /\ p.kick = main.kick
      /\ p.queue = main.queue /\ p.nextTaskId = main.nextTaskId
      /\ \A j \in Workers \ {i} : p.slots[j] = main.slots[j]
  BY <1>6 DEF Freed
<1>9. thread[i].role = "slot" /\ ~main.slots[i].exited /\ ~main.closed
  BY <1>1, <1>2, <1>3 DEF Link, TimerInv, RoleInv
<1>10. /\ w \in Threads /\ w.mail = thread[i].mail /\ w.st = thread[i].st /\ w.role = "slot"
       /\ w.run = thread[i].run /\ w.ending
  BY <1>2, <1>9 DEF Threads
<1> HIDE DEF w
<1>11. ThreadInv(w)
  BY <1>2, <1>9, <1>10 DEF ThreadInv, Ended
<1>12. Link(p, w, asked, Listed, i)
  <2>1. RoleInv(p, w, Listed, i)
    BY <1>1, <1>4, <1>8, <1>9, <1>10 DEF RoleInv
  <2>2. TimerInv(p, w, Listed, i)
    BY <1>4, <1>8 DEF TimerInv, IdleSlot
  <2>3. HandedInv(p, w, asked, i)
    <3>1. HandedInv(main, thread[i], asked, i)
      BY <1>2 DEF Link
    <3>2. p.inbox[i] = main.inbox[i]
      BY <1>8
    <3>3. HandedInv(p, thread[i], asked, i)
      BY <1>2, <1>7, <3>1, <3>2, HandedInvKept
    <3> QED BY <1>10, <3>3 DEF HandedInv
  <2>4. RespawnInv(p, w, Listed, i)
    <3>1. c.respawning => c.crashCount < RetryCap
      BY <1>1, <1>2, <1>4, <1>9 DEF Link, RespawnInv, e
    <3>2. c.respawning \/ c.crashCount >= RetryCap
      BY <1>2, <1>3, <1>4 DEF SlotStates, e
    <3> QED BY <1>8, <1>10, <3>1, <3>2 DEF RespawnInv
  <2> QED BY <2>1, <2>2, <2>3, <2>4 DEF Link
<1>13. PoolState(p, thread', asked, Listed)
  <2>1. p.closed => p.queue = << >>
    BY <1>2, <1>8 DEF PoolState
  <2>2. Link(p, thread'[i], asked, Listed, i) /\ \A j \in Workers \ {i} : thread'[j] = thread[j]
    BY <1>1, <1>2, <1>12
  <2>3. p.closed = main.closed
    BY <1>8
  <2>4. \A j \in Workers \ {i} : p.slots[j] = main.slots[j] /\ p.inbox[j] = main.inbox[j]
    BY <1>8
  <2> QED BY <1>2, <1>7, <2>1, <2>2, <2>3, <2>4, OneSlot
<1>14. Attended(p, thread', Listed)
  <2>1. \A j \in Listed : thread'[j].role = thread[j].role
    BY <1>1, <1>2, <1>9, <1>10
  <2>2. \A j \in Listed : IdleSlot(p, j) => IdleSlot(main, j)
    <3>1. ~IdleSlot(p, i)
      BY <1>4, <1>8 DEF IdleSlot
    <3>2. \A j \in Workers \ {i} : IdleSlot(p, j) => IdleSlot(main, j)
      BY <1>8 DEF IdleSlot
    <3> QED BY <1>2, <3>1, <3>2
  <2> QED BY <1>2, <1>8, <2>1, <2>2, AttendedKept
<1>15. thread[i].role \notin Quiet /\ w.role # "init"
  BY <1>9, <1>10 DEF Quiet
<1>16. IInv'
  <2>1. PoolState(main', thread', asked, Listed) /\ Attended(main', thread', Listed)
    BY <1>5, <1>13, <1>14
  <2>2. main'.nextTaskId = main.nextTaskId /\ main'.closed = main.closed
    BY <1>5, <1>8
  <2>3. respawned' \in [Workers -> Nat] /\ init' = init /\ UNCHANGED <<workers, shutdown, asked>>
    BY <1>1, <1>2
  <2>4. /\ w.role = "init" => thread[i].role = "init"
        /\ thread[i].role = "none" => w.role = "none"
        /\ main.closed /\ thread[i].role \in Quiet => w.role \in Quiet
    BY <1>15 DEF Quiet
  <2> QED BY <1>1, <1>10, <1>11, <2>1, <2>2, <2>3, <2>4, EventStep
<1>17. Honest(main, main')
  BY <1>5, <1>6, NoneGivenUp DEF Freed
<1> QED BY <1>16, <1>17

\* A listed slot whose thread has exited.
LEMMA ExitedKeeps ==
    ASSUME NEW p, NEW a, Ledger(p, a), NEW i \in Workers
    PROVE  LET c == [p.slots[i] EXCEPT !.inflight = NoTask, !.ready = FALSE, !.exited = TRUE] IN
           Freed(p, Exited(p, i), a, i, c) /\ c \in SlotStates
<1> DEFINE c == [p.slots[i] EXCEPT !.inflight = NoTask, !.ready = FALSE, !.exited = TRUE]
           hows == Each("crashed")
           r == SettleAll(p, InflightOf(p, i), hows)
           q == Exited(p, i)
<1>1. p \in MainStates /\ p.slots \in [Workers -> SlotStates] /\ p.slots[i] \in SlotStates
  BY MainFields DEF Ledger
<1>2. c \in SlotStates /\ c.inflight = NoTask
  BY <1>1 DEF SlotStates
<1>3. hows \in [Tasks -> Answers] /\ \A x \in Tasks : hows[x] = "crashed"
  BY DEF Each, Answers
<1>4. q = [r EXCEPT !.slots[i].inflight = NoTask, !.slots[i].ready = FALSE, !.slots[i].exited = TRUE]
  BY DEF Exited
<1> HIDE DEF hows, q
<1>5. Answered(p, r, TaskOf(p, i), hows) /\ Accounted(r, a)
  BY <1>3, SettleInflight
<1> HIDE DEF r
<1>6. r \in MainStates /\ r.slots = p.slots
  BY <1>5 DEF Answered
<1>7. q = WithSlot(r, i, c)
  <2>1. q = [r EXCEPT !.slots = [p.slots EXCEPT ![i] = c]]
    BY <1>1, <1>4, <1>6 DEF SlotStates
  <2>2. WithSlot(r, i, c) = [r EXCEPT !.slots = [p.slots EXCEPT ![i] = c]]
    BY <1>6 DEF WithSlot
  <2> QED BY <2>1, <2>2
<1>8. Justified(hows, TaskOf(p, i), a) /\ \A x \in Tasks : hows[x] # "degraded"
  <2>1. TaskOf(p, i) \subseteq Tasks
    BY <1>1, MainFields DEF TaskOf
  <2> QED BY <1>3, <2>1 DEF Justified
<1> HIDE DEF c
<1>9. Freed(p, WithSlot(r, i, c), a, i, c)
  BY <1>2, <1>5, <1>8, SlotFreed
<1> QED BY <1>2, <1>7, <1>9 DEF c, q

\* The exit event of a slot's thread that is respawned.
LEMMA ExitRespawns ==
    ASSUME IInv, NEW i \in Workers, thread[i].role = "slot",
           WillRespawn(Exited(main, i), Exited(main, i).slots[i].crashCount),
           LET p == Exited(main, i)
               n == p.slots[i].crashCount
           IN  /\ main' = [p EXCEPT !.slots[i].crashCount = n + 1,
                                    !.slots[i].respawning = TRUE,
                                    !.inbox[i] = << >>]
               /\ Respawn(i, "respawn", n + 1),
           UNCHANGED <<workers, init, shutdown, asked>>
    PROVE  IInv' /\ Honest(main, main')
<1> DEFINE p == Exited(main, i)
           n == p.slots[i].crashCount
           c == [main.slots[i] EXCEPT !.inflight = NoTask, !.ready = FALSE, !.exited = TRUE]
           d == [c EXCEPT !.crashCount = n + 1, !.respawning = TRUE]
           sl == [p.slots EXCEPT ![i] = d]
           ib == [main.inbox EXCEPT ![i] = << >>]
           w == Booting("respawn", n + 1)
           q == [p EXCEPT !.slots[i].crashCount = n + 1, !.slots[i].respawning = TRUE, !.inbox[i] = << >>]
<1>1. Link(main, thread[i], asked, Listed, i) /\ PoolState(main, thread, asked, Listed)
      /\ Ledger(main, asked) /\ main \in MainStates /\ Listed \subseteq Workers
      /\ thread \in [Workers -> Threads] /\ main.slots[i] \in SlotStates
      /\ Attended(main, thread, Listed) /\ i \in Listed
  BY AtWorker DEF IInv, Link, RoleInv
<1>2. Freed(main, p, asked, i, c) /\ c \in SlotStates
  BY <1>1, ExitedKeeps
<1>3. /\ c.inflight = NoTask /\ ~c.ready /\ c.exited
  BY <1>1 DEF SlotStates
<1>4. main' = q /\ thread' = [thread EXCEPT ![i] = w] /\ respawned' \in [Workers -> Nat]
  BY RespawnCounted
<1> HIDE DEF p, c
<1>5. /\ p \in MainStates /\ Ledger(p, asked) /\ Later(main, p) /\ p.slots[i] = c /\ n \in Nat
      /\ p.closed = main.closed /\ p.kick = main.kick /\ p.nextTaskId = main.nextTaskId
      /\ p.queue = main.queue /\ p.inbox = main.inbox
      /\ \A j \in Workers \ {i} : p.slots[j] = main.slots[j]
  BY <1>2 DEF Freed, Ledger, SlotStates
<1> HIDE DEF n
<1>6. /\ w \in Threads /\ ThreadInv(w) /\ w.role = "respawn"
  BY <1>5, BootingFacts DEF Spawning
<1>7. /\ d \in SlotStates /\ d.inflight = NoTask /\ ~d.ready /\ d.exited /\ d.respawning
  <2> DEFINE e == n + 1
  <2>1. e \in Nat
    BY <1>5
  <2> HIDE DEF e
  <2>2. c \in SlotStates
    BY <1>2
  <2>3. /\ d \in SlotStates /\ d.inflight = c.inflight /\ d.ready = c.ready /\ d.exited = c.exited
        /\ d.respawning
    BY <2>1, <2>2 DEF SlotStates, e
  <2> QED BY <1>3, <2>3
<1>8. q = [p EXCEPT !.slots = sl, !.inbox = ib]
  BY <1>5 DEF MainStates
<1> HIDE DEF w, d, q
<1>9. /\ sl \in [Workers -> SlotStates] /\ sl[i] = d /\ \A j \in Workers \ {i} : sl[j] = main.slots[j]
  <2>1. p.slots \in [Workers -> SlotStates]
    BY <1>5, MainFields
  <2> QED BY <1>5, <1>7, <2>1
<1>10. /\ ib \in [Workers -> Seq(Tasks \cup {NoTask})] /\ ib[i] = << >>
       /\ \A j \in Workers \ {i} : ib[j] = main.inbox[j]
  <2>1. main.inbox \in [Workers -> Seq(Tasks \cup {NoTask})] /\ << >> \in Seq(Tasks \cup {NoTask})
    BY <1>1, MainFields
  <2> QED BY <2>1
<1> HIDE DEF sl, ib
<1>11. /\ q \in MainStates /\ q.slots = sl /\ q.inbox = ib /\ q.closed = p.closed /\ q.kick = p.kick
       /\ q.nextTaskId = p.nextTaskId /\ q.queue = p.queue /\ q.withdrawn = p.withdrawn
       /\ q.cancelPool = p.cancelPool /\ q.cancelSlot = p.cancelSlot /\ q.outcome = p.outcome
  BY <1>5, <1>8, <1>9, <1>10 DEF MainStates
<1>12. \A j \in Workers : q.slots[j].inflight = p.slots[j].inflight
  BY <1>3, <1>5, <1>7, <1>9, <1>11
<1>13. Ledger(q, asked) /\ Later(p, q)
  BY <1>5, <1>11, <1>12, LedgerCopy
<1>14. Later(main, q)
  BY <1>5, <1>13, LaterTransitive
<1>15. Link(q, w, asked, Listed, i)
  <2>1. /\ q.slots[i].inflight = NoTask /\ q.inbox[i] = << >> /\ q.slots[i].exited
        /\ ~q.slots[i].ready /\ q.slots[i].respawning /\ w.role # "slot"
    BY <1>6, <1>7, <1>9, <1>10, <1>11
  <2> QED BY <1>6, <2>1, LinkIdle
<1>16. PoolState(q, thread', asked, Listed)
  <2>1. q.closed => q.queue = << >>
    BY <1>1, <1>5, <1>11 DEF PoolState
  <2>2. Link(q, thread'[i], asked, Listed, i) /\ \A j \in Workers \ {i} : thread'[j] = thread[j]
    BY <1>1, <1>4, <1>15
  <2>3. q.closed = main.closed
    BY <1>5, <1>11
  <2>4. \A j \in Workers \ {i} : q.slots[j] = main.slots[j] /\ q.inbox[j] = main.inbox[j]
    BY <1>9, <1>10, <1>11
  <2> QED BY <1>1, <1>13, <1>14, <2>1, <2>2, <2>3, <2>4, OneSlot
<1>17. Attended(q, thread', Listed)
  <2>1. \A j \in Listed : thread[j].role \in {"slot", "respawn"} => thread'[j].role \in {"slot", "respawn"}
    BY <1>1, <1>4, <1>6
  <2>2. \A j \in Listed : IdleSlot(q, j) => IdleSlot(main, j)
    <3>1. ~IdleSlot(q, i)
      BY <1>7, <1>9, <1>11 DEF IdleSlot
    <3>2. \A j \in Workers \ {i} : IdleSlot(q, j) => IdleSlot(main, j)
      BY <1>9, <1>11 DEF IdleSlot
    <3> QED BY <1>1, <3>1, <3>2
  <2>3. q.queue = main.queue /\ q.closed = main.closed /\ q.kick = main.kick
    BY <1>5, <1>11
  <2> QED BY <1>1, <2>1, <2>2, <2>3, AttendedKept
<1>18. ~main.closed
  BY <1>5 DEF WillRespawn, p
<1>19. IInv'
  <2>1. PoolState(main', thread', asked, Listed) /\ Attended(main', thread', Listed)
    BY <1>4, <1>16, <1>17
  <2>2. main'.nextTaskId = main.nextTaskId /\ main'.closed = main.closed
    BY <1>4, <1>5, <1>11
  <2>3. w.role # "init" /\ thread[i].role # "none"
    BY <1>6
  <2> QED BY <1>4, <1>6, <1>18, <2>1, <2>2, <2>3, EventStep
<1>20. Honest(main, main')
  BY <1>2, <1>4, <1>11, NoneGivenUp DEF Freed
<1> QED BY <1>19, <1>20

\* The exit event of a slot's thread that is not.
LEMMA ExitEnds ==
    ASSUME IInv, NEW i \in Workers, thread[i].role = "slot",
           ~WillRespawn(Exited(main, i), Exited(main, i).slots[i].crashCount),
           main' = [DrainIfDegraded(Exited(main, i)) EXCEPT !.inbox[i] = << >>],
           thread' = [thread EXCEPT ![i] = NoThread],
           UNCHANGED <<workers, init, shutdown, asked, respawned>>
    PROVE  IInv' /\ Honest(main, main')
<1> DEFINE p == Exited(main, i)
           z == DrainIfDegraded(p)
           c == [main.slots[i] EXCEPT !.inflight = NoTask, !.ready = FALSE, !.exited = TRUE]
           ib == [main.inbox EXCEPT ![i] = << >>]
           q == [z EXCEPT !.inbox[i] = << >>]
<1>1. Link(main, thread[i], asked, Listed, i) /\ PoolState(main, thread, asked, Listed)
      /\ Ledger(main, asked) /\ main \in MainStates /\ Listed \subseteq Workers
      /\ thread \in [Workers -> Threads] /\ main.slots[i] \in SlotStates
      /\ Attended(main, thread, Listed) /\ i \in Listed /\ respawned \in [Workers -> Nat]
  BY AtWorker DEF IInv, Link, RoleInv
<1>2. Freed(main, p, asked, i, c) /\ c \in SlotStates
  BY <1>1, ExitedKeeps
<1>3. /\ c.inflight = NoTask /\ ~c.ready /\ c.exited /\ c.respawning = main.slots[i].respawning
      /\ c.crashCount = main.slots[i].crashCount
  BY <1>1 DEF SlotStates
<1>4. ~p.closed => ~(p.slots[i].crashCount < RetryCap)
  BY DEF WillRespawn
<1>5. main' = q
  OBVIOUS
<1> HIDE DEF p, c
<1>6. /\ p \in MainStates /\ Ledger(p, asked) /\ Later(main, p) /\ p.slots[i] = c
      /\ p.closed = main.closed /\ p.kick = main.kick /\ p.nextTaskId = main.nextTaskId
      /\ p.queue = main.queue /\ p.inbox = main.inbox
      /\ \A j \in Workers \ {i} : p.slots[j] = main.slots[j]
  BY <1>2 DEF Freed, Ledger
<1>7. Ledger(z, asked) /\ Later(p, z) /\ Drained(p, z) /\ z \in MainStates
  BY <1>6, DrainKeeps DEF Ledger
<1> HIDE DEF z
<1>8. /\ z.slots = p.slots /\ z.inbox = main.inbox /\ z.closed = main.closed /\ z.kick = main.kick
      /\ z.nextTaskId = main.nextTaskId /\ z.queue \in {main.queue, << >>}
      /\ z.queue # << >> /\ ~z.closed => \E j \in Listed : Recoverable(z.slots[j])
  BY <1>6, <1>7 DEF Drained, QueueOnly
<1>9. q = [z EXCEPT !.inbox = ib]
  BY <1>8 DEF MainStates
<1> HIDE DEF q
<1>10. /\ ib \in [Workers -> Seq(Tasks \cup {NoTask})] /\ ib[i] = << >>
       /\ \A j \in Workers \ {i} : ib[j] = main.inbox[j]
  <2>1. main.inbox \in [Workers -> Seq(Tasks \cup {NoTask})] /\ << >> \in Seq(Tasks \cup {NoTask})
    BY <1>1, MainFields
  <2> QED BY <2>1
<1> HIDE DEF ib
<1>11. /\ q \in MainStates /\ q.slots = z.slots /\ q.inbox = ib /\ q.closed = z.closed /\ q.kick = z.kick
       /\ q.nextTaskId = z.nextTaskId /\ q.queue = z.queue /\ q.withdrawn = z.withdrawn
       /\ q.cancelPool = z.cancelPool /\ q.cancelSlot = z.cancelSlot /\ q.outcome = z.outcome
  BY <1>7, <1>9, <1>10 DEF MainStates
<1>12. Ledger(q, asked) /\ Later(z, q)
  BY <1>7, <1>11, LedgerCopy
<1>13. Later(main, q)
  <2>1. Later(main, z)
    BY <1>6, <1>7, LaterTransitive
  <2> QED BY <1>12, <2>1, LaterTransitive
<1>14. Link(q, NoThread, asked, Listed, i)
  <2>1. ~main.closed => ~main.slots[i].respawning
    BY <1>1, <1>3, <1>4, <1>6 DEF Link, RespawnInv
  <2>2. /\ q.slots[i].inflight = NoTask /\ q.inbox[i] = << >> /\ q.slots[i].exited
        /\ ~q.slots[i].ready /\ (~q.closed => ~q.slots[i].respawning)
    BY <1>3, <1>6, <1>8, <1>10, <1>11, <2>1
  <2> QED BY <2>2, LinkIdle, NoThreadFacts
<1>15. thread'[i] = NoThread /\ \A j \in Workers \ {i} : thread'[j] = thread[j]
  BY <1>1
<1>16. PoolState(q, thread', asked, Listed)
  <2>1. q.closed => q.queue = << >>
    BY <1>1, <1>8, <1>11 DEF PoolState
  <2>2. Link(q, thread'[i], asked, Listed, i)
    BY <1>14, <1>15
  <2>3. q.closed = main.closed
    BY <1>8, <1>11
  <2>4. \A j \in Workers \ {i} : q.slots[j] = main.slots[j] /\ q.inbox[j] = main.inbox[j]
    BY <1>6, <1>8, <1>10, <1>11
  <2> QED BY <1>1, <1>12, <1>13, <1>15, <2>1, <2>2, <2>3, <2>4, OneSlot
<1>17. Attended(q, thread', Listed)
  <2>1. \A j \in Listed : IdleSlot(q, j) => IdleSlot(main, j)
    <3>1. ~IdleSlot(q, i)
      BY <1>3, <1>6, <1>8, <1>11 DEF IdleSlot
    <3>2. \A j \in Workers \ {i} : IdleSlot(q, j) => IdleSlot(main, j)
      BY <1>6, <1>8, <1>11 DEF IdleSlot
    <3> QED BY <1>1, <3>1, <3>2
  <2>2. q.queue # << >> /\ ~q.closed => q.kick \/ \A j \in Listed : ~IdleSlot(q, j)
    BY <1>1, <1>8, <1>11, <2>1 DEF Attended
  <2>3. q.queue # << >> /\ ~q.closed => \E j \in Listed : Recoverable(q.slots[j])
    BY <1>8, <1>11
  <2> QED BY <1>1, <1>16, <2>2, <2>3, AttendedDrained
<1>18. IInv'
  <2>1. PoolState(main', thread', asked, Listed) /\ Attended(main', thread', Listed)
    BY <1>5, <1>16, <1>17
  <2>2. main'.nextTaskId = main.nextTaskId /\ main'.closed = main.closed
    BY <1>5, <1>8, <1>11
  <2>3. NoThread.role # "init" /\ thread[i].role # "none" /\ NoThread.role \in Quiet
    BY NoThreadFacts DEF Quiet
  <2> QED BY <1>1, <2>1, <2>2, <2>3, NoThreadFacts, EventStep
<1>19. Honest(main, main')
  <2>1. \A t \in Tasks : p.outcome[t] = "degraded" <=> main.outcome[t] = "degraded"
    BY <1>2 DEF Freed
  <2>2. Honest(p, z)
    BY <1>7 DEF Honest, Drained, QueueOnly
  <2>3. Honest(main, q)
    BY <1>11, <2>1, <2>2 DEF Honest
  <2> QED BY <1>5, <2>3
<1> QED BY <1>18, <1>19

\* The exit event of a slot's thread.
LEMMA OnSlotExitKeeps ==
    ASSUME IInv, NEW i \in Workers, OnSlotExit(i)
    PROVE  IInv' /\ Honest(main, main')
<1>1. thread[i].role = "slot" /\ UNCHANGED <<workers, init, shutdown, asked>>
  BY DEF OnSlotExit, ExitEvent
<1>2. CASE WillRespawn(Exited(main, i), Exited(main, i).slots[i].crashCount)
  BY <1>1, <1>2, ExitRespawns DEF OnSlotExit
<1>3. CASE ~WillRespawn(Exited(main, i), Exited(main, i).slots[i].crashCount)
  BY <1>1, <1>3, ExitEnds DEF OnSlotExit
<1> QED BY <1>2, <1>3

-----------------------------------------------------------------------------
(* Calls and the event loop.                                               *)

\* The inductive invariant after a step of the pool alone.
LEMMA MainStep ==
    ASSUME IInv, PoolState(main', thread, asked', Listed), Attended(main', thread, Listed),
           asked' \in [Tasks -> Asks], main'.closed = main.closed,
           init = "done" \/ main'.nextTaskId = main.nextTaskId,
           UNCHANGED <<workers, thread, init, shutdown, respawned>>
    PROVE  IInv'
<1>1. TypeInv'
  BY DEF IInv, TypeInv, PoolState, Ledger
<1>2. Listed' = Listed
  BY DEF Listed
<1>3. CallsInv'
  BY <1>2 DEF IInv, CallsInv
<1>4. \A i \in Workers : ThreadInv(thread'[i])
  BY DEF IInv
<1> QED BY <1>1, <1>2, <1>3, <1>4 DEF IInv

\* The microtask serves the queue.
LEMMA MicrotaskKeeps ==
    ASSUME IInv, Microtask
    PROVE  IInv' /\ Honest(main, main')
<1> DEFINE p == [main EXCEPT !.kick = FALSE]
<1>1. main' = KickQueue(p) /\ UNCHANGED <<workers, thread, init, shutdown, asked, respawned>>
  BY DEF Microtask
<1>2. /\ main \in MainStates /\ workers \in Seq(Workers) /\ thread \in [Workers -> Threads]
      /\ asked \in [Tasks -> Asks] /\ PoolState(main, thread, asked, Listed)
      /\ Ledger(main, asked) /\ Attended(main, thread, Listed)
  BY DEF IInv, TypeInv, PoolState
<1>3. /\ p \in MainStates /\ p.slots = main.slots /\ p.closed = main.closed
      /\ p.nextTaskId = main.nextTaskId /\ p.withdrawn = main.withdrawn /\ p.queue = main.queue
      /\ p.inbox = main.inbox /\ p.cancelPool = main.cancelPool /\ p.cancelSlot = main.cancelSlot
      /\ p.outcome = main.outcome
  BY <1>2 DEF MainStates
<1> HIDE DEF p
<1>4. Ledger(p, asked) /\ Later(main, p)
  BY <1>2, <1>3, LedgerCopy
<1>5. PoolState(p, thread, asked, Listed)
  <2>1. p.closed => p.queue = << >>
    BY <1>2, <1>3 DEF PoolState
  <2> QED BY <1>2, <1>3, <1>4, <2>1, PoolKept
<1>6. PoolState(main', thread, asked, Listed) /\ Kicked(p, main')
  BY <1>1, <1>2, <1>5, KickKeeps
<1>7. main'.closed = main.closed /\ main'.nextTaskId = main.nextTaskId
  BY <1>3, <1>6 DEF Kicked, Served
<1>8. Attended(main', thread, Listed)
  BY <1>2, <1>3, <1>6 DEF Kicked, Served, Attended
<1>9. PoolState(main', thread, asked', Listed) /\ asked' \in [Tasks -> Asks]
  BY <1>1, <1>2, <1>6
<1>10. Honest(main, main')
  BY <1>3, <1>6, NoneGivenUp DEF Kicked, Served
<1> QED BY <1>1, <1>7, <1>8, <1>9, <1>10, MainStep

\* lintBatch.
LEMMA LintBatchKeeps ==
    ASSUME IInv, NEW n \in 1 .. MaxTasks, NEW cancelled \in SUBSET Tasks, LintBatch(n, cancelled)
    PROVE  IInv' /\ Honest(main, main')
<1> DEFINE p == Batched(main, n, cancelled)
           q == KickQueue(p)
<1>1. /\ init = "done" /\ ~main.closed
      /\ main.nextTaskId .. (main.nextTaskId + n - 1) \subseteq Tasks
      /\ main' = IF \A i \in Listed : q.slots[i].exited THEN DrainIfDegraded(q) ELSE q
      /\ asked' = [t \in Tasks |-> IF t \in cancelled THEN "queued" ELSE asked[t]]
      /\ UNCHANGED <<workers, thread, init, shutdown, respawned>>
  BY DEF LintBatch, Batched
<1> HIDE DEF q
<1>2. /\ main \in MainStates /\ workers \in Seq(Workers) /\ thread \in [Workers -> Threads]
      /\ asked \in [Tasks -> Asks] /\ PoolState(main, thread, asked, Listed)
      /\ Listed \subseteq Workers /\ n \in Nat
  BY PoolAssumption DEF IInv, TypeInv, Listed, Range
<1>3. asked' \in [Tasks -> Asks]
  BY <1>1, <1>2 DEF Asks
<1>4. /\ \A t \in Tasks : asked[t] # "no" => asked'[t] # "no"
      /\ \A t \in cancelled : asked'[t] # "no"
  BY <1>1
<1>5. PoolState(main, thread, asked', Listed)
  BY <1>2, <1>4, AskedMore
<1>6. PoolState(p, thread, asked', Listed) /\ Grown(main, p)
  <2> DEFINE a == asked'
  <2>1. \A t \in cancelled : a[t] # "no"
    BY <1>4
  <2>2. PoolState(main, thread, a, Listed)
    BY <1>5
  <2> HIDE DEF a
  <2>3. /\ Listed \in SUBSET Workers /\ ~main.closed
        /\ main.nextTaskId .. (main.nextTaskId + n - 1) \subseteq Tasks
    BY <1>1, <1>2
  <2>4. PoolState(p, thread, a, Listed) /\ Grown(main, p)
    BY <1>2, <2>1, <2>2, <2>3, BatchKeeps
  <2> QED BY <2>4 DEF a
<1> HIDE DEF p
<1>7. PoolState(q, thread, asked', Listed) /\ Kicked(p, q)
  BY <1>2, <1>6, KickKeeps DEF q
<1>8. /\ q.closed = main.closed
      /\ \A t \in Tasks : q.outcome[t] = "degraded" <=> main.outcome[t] = "degraded"
  BY <1>6, <1>7 DEF Kicked, Served, Grown
<1>9. CASE \A i \in Listed : q.slots[i].exited
  <2>1. DrainsTo(q, main', thread, asked')
    BY <1>1, <1>2, <1>7, <1>9, DrainPool
  <2>2. PoolState(main', thread, asked', Listed) /\ main'.closed = main.closed
    BY <1>8, <2>1 DEF DrainsTo, Drained, QueueOnly
  <2>3. main'.queue # << >> /\ ~main'.closed => main'.kick \/ \A j \in Listed : ~IdleSlot(main', j)
    BY <1>7, <2>1 DEF DrainsTo, Drained, QueueOnly, Kicked, IdleSlot
  <2>4. main'.queue # << >> /\ ~main'.closed => \E j \in Listed : Recoverable(main'.slots[j])
    BY <2>1 DEF DrainsTo, Drained, QueueOnly
  <2>5. Attended(main', thread, Listed)
    BY <1>2, <2>2, <2>3, <2>4, AttendedDrained
  <2>6. Honest(main, main')
    BY <1>8, <2>1 DEF Honest, DrainsTo, Drained, QueueOnly
  <2> QED BY <1>1, <1>3, <2>2, <2>5, <2>6, MainStep
<1>10. CASE ~\A i \in Listed : q.slots[i].exited
  <2>1. main' = q
    BY <1>1, <1>10
  <2>2. PICK i \in Listed : ~q.slots[i].exited
    BY <1>10
  <2>3. thread[i].role = "slot"
    <3>1. Link(q, thread[i], asked', Listed, i)
      BY <1>2, <1>7 DEF PoolState
    <3> QED BY <2>2, <3>1 DEF Link, RoleInv
  <2>4. Attended(main', thread, Listed)
    BY <1>7, <2>1, <2>2, <2>3 DEF Attended, Kicked
  <2>5. PoolState(main', thread, asked', Listed) /\ main'.closed = main.closed
    BY <1>7, <1>8, <2>1
  <2>6. Honest(main, main')
    BY <1>8, <2>1, NoneGivenUp
  <2> QED BY <1>1, <1>3, <2>4, <2>5, <2>6, MainStep
<1> QED BY <1>9, <1>10

\* cancelTask.
LEMMA CancelTaskKeeps ==
    ASSUME IInv, NEW t \in Tasks, CancelTask(t)
    PROVE  IInv' /\ Honest(main, main')
<1> DEFINE s == main.cancelSlot[t]
           cp == Cancel(main.cancelPool, s)
           wd == main.withdrawn \cup {t}
<1>1. UNCHANGED <<workers, thread, init, shutdown, respawned>>
  BY DEF CancelTask
<1>2. /\ main \in MainStates /\ thread \in [Workers -> Threads] /\ asked \in [Tasks -> Asks]
      /\ PoolState(main, thread, asked, Listed) /\ Attended(main, thread, Listed)
      /\ Listed \subseteq Workers
  BY DEF IInv, TypeInv, Listed, Range
<1>3. /\ asked' \in [Tasks -> Asks] /\ asked'[t] # "no"
      /\ \A u \in Tasks : asked[u] # "no" => asked'[u] # "no"
  BY <1>2 DEF CancelTask, Asks
<1>4. PoolState(main, thread, asked', Listed)
  BY <1>2, <1>3, AskedMore
<1>5. Ledger(main, asked')
  BY <1>4 DEF PoolState
<1>6. CASE /\ \E i \in Listed : main.slots[i].inflight = t
           /\ main' = [main EXCEPT !.cancelPool = cp]
  <2>1. Waits(main, t)
    BY <1>2, <1>5, <1>6 DEF Ledger, HeldInv
  <2>2. Booked(main.cancelPool) /\ s \in Int /\ (s \in main.cancelPool.inUse \/ s = NoSlot)
    <3>1. s \in Int
      BY <1>2, MainFields
    <3> QED BY <1>5, <2>1, <3>1 DEF Ledger, Accounted
  <2>3. /\ Booked(cp) /\ cp.inUse = main.cancelPool.inUse
        /\ cp.flag = IF s = NoSlot THEN main.cancelPool.flag ELSE main.cancelPool.flag \cup {s}
    BY <2>2, CancelBooked
  <2> HIDE DEF cp
  <2>4. /\ main' \in MainStates /\ main'.slots = main.slots /\ main'.closed = main.closed
        /\ main'.nextTaskId = main.nextTaskId /\ main'.withdrawn = main.withdrawn
        /\ main'.queue = main.queue /\ main'.inbox = main.inbox /\ main'.cancelPool = cp
        /\ main'.cancelSlot = main.cancelSlot /\ main'.outcome = main.outcome
        /\ main'.kick = main.kick
    BY <1>2, <1>6, <2>3 DEF MainStates, Booked
  <2>5. Accounted(main', asked')
    <3>1. Accounted(main, asked')
      BY <1>5 DEF Ledger
    <3>2. \A u \in Tasks : Waits(main', u) <=> Waits(main, u)
      BY <2>4 DEF Waits
    <3>3. ASSUME NEW u \in Tasks, Waits(main, u), main.cancelSlot[u] \in cp.flag
          PROVE  asked'[u] # "no"
      <4>1. CASE main.cancelSlot[u] \in main.cancelPool.flag
        BY <3>1, <3>3, <4>1 DEF Accounted
      <4>2. CASE main.cancelSlot[u] \notin main.cancelPool.flag
        <5>1. main.cancelSlot[u] = s /\ s # NoSlot
          BY <2>3, <3>3, <4>2
        <5>2. u = t
          BY <2>1, <3>1, <3>3, <5>1 DEF Accounted
        <5> QED BY <1>3, <5>2
      <4> QED BY <4>1, <4>2
    <3> QED BY <2>3, <2>4, <3>1, <3>2, <3>3 DEF Accounted
  <2>6. HeldInv(main') /\ AskedInv(main', asked') /\ Later(main, main')
    <3>1. HeldInv(main) /\ AskedInv(main, asked')
      BY <1>5 DEF Ledger
    <3> QED BY <2>4, <3>1 DEF HeldInv, AskedInv, Later, Waits
  <2>7. Ledger(main', asked')
    BY <2>4, <2>5, <2>6 DEF Ledger
  <2>8. PoolState(main', thread, asked', Listed)
    <3> DEFINE q == main'
    <3>1. /\ Ledger(q, asked') /\ Later(main, q) /\ q.slots = main.slots /\ q.inbox = main.inbox
          /\ q.closed = main.closed /\ (q.closed => q.queue = << >>)
      BY <1>4, <2>4, <2>6, <2>7 DEF PoolState
    <3> HIDE DEF q
    <3>2. PoolState(q, thread, asked', Listed)
      BY <1>2, <1>4, <3>1, PoolKept
    <3> QED BY <3>2 DEF q
  <2>9. Attended(main', thread, Listed)
    BY <1>2, <2>4 DEF Attended, IdleSlot
  <2>10. Honest(main, main')
    BY <2>4, NoneGivenUp
  <2> QED BY <1>1, <1>3, <2>4, <2>8, <2>9, <2>10, MainStep
<1>7. CASE t \in Range(main.queue) /\ main' = [main EXCEPT !.withdrawn = wd]
  <2>1. wd \in SUBSET Tasks
    BY <1>2, MainFields
  <2>2. \A u \in wd : asked'[u] # "no"
    BY <1>3, <1>5 DEF Ledger, AskedInv
  <2> HIDE DEF wd
  <2>4. /\ main' \in MainStates /\ main'.slots = main.slots /\ main'.closed = main.closed
        /\ main'.nextTaskId = main.nextTaskId /\ main'.withdrawn = wd
        /\ main'.queue = main.queue /\ main'.inbox = main.inbox
        /\ main'.cancelPool = main.cancelPool /\ main'.kick = main.kick
        /\ main'.cancelSlot = main.cancelSlot /\ main'.outcome = main.outcome
    BY <1>2, <1>7, <2>1 DEF MainStates
  <2>5. Accounted(main', asked')
    BY <1>5, <2>4, AccountedCopy DEF Ledger
  <2>6. HeldInv(main') /\ AskedInv(main', asked') /\ Later(main, main')
    <3>1. HeldInv(main) /\ AskedInv(main, asked')
      BY <1>5 DEF Ledger
    <3> QED BY <2>2, <2>4, <3>1 DEF HeldInv, AskedInv, Later, Waits
  <2>7. Ledger(main', asked')
    BY <2>4, <2>5, <2>6 DEF Ledger
  <2>8. PoolState(main', thread, asked', Listed)
    <3> DEFINE q == main'
    <3>1. /\ Ledger(q, asked') /\ Later(main, q) /\ q.slots = main.slots /\ q.inbox = main.inbox
          /\ q.closed = main.closed /\ (q.closed => q.queue = << >>)
      BY <1>4, <2>4, <2>6, <2>7 DEF PoolState
    <3> HIDE DEF q
    <3>2. PoolState(q, thread, asked', Listed)
      BY <1>2, <1>4, <3>1, PoolKept
    <3> QED BY <3>2 DEF q
  <2>9. Attended(main', thread, Listed)
    BY <1>2, <2>4 DEF Attended, IdleSlot
  <2>10. Honest(main, main')
    BY <2>4, NoneGivenUp
  <2> QED BY <1>1, <1>3, <2>4, <2>8, <2>9, <2>10, MainStep
<1> QED BY <1>6, <1>7 DEF CancelTask

\* Before the first task nothing is queued.
LEMMA NothingYet ==
    ASSUME NEW p, NEW a, Ledger(p, a), p.nextTaskId = 1
    PROVE  p.queue = << >> /\ \A i \in Workers : p.slots[i].inflight = NoTask
<1>1. p \in MainStates
  BY DEF Ledger
<1>2. \A t \in Tasks : ~Waits(p, t)
  BY DEF Ledger, HeldInv, Waits, Tasks
<1>3. p.queue \in Seq(Tasks) /\ Range(p.queue) = {}
  <2>1. p.queue \in Seq(Tasks)
    BY <1>1, MainFields
  <2>2. Range(p.queue) \subseteq Tasks
    BY <2>1 DEF Range
  <2> QED BY <1>2, <2>1, <2>2 DEF Ledger, HeldInv
<1>4. p.queue = << >>
  <2>1. p.queue # << >> => 1 \in DOMAIN p.queue
    BY <1>3
  <2> QED BY <1>3, <2>1 DEF Range
<1>5. \A i \in Workers : p.slots[i].inflight \in Tasks \cup {NoTask}
  BY <1>1, MainFields
<1> QED BY <1>2, <1>4, <1>5 DEF Ledger, HeldInv

\* init() spawns its workers.
LEMMA InitCallKeeps ==
    ASSUME IInv, InitCall
    PROVE  IInv' /\ Honest(main, main')
<1> DEFINE w == Booting("init", 0)
<1>1. /\ init = "none" /\ init' = "running" /\ thread' = [i \in Workers |-> w]
      /\ UNCHANGED <<main, workers, shutdown, asked, respawned>>
  BY DEF InitCall
<1>2. w \in Threads /\ ThreadInv(w) /\ w.role = "init"
  BY BootingFacts DEF Spawning
<1> HIDE DEF w
<1>3. /\ PoolState(main, thread, asked, Listed) /\ CallsInv /\ TypeInv
      /\ \A i \in Workers : thread[i].role = "none"
      /\ workers = << >> /\ Attended(main, thread, Listed)
  BY <1>1 DEF IInv, CallsInv
<1>4. Listed = {} /\ Listed' = {}
  BY <1>1, <1>3 DEF Listed, Range
<1>5. \A i \in Workers : thread'[i] = w
  BY <1>1
<1>6. thread' \in [Workers -> Threads]
  BY <1>1, <1>2
<1>7. TypeInv'
  BY <1>1, <1>3, <1>6 DEF TypeInv
<1>8. PoolState(main, thread', asked, {})
  <2>1. ASSUME NEW i \in Workers PROVE Link(main, w, asked, {}, i)
    <3>1. Link(main, thread[i], asked, {}, i) /\ thread[i].role # "slot"
      BY <1>3, <1>4 DEF PoolState
    <3>2. main.slots[i].inflight = NoTask /\ main.inbox[i] = << >>
      BY <3>1, OffSlot
    <3> QED BY <1>2, <3>2, LinkIdle
  <2> QED BY <1>3, <1>5, <2>1 DEF PoolState
<1>9. Attended(main, thread', {})
  BY <1>3, <1>4 DEF Attended
<1>10. CallsInv'
  BY <1>1, <1>2, <1>3, <1>4, <1>5 DEF CallsInv
<1>11. PoolState(main', thread', asked', Listed') /\ Attended(main', thread', Listed')
  BY <1>1, <1>4, <1>8, <1>9
<1>12. \A i \in Workers : ThreadInv(thread'[i])
  BY <1>2, <1>5
<1> QED BY <1>1, <1>7, <1>10, <1>11, <1>12, NoneGivenUp DEF IInv

\* q is p after the pool closed: the slots wait for nothing, and a thread that
\* serves a slot may have been asked to stop.
Closing(p, q, w, i) ==
    /\ q.closed /\ q.slots[i].inflight = NoTask
    /\ q.slots[i].ready = p.slots[i].ready /\ q.slots[i].exited = p.slots[i].exited
    /\ q.slots[i].respawning = p.slots[i].respawning
    /\ q.slots[i].crashCount = p.slots[i].crashCount
    /\ q.inbox[i] = p.inbox[i] \/ (w.role = "slot" /\ q.inbox[i] = Append(p.inbox[i], NoTask))

\* Closing the pool keeps slots and threads linked.
LEMMA LinkClosed ==
    ASSUME NEW p \in MainStates, NEW q \in MainStates, NEW w \in Threads, NEW a, NEW L,
           NEW i \in Workers, Link(p, w, a, L, i), Later(p, q), Closing(p, q, w, i),
           NEW w2, w2.role = w.role, w.ending => w2.ending, w2.run = w.run, w2.mail = w.mail
    PROVE  Link(q, w2, a, L, i)
<1>1. RoleInv(q, w2, L, i)
  BY DEF Link, RoleInv, Closing
<1>2. TimerInv(q, w2, L, i)
  BY DEF TimerInv, Closing
<1>3. HandedInv(q, w2, a, i)
  <2> DEFINE q0 == [q EXCEPT !.inbox = p.inbox]
  <2>1. p.inbox \in [Workers -> Seq(Tasks \cup {NoTask})] /\ p.inbox[i] \in Seq(Tasks \cup {NoTask})
    BY MainFields
  <2>2. /\ q0 \in MainStates /\ q0.inbox = p.inbox /\ q0.outcome = q.outcome /\ q0.queue = q.queue
    BY <2>1 DEF MainStates
  <2> HIDE DEF q0
  <2>3. Later(p, q0) /\ q0.inbox[i] = p.inbox[i] /\ HandedInv(p, w, a, i)
    BY <2>2 DEF Later, Waits, Link
  <2>4. HandedInv(q0, w, a, i)
    BY <2>2, <2>3, HandedInvKept
  <2>5. \A t : (Handed(q, t) <=> Handed(q0, t)) /\ (Waits(q, t) <=> Waits(q0, t))
    BY <2>2 DEF Handed, Waits
  <2>6. ASSUME NEW k \in DOMAIN q.inbox[i] PROVE Handed(q, q.inbox[i][k])
    <3>1. \A j \in DOMAIN p.inbox[i] : Handed(q, p.inbox[i][j])
      BY <2>3, <2>4, <2>5 DEF HandedInv
    <3>2. CASE q.inbox[i] = p.inbox[i]
      BY <3>1, <3>2
    <3>3. CASE q.inbox[i] = Append(p.inbox[i], NoTask)
      <4>1. (k \in DOMAIN p.inbox[i] /\ q.inbox[i][k] = p.inbox[i][k]) \/ q.inbox[i][k] = NoTask
        BY <2>1, <3>3
      <4> QED BY <3>1, <4>1 DEF Handed
    <3> QED BY <3>2, <3>3 DEF Closing
  <2> QED BY <2>4, <2>5, <2>6 DEF HandedInv
<1>4. RespawnInv(q, w2, L, i)
  BY DEF Link, RespawnInv, Closing
<1> QED BY <1>1, <1>2, <1>3, <1>4 DEF Link

\* Every spawn of init() has settled.
LEMMA InitSettledKeeps ==
    ASSUME IInv, InitSettled
    PROVE  IInv' /\ Honest(main, main')
<1>1. /\ \A i \in Workers : thread[i].role # "init"
      /\ UNCHANGED <<workers, shutdown, asked, respawned>>
      /\ Listed' = Listed /\ shutdown = "none" /\ main.nextTaskId = 1 /\ CallsInv /\ TypeInv
  BY DEF InitSettled, Listed, IInv, CallsInv, TypeInv
<1>2. CASE init = "running"
  <2>1. init' = "done" /\ UNCHANGED <<main, thread>>
    BY <1>2 DEF InitSettled
  <2>2. CallsInv' /\ TypeInv'
    BY <1>1, <2>1 DEF CallsInv, TypeInv
  <2> QED BY <1>1, <2>1, <2>2, NoneGivenUp DEF IInv
<1>3. CASE init = "failing"
  <2>1. /\ init' = "terminating" /\ main' = [main EXCEPT !.closed = TRUE]
        /\ thread' = [i \in Workers |-> IF thread[i].role = "slot"
                                        THEN Terminated(thread[i]) ELSE thread[i]]
    BY <1>3 DEF InitSettled
  <2>2. /\ main \in MainStates /\ thread \in [Workers -> Threads] /\ PoolState(main, thread, asked, Listed)
        /\ Ledger(main, asked)
    BY <1>1 DEF TypeInv, IInv, PoolState
  <2>3. /\ main' \in MainStates /\ main'.slots = main.slots /\ main'.closed
        /\ main'.nextTaskId = main.nextTaskId /\ main'.withdrawn = main.withdrawn
        /\ main'.queue = main.queue /\ main'.inbox = main.inbox
        /\ main'.cancelPool = main.cancelPool /\ main'.kick = main.kick
        /\ main'.cancelSlot = main.cancelSlot /\ main'.outcome = main.outcome
    BY <2>1, <2>2 DEF MainStates
  <2>4. ASSUME NEW i \in Workers
        PROVE  /\ thread'[i] \in Threads /\ thread'[i].role = thread[i].role
               /\ thread'[i].st = thread[i].st /\ thread'[i].run = thread[i].run
               /\ thread'[i].mail = thread[i].mail /\ (thread[i].ending => thread'[i].ending)
    BY <2>1, <2>2 DEF Terminated, Threads
  <2>5. Ledger(main', asked) /\ Later(main, main')
    BY <2>2, <2>3, LedgerCopy
  <2>6. main.queue = << >> /\ \A i \in Workers : main.slots[i].inflight = NoTask
    BY <1>1, <2>2, NothingYet
  <2>7. ASSUME NEW i \in Workers PROVE Link(main', thread'[i], asked, Listed, i)
    <3>1. Closing(main, main', thread[i], i)
      BY <2>3, <2>6 DEF Closing
    <3>2. Link(main, thread[i], asked, Listed, i) /\ thread[i] \in Threads
      BY <2>2 DEF PoolState
    <3> QED BY <2>2, <2>3, <2>4, <2>5, <3>1, <3>2, LinkClosed
  <2>8. PoolState(main', thread', asked, Listed)
    BY <2>3, <2>5, <2>6, <2>7 DEF PoolState
  <2>9. TypeInv'
    <3>1. thread' \in [Workers -> Threads]
      BY <2>1, <2>4
    <3> QED BY <1>1, <2>1, <2>3, <3>1 DEF TypeInv
  <2>10. CallsInv'
    BY <1>1, <2>1, <2>3, <2>4 DEF CallsInv
  <2>11. \A i \in Workers : ThreadInv(thread'[i])
    <3>1. \A i \in Workers : ThreadInv(thread[i])
      BY DEF IInv
    <3> QED BY <2>4, <3>1 DEF ThreadInv, Ended
  <2>12. Attended(main', thread', Listed)
    BY <2>3 DEF Attended
  <2>13. Honest(main, main')
    BY <2>3, NoneGivenUp
  <2> QED BY <1>1, <2>8, <2>9, <2>10, <2>11, <2>12, <2>13 DEF IInv
<1> QED BY <1>2, <1>3 DEF InitSettled

\* The list is emptied when every thread that was awaited is gone.
LEMMA ListEmptied ==
    ASSUME IInv, main.closed, AllReaped, \A i \in Workers : thread[i].role # "init",
           workers' = << >>, UNCHANGED <<main, thread, asked, respawned>>
    PROVE  /\ PoolState(main', thread', asked', Listed') /\ Attended(main', thread', Listed')
           /\ \A i \in Workers : thread'[i].role \in Quiet /\ ThreadInv(thread'[i])
           /\ Listed' = {}
<1>1. Listed' = {}
  BY DEF Listed, Range
<1>2. /\ main \in MainStates /\ thread \in [Workers -> Threads] /\ PoolState(main, thread, asked, Listed)
      /\ \A i \in Workers : ThreadInv(thread[i])
  BY DEF IInv, TypeInv
<1>3. ASSUME NEW i \in Workers PROVE thread[i].role \in Quiet /\ Link(main, thread[i], asked, {}, i)
  <2>1. Link(main, thread[i], asked, Listed, i) /\ thread[i] \in Threads /\ thread[i].role \in Roles
    BY <1>2, ThreadFields DEF PoolState
  <2>2. thread[i].role # "slot"
    BY <2>1 DEF AllReaped, Link, RoleInv
  <2>3. thread[i].role \notin {"respawn", "stray", "reaped"}
    BY DEF AllReaped, AwaitedThreads
  <2>4. thread[i].role \in Quiet
    BY <2>1, <2>2, <2>3 DEF Roles, Quiet
  <2>5. main.slots[i].inflight = NoTask /\ main.inbox[i] = << >>
    BY <2>1, <2>2, OffSlot
  <2>6. Link(main, thread[i], asked, {}, i)
    BY <1>2, <2>1, <2>2, <2>5, LinkIdle
  <2> QED BY <2>4, <2>6
<1>4. PoolState(main, thread, asked, {})
  BY <1>2, <1>3 DEF PoolState
<1>5. Attended(main, thread, {})
  BY DEF Attended
<1> QED BY <1>1, <1>2, <1>3, <1>4, <1>5

\* init() throws.
LEMMA InitThrowsKeeps ==
    ASSUME IInv, InitThrows
    PROVE  IInv' /\ Honest(main, main')
<1>1. /\ init = "terminating" /\ AllReaped /\ init' = "failed" /\ workers' = << >>
      /\ UNCHANGED <<main, thread, shutdown, asked, respawned>>
  BY DEF InitThrows
<1>2. CallsInv /\ TypeInv
  BY DEF IInv
<1>3. main.closed /\ (\A i \in Workers : thread[i].role # "init") /\ shutdown = "none"
  BY <1>1, <1>2 DEF CallsInv, TypeInv
<1>4. /\ PoolState(main', thread', asked', Listed') /\ Attended(main', thread', Listed')
      /\ \A i \in Workers : thread'[i].role \in Quiet /\ ThreadInv(thread'[i])
  BY <1>1, <1>3, ListEmptied
<1>5. << >> \in Seq(Workers)
  OBVIOUS
<1>6. TypeInv'
  BY <1>1, <1>2, <1>5 DEF TypeInv
<1>7. CallsInv'
  BY <1>1, <1>2, <1>3, <1>4 DEF CallsInv, Quiet
<1> QED BY <1>1, <1>4, <1>6, <1>7, NoneGivenUp DEF IInv

\* shutdown() returns.
LEMMA ShutdownReturnsKeeps ==
    ASSUME IInv, ShutdownReturns
    PROVE  IInv' /\ Honest(main, main')
<1>1. /\ shutdown = "waiting" /\ AllReaped /\ shutdown' = "returned" /\ workers' = << >>
      /\ UNCHANGED <<main, thread, init, asked, respawned>>
  BY DEF ShutdownReturns
<1>2. CallsInv /\ TypeInv
  BY DEF IInv
<1>3. main.closed /\ (\A i \in Workers : thread[i].role # "init") /\ init = "done"
  BY <1>1, <1>2 DEF CallsInv, TypeInv
<1>4. /\ PoolState(main', thread', asked', Listed') /\ Attended(main', thread', Listed')
      /\ \A i \in Workers : thread'[i].role \in Quiet /\ ThreadInv(thread'[i])
  BY <1>1, <1>3, ListEmptied
<1>5. << >> \in Seq(Workers)
  OBVIOUS
<1>6. TypeInv'
  BY <1>1, <1>2, <1>5 DEF TypeInv
<1>7. CallsInv'
  BY <1>1, <1>2, <1>3, <1>4 DEF CallsInv, Quiet
<1> QED BY <1>1, <1>4, <1>6, <1>7, NoneGivenUp DEF IInv

\* The queue is emptied by shutdown.
LEMMA ShutDownQueueKeeps ==
    ASSUME NEW p, NEW a, Ledger(p, a)
    PROVE  LET q == ShutDownQueue(p) IN
           /\ Ledger(q, a) /\ Later(p, q) /\ QueueOnly(p, q, << >>)
           /\ \A t \in Tasks : q.outcome[t] = "degraded" => p.outcome[t] = "degraded"
<1> DEFINE hows == [t \in Tasks |-> IF t \in p.withdrawn THEN "cancelled" ELSE "shutdown"]
           q == ShutDownQueue(p)
           z == WithQueue(SettleAll(p, p.queue, hows), << >>)
<1>1. p \in MainStates /\ p.queue \in Seq(Tasks) /\ Distinct(p.queue)
  BY MainFields DEF Ledger, HeldInv
<1>2. q = z
  BY DEF ShutDownQueue, WithQueue
<1>3. Justified(hows, Range(p.queue), a)
  <2>1. hows \in [Tasks -> Answers]
    BY DEF Answers
  <2>2. Range(p.queue) \subseteq Tasks
    BY <1>1 DEF Range
  <2>3. \A t \in Tasks : hows[t] = "cancelled" => a[t] # "no"
    BY DEF Ledger, AskedInv
  <2> QED BY <2>1, <2>2, <2>3 DEF Justified
<1>6. \A t \in Tasks : hows[t] # "degraded"
  OBVIOUS
<1> HIDE DEF hows
<1>4. Splits(p.queue, p.queue, << >>)
  <2>1. << >> \in Seq(Tasks) /\ Range(<< >>) = {} /\ Distinct(<< >>)
    BY DEF Range, Distinct
  <2> QED BY <1>1, <2>1 DEF Splits
<1>5. Ledger(z, a) /\ Later(p, z) /\ QueueOnly(p, z, << >>)
  BY <1>1, <1>3, <1>4, CutQueue
<1>7. \A t \in Tasks : z.outcome[t] = IF t \in Range(p.queue) THEN hows[t] ELSE p.outcome[t]
  BY <1>1, <1>3, <1>4, CutQueue
<1>8. \A t \in Tasks : z.outcome[t] = "degraded" => p.outcome[t] = "degraded"
  <2> HIDE DEF z
  <2> QED BY <1>6, <1>7
<1> QED BY <1>2, <1>5, <1>8

\* shutdown() settles everything and asks the workers to stop.
LEMMA ShutdownKeeps ==
    ASSUME IInv, Shutdown
    PROVE  IInv' /\ Honest(main, main')
<1> DEFINE p1 == [main EXCEPT !.closed = TRUE]
           p2 == ShutDownSlots(p1)
           p3 == ShutDownQueue(p2)
           ib == [i \in Workers |-> IF i \in Listed /\ thread[i].role = "slot"
                                    THEN Append(main.inbox[i], StopMessage) ELSE main.inbox[i]]
<1>1. /\ init = "done" /\ shutdown' = "waiting"
      /\ main' = [p3 EXCEPT !.inbox =
                    [i \in Workers |-> IF i \in Listed /\ thread[i].role = "slot"
                                       THEN Append(p3.inbox[i], StopMessage) ELSE p3.inbox[i]]]
      /\ UNCHANGED <<workers, thread, init, asked, respawned>>
  BY DEF Shutdown
<1>2. /\ main \in MainStates /\ thread \in [Workers -> Threads] /\ workers \in Seq(Workers)
      /\ PoolState(main, thread, asked, Listed) /\ Ledger(main, asked) /\ TypeInv /\ CallsInv
  BY DEF TypeInv, IInv, PoolState
<1>3. /\ p1 \in MainStates /\ p1.slots = main.slots /\ p1.closed
      /\ p1.nextTaskId = main.nextTaskId /\ p1.withdrawn = main.withdrawn
      /\ p1.queue = main.queue /\ p1.inbox = main.inbox
      /\ p1.cancelPool = main.cancelPool /\ p1.kick = main.kick
      /\ p1.cancelSlot = main.cancelSlot /\ p1.outcome = main.outcome
  BY <1>2 DEF MainStates
<1> HIDE DEF p1
<1>4. Ledger(p1, asked) /\ Later(main, p1)
  BY <1>2, <1>3, LedgerCopy
<1>5. Ledger(p2, asked) /\ Later(p1, p2) /\ Stopped(p1, p2, Listed)
  BY <1>2, <1>4, StopAllKeeps
<1> HIDE DEF p2
<1>6. /\ Ledger(p3, asked) /\ Later(p2, p3) /\ QueueOnly(p2, p3, << >>)
      /\ \A t \in Tasks : p3.outcome[t] = "degraded" => p2.outcome[t] = "degraded"
  BY <1>5, ShutDownQueueKeeps
<1> HIDE DEF p3
<1>7. p3.inbox = main.inbox /\ p3 \in MainStates /\ p3.queue = << >> /\ p3.closed /\ p3.slots = p2.slots
  BY <1>3, <1>5, <1>6 DEF Stopped, QueueOnly
<1>8. main' = [p3 EXCEPT !.inbox = ib]
  BY <1>1, <1>7
<1>9. /\ ib \in [Workers -> Seq(Tasks \cup {NoTask})]
      /\ \A i \in Workers : ib[i] = main.inbox[i] \/ (thread[i].role = "slot" /\ ib[i] = Append(main.inbox[i], NoTask))
  <2>1. main.inbox \in [Workers -> Seq(Tasks \cup {NoTask})]
    BY <1>2, MainFields
  <2>2. ASSUME NEW i \in Workers
        PROVE  /\ ib[i] \in Seq(Tasks \cup {NoTask})
               /\ ib[i] = main.inbox[i] \/ (thread[i].role = "slot" /\ ib[i] = Append(main.inbox[i], NoTask))
    <3>1. main.inbox[i] \in Seq(Tasks \cup {NoTask})
      BY <2>1
    <3>2. Append(main.inbox[i], NoTask) \in Seq(Tasks \cup {NoTask})
      BY <3>1
    <3> QED BY <3>1, <3>2 DEF StopMessage
  <2> QED BY <2>2
<1> HIDE DEF ib
<1>10. /\ main' \in MainStates /\ main'.inbox = ib /\ main'.closed = p3.closed /\ main'.slots = p3.slots
       /\ main'.nextTaskId = p3.nextTaskId /\ main'.queue = p3.queue /\ main'.withdrawn = p3.withdrawn
       /\ main'.cancelPool = p3.cancelPool /\ main'.cancelSlot = p3.cancelSlot
       /\ main'.outcome = p3.outcome
  BY <1>7, <1>8, <1>9 DEF MainStates
<1>11. Ledger(main', asked) /\ Later(p3, main')
  BY <1>6, <1>10, LedgerCopy
<1>12. Later(main, main')
  <2>1. Later(main, p2)
    BY <1>4, <1>5, LaterTransitive
  <2>2. Later(main, p3)
    BY <1>6, <2>1, LaterTransitive
  <2> QED BY <1>11, <2>2, LaterTransitive
<1>13. ASSUME NEW i \in Workers PROVE Link(main', thread[i], asked, Listed, i)
  <2>1. Link(main, thread[i], asked, Listed, i) /\ thread[i] \in Threads
    BY <1>2 DEF PoolState
  <2>2. /\ main'.slots[i].inflight = IF i \in Listed THEN NoTask ELSE main.slots[i].inflight
        /\ main'.slots[i].ready = main.slots[i].ready /\ main'.slots[i].exited = main.slots[i].exited
        /\ main'.slots[i].respawning = main.slots[i].respawning
        /\ main'.slots[i].crashCount = main.slots[i].crashCount
    BY <1>3, <1>5, <1>7, <1>10 DEF Stopped
  <2>3. main'.slots[i].inflight = NoTask
    BY <2>1, <2>2 DEF Link, TimerInv
  <2>4. Closing(main, main', thread[i], i)
    BY <1>7, <1>9, <1>10, <2>2, <2>3 DEF Closing
  <2> QED BY <1>2, <1>10, <1>12, <2>1, <2>4, LinkClosed
<1>14. PoolState(main', thread, asked, Listed)
  BY <1>7, <1>10, <1>11, <1>13 DEF PoolState
<1>15. Attended(main', thread, Listed)
  BY <1>7, <1>10 DEF Attended
<1>16. Listed' = Listed
  BY <1>1 DEF Listed
<1>17. TypeInv'
  BY <1>1, <1>2, <1>10 DEF TypeInv
<1>18. CallsInv'
  BY <1>1, <1>2, <1>7, <1>10, <1>16 DEF CallsInv
<1>19. \A i \in Workers : ThreadInv(thread'[i])
  BY <1>1 DEF IInv
<1>20. Honest(main, main')
  BY <1>3, <1>5, <1>6, <1>10 DEF Honest, Stopped
<1> QED BY <1>1, <1>14, <1>15, <1>16, <1>17, <1>18, <1>19, <1>20 DEF IInv

-----------------------------------------------------------------------------
(* The theorems.                                                           *)

\* The pool starts in a state of the invariant.
LEMMA InitHolds ==
    ASSUME Init
    PROVE  IInv
<1>1. /\ main = NewMain /\ workers = << >> /\ thread = [i \in Workers |-> NoThread]
      /\ init = "none" /\ shutdown = "none" /\ asked = [t \in Tasks |-> "no"]
      /\ respawned = [i \in Workers |-> 0]
  BY DEF Init
<1> DEFINE f == FreshSlot(FALSE)
           sl == [i \in Workers |-> f]
<1>2. f \in SlotStates /\ f.inflight = NoTask
  BY DEF FreshSlot, SlotStates
<1> HIDE DEF f
<1>3. sl \in [Workers -> SlotStates] /\ \A i \in Workers : sl[i].inflight = NoTask
  BY <1>2
<1>4. /\ main.closed = FALSE /\ main.kick = FALSE /\ main.nextTaskId = 1 /\ main.queue = << >>
      /\ main.withdrawn = {} /\ main.slots = sl /\ main.inbox = [i \in Workers |-> << >>]
      /\ main.cancelPool = NewPool /\ main.cancelSlot = [t \in Tasks |-> NoSlot]
      /\ main.outcome = [t \in Tasks |-> "none"]
  BY <1>1 DEF NewMain, f
<1>5. Booked(NewPool) /\ NewPool.inUse = {} /\ NewPool \in CancelPools /\ NewPool.flag = {}
  BY NewPoolBooked DEF Booked
<1>6. main \in MainStates
  <2>1. NoSlot \in Int /\ "none" \in Outcomes
    BY DEF NoSlot, Outcomes
  <2>2. [i \in Workers |-> << >>] \in [Workers -> Seq(Tasks \cup {NoTask})]
    OBVIOUS
  <2>3. [t \in Tasks |-> NoSlot] \in [Tasks -> Int] /\ [t \in Tasks |-> "none"] \in [Tasks -> Outcomes]
    BY <2>1
  <2>4. NewMain = [closed |-> FALSE, kick |-> FALSE, nextTaskId |-> 1,
                   queue |-> << >>, withdrawn |-> {}, slots |-> sl,
                   inbox |-> [i \in Workers |-> << >>], cancelPool |-> NewPool,
                   cancelSlot |-> [t \in Tasks |-> NoSlot], outcome |-> [t \in Tasks |-> "none"]]
    BY DEF NewMain, f
  <2> HIDE DEF sl
  <2> QED BY <1>1, <1>3, <1>5, <2>2, <2>3, <2>4 DEF MainStates
<1> HIDE DEF sl
<1>7. Listed = {} /\ Range(<< >>) = {}
  BY <1>1 DEF Listed, Range
<1>8. TypeInv
  <2>1. [i \in Workers |-> NoThread] \in [Workers -> Threads] /\ << >> \in Seq(Workers)
    BY NoThreadFacts
  <2>2. asked \in [Tasks -> Asks] /\ respawned \in [Workers -> Nat]
    BY <1>1 DEF Asks
  <2> QED BY <1>1, <1>6, <2>1, <2>2 DEF TypeInv
<1>9. \A t \in Tasks : main.outcome[t] = "none" /\ ~Waits(main, t) /\ t # NoTask
  BY <1>4, TaskIds DEF Waits
<1>10. Ledger(main, asked)
  <2>1. Accounted(main, asked)
    BY <1>4, <1>5, <1>9 DEF Accounted
  <2>2. HeldInv(main)
    <3>1. Distinct(main.queue) /\ Range(main.queue) = {}
      BY <1>4, <1>7 DEF Distinct
    <3>2. \A t \in Tasks : t >= main.nextTaskId
      BY <1>4 DEF Tasks
    <3> QED BY <1>3, <1>4, <1>9, <3>1, <3>2 DEF HeldInv
  <2>3. AskedInv(main, asked)
    BY <1>4, <1>9 DEF AskedInv
  <2> QED BY <1>6, <2>1, <2>2, <2>3 DEF Ledger
<1>11. \A i \in Workers : thread[i] = NoThread
  BY <1>1
<1>12. ASSUME NEW i \in Workers PROVE Link(main, thread[i], asked, Listed, i)
  <2>1. main.slots[i].inflight = NoTask /\ main.inbox[i] = << >>
    BY <1>3, <1>4
  <2> QED BY <1>7, <1>11, <2>1, LinkIdle, NoThreadFacts
<1>13. PoolState(main, thread, asked, Listed)
  BY <1>4, <1>10, <1>12 DEF PoolState
<1>14. Attended(main, thread, Listed)
  BY <1>4 DEF Attended
<1>15. \A i \in Workers : ThreadInv(thread[i]) /\ thread[i].role = "none"
  BY <1>11, NoThreadFacts
<1>16. CallsInv
  BY <1>1, <1>4, <1>15 DEF CallsInv
<1> QED BY <1>8, <1>13, <1>14, <1>15, <1>16 DEF IInv

\* Every step keeps the invariant, and gives tasks up only on a dead pool.
LEMMA NextKeeps ==
    ASSUME IInv, [Next]_vars
    PROVE  IInv' /\ Honest(main, main')
<1>1. CASE Next
  <2>1. CASE Caller
    BY <2>1, InitCallKeeps, LintBatchKeeps, CancelTaskKeeps, ShutdownKeeps DEF Caller
  <2>2. CASE Settles
    BY <2>2, MicrotaskKeeps, InitSettledKeeps, InitThrowsKeeps, ShutdownReturnsKeeps DEF Settles
  <2>3. ASSUME NEW i \in Workers, Thread(i) PROVE IInv' /\ Honest(main, main')
    BY <2>3, BootReadyKeeps, BootFailsKeeps, ReceiveKeeps, FinishKeeps, StopKeeps DEF Thread
  <2>4. ASSUME NEW i \in Workers, Timer(i) PROVE IInv' /\ Honest(main, main')
    BY <2>4, TaskTimeoutKeeps, InitTimeoutKeeps, GraceExpiresKeeps DEF Timer
  <2>5. ASSUME NEW i \in Workers, Event(i) PROVE IInv' /\ Honest(main, main')
    BY <2>5, OnReadyKeeps, OnLateReadyKeeps, OnInitErrorKeeps, OnResultKeeps, OnSlotExitKeeps,
       OnUnlistedExitKeeps, OnBootExitKeeps, OnFinalExitKeeps DEF Event
  <2> QED BY <1>1, <2>1, <2>2, <2>3, <2>4, <2>5 DEF Next
<1>2. CASE UNCHANGED vars
  BY <1>2, NoneGivenUp DEF vars, IInv, TypeInv, CallsInv, Listed
<1> QED BY <1>1, <1>2

\* Every reachable state satisfies the invariant.
THEOREM PoolInvariant == Spec => []IInv
<1>1. Init => IInv
  BY InitHolds
<1>2. IInv /\ [Next]_vars => IInv'
  BY NextKeeps
<1> QED BY <1>1, <1>2, PTL DEF Spec

\* Type correctness: every variable stays in its set, for any number of
\* workers and tasks.
THEOREM TypeCorrect == Spec => []TypeInv
<1>1. IInv => TypeInv
  BY DEF IInv
<1> QED BY <1>1, PoolInvariant, PTL

\* A sequence without repetition has as many elements as places.
LEMMA DistinctCount ==
    ASSUME NEW S, NEW s \in Seq(S), Distinct(s)
    PROVE  Cardinality(Range(s)) = Len(s)
<1>1. Len(s) \in Nat /\ DOMAIN s = 1 .. Len(s)
  OBVIOUS
<1>2. s \in [1 .. Len(s) -> Range(s)]
  BY <1>1 DEF Range
<1>3. s \in Bijection(1 .. Len(s), Range(s))
  BY <1>1, <1>2 DEF Bijection, Injection, Surjection, IsInjective, Range, Distinct
<1>4. ExistsBijection(1 .. Len(s), Range(s))
  BY <1>3 DEF ExistsBijection
<1> QED BY <1>1, <1>4, FS_CountingElements

\* What the ledger and the links say of the tasks that wait.
LEMMA HeldOnce == ASSUME IInv PROVE TasksHeldOnce
<1>1. /\ main \in MainStates /\ HeldInv(main) /\ Listed \subseteq Workers
      /\ PoolState(main, thread, asked, Listed)
  BY DEF IInv, TypeInv, PoolState, Ledger, Listed, Range
<1>2. main.queue \in Seq(Tasks) /\ Distinct(main.queue)
  BY <1>1, MainFields DEF HeldInv
<1>3. Range(main.queue) \subseteq Tasks
  BY <1>2 DEF Range
<1>4. ASSUME NEW i \in Workers, main.slots[i].inflight # NoTask PROVE i \in Listed
  <2>1. Link(main, thread[i], asked, Listed, i)
    BY <1>1 DEF PoolState
  <2> QED BY <1>4, <2>1 DEF Link, TimerInv
<1>5. ASSUME NEW t \in Tasks
      PROVE  Waits(main, t) <=> t \in Range(main.queue) \/ \E i \in Listed : main.slots[i].inflight = t
  BY <1>1, <1>4, TaskIds DEF HeldInv
<1>6. Pending = Range(main.queue) \union UNION {Inflight(i) : i \in Listed}
  BY <1>3, <1>5 DEF Pending, Inflight, Waits
<1>7. Cardinality(Range(main.queue)) = Len(main.queue)
  BY <1>2, DistinctCount
<1>8. ASSUME NEW i \in Listed
      PROVE  /\ Inflight(i) \cap Range(main.queue) = {}
             /\ \A j \in Listed \ {i} : Inflight(i) \cap Inflight(j) = {}
  BY <1>1, TaskIds DEF HeldInv, Inflight
<1> QED BY <1>6, <1>7, <1>8 DEF TasksHeldOnce

\* No crash, timeout, failed post, respawn or shutdown loses a task, doubles
\* it, or lets it be answered while it is still handed on.
THEOREM TasksAreHeldOnce == Spec => []TasksHeldOnce
<1>1. IInv => TasksHeldOnce
  BY HeldOnce
<1> QED BY <1>1, PoolInvariant, PTL

\* What the ledger says of the cancel slots.
LEMMA SlotsAccounted == ASSUME IInv PROVE CancelSlotsAccounted
<1> DEFINE p == main.cancelPool
           Held == {t \in Pending : main.cancelSlot[t] # NoSlot}
           f == [t \in Held |-> main.cancelSlot[t]]
<1>1. main \in MainStates /\ Accounted(main, asked) /\ Booked(p)
  BY DEF IInv, TypeInv, PoolState, Ledger, Accounted
<1>2. Held \subseteq Tasks /\ \A t \in Tasks : t \in Held <=> Waits(main, t) /\ main.cancelSlot[t] # NoSlot
  BY DEF Pending, Waits
<1>3. NoSlot \notin p.inUse
  BY <1>1 DEF Booked, NoSlot, CancelPools
<1> HIDE DEF Held
<1>4. p.inUse = {main.cancelSlot[t] : t \in Held}
  BY <1>1, <1>2, <1>3 DEF Accounted
<1>5. f \in Bijection(Held, p.inUse)
  <2>1. f \in [Held -> p.inUse]
    BY <1>4
  <2>2. \A t, u \in Held : f[t] = f[u] => t = u
    BY <1>1, <1>2 DEF Accounted
  <2>3. \A s \in p.inUse : \E t \in Held : f[t] = s
    BY <1>4
  <2> HIDE DEF f, p
  <2> QED BY <2>1, <2>2, <2>3 DEF Bijection, Injection, Surjection, IsInjective
<1>6. IsFiniteSet(Held)
  <2>1. IsFiniteSet(Tasks)
    BY PoolAssumption, FS_Interval DEF Tasks
  <2> QED BY <1>2, <2>1, FS_Subset
<1>7. Cardinality(p.inUse) = Cardinality(Held)
  <2>1. ExistsBijection(Held, p.inUse)
    BY <1>5 DEF ExistsBijection
  <2> QED BY <1>6, <2>1, FS_Bijection
<1>8. Range(p.free) = (0 .. p.capacity - 1) \ p.inUse /\ Cardinality(Range(p.free)) = Len(p.free)
  <2>1. p.free \in Seq(Nat) /\ Distinct(p.free)
    BY <1>1 DEF Booked, CancelPools
  <2> QED BY <1>1, <2>1, DistinctCount DEF Booked
<1> QED BY <1>4, <1>7, <1>8 DEF CancelSlotsAccounted, Held

\* Each settling path gives the task's cancel slot back once, and never
\* somebody else's: slots in use and unanswered tasks correspond.
THEOREM CancelSlotsAreAccounted == Spec => []CancelSlotsAccounted
<1>1. IInv => CancelSlotsAccounted
  BY SlotsAccounted
<1> QED BY <1>1, PoolInvariant, PTL

\* A flag raised for one task is never read by another that got its slot.
THEOREM OnlyAskedIsCancelled == Spec => []CancelledOnlyIfAsked
<1>1. IInv => CancelledOnlyIfAsked
  BY DEF IInv, PoolState, Ledger, AskedInv, CancelledOnlyIfAsked
<1> QED BY <1>1, PoolInvariant, PTL

\* What the links say of a slot's timer.
LEMMA TimerMeasures == ASSUME IInv PROVE TimerMeasuresItsTask
<1> SUFFICES ASSUME NEW i \in Listed, Inflight(i) # {}
             PROVE  /\ thread[i].role = "slot"
                    /\ thread[i].run \in Inflight(i) \union {NoTask}
                    /\ Range(main.inbox[i]) \subseteq Inflight(i)
  BY DEF TimerMeasuresItsTask
<1> DEFINE t == main.slots[i].inflight
<1>1. t \in Tasks /\ t # NoTask /\ Inflight(i) = {t}
  BY TaskIds DEF Inflight
<1>2. i \in Workers
  BY DEF IInv, TypeInv, Listed, Range
<1>3. Link(main, thread[i], asked, Listed, i)
  BY <1>2 DEF IInv, PoolState
<1>4. thread[i].role = "slot" /\ thread[i].run \in {t, NoTask} /\ main.inbox[i] \in {<< >>, <<t>>}
  BY <1>1, <1>3 DEF Link, RoleInv, TimerInv
<1>5. Range(<< >>) = {} /\ Range(<<t>>) = {t}
  <2> HIDE DEF t
  <2> QED BY DEF Range
<1> QED BY <1>1, <1>4, <1>5

\* While a slot waits for a task its worker neither runs nor has queued any
\* other, so the timer measures that task's run.
THEOREM TimersMeasureTheirTask == Spec => []TimerMeasuresItsTask
<1>1. IInv => TimerMeasuresItsTask
  BY TimerMeasures
<1> QED BY <1>1, PoolInvariant, PTL

\* A queued task of an open pool always has somebody who will look at it.
THEOREM BacklogsAreAttended == Spec => []BacklogIsAttended
<1>1. IInv => BacklogIsAttended
  BY DEF IInv, Attended, BacklogIsAttended
<1> QED BY <1>1, PoolInvariant, PTL

\* What the invariant says of a pool that is over.
LEMMA NothingOutlives == ASSUME IInv PROVE NothingOutlivesThePool
<1> SUFFICES ASSUME shutdown = "returned" \/ init = "failed"
             PROVE  /\ Pending = {}
                    /\ \A i \in Workers : thread[i].st \in {"booting", "up"} => thread[i].ending
  BY DEF NothingOutlivesThePool
<1>1. main.closed /\ \A i \in Workers : thread[i].role \in {"none", "rejected", "unlisted"}
  BY DEF IInv, CallsInv
<1>2. Ledger(main, asked) /\ main.queue = << >> /\ \A i \in Workers : Link(main, thread[i], asked, Listed, i)
  BY <1>1 DEF IInv, PoolState
<1>3. \A i \in Workers : main.slots[i].inflight = NoTask
  BY <1>1, <1>2 DEF Link, TimerInv
<1>4. Range(<< >>) = {}
  BY DEF Range
<1>5. \A t \in Tasks : ~Waits(main, t)
  BY <1>2, <1>3, <1>4, TaskIds DEF Ledger, HeldInv
<1>6. Pending = {}
  BY <1>5 DEF Pending, Waits
<1>7. \A i \in Workers : ThreadInv(thread[i])
  BY DEF IInv
<1> QED BY <1>1, <1>6, <1>7 DEF ThreadInv, Ended

\* When shutdown() returns or init() throws, every task is answered and every
\* thread that is left has been terminated or has closed its port.
THEOREM NothingIsLeftRunning == Spec => []NothingOutlivesThePool
<1>1. IInv => NothingOutlivesThePool
  BY NothingOutlives
<1> QED BY <1>1, PoolInvariant, PTL

\* Where a post to a dead thread is swallowed, a listed slot of an open pool
\* that neither serves nor announces a respawn never comes back.
DeadForGood ==
    ~main.closed => \A i \in Listed : ~Recoverable(main.slots[i]) => ~ComingBack(i)

\* What the links say of a dead slot.
LEMMA DeadStayDead == ASSUME IInv, DeadPost = "lost" PROVE DeadForGood
<1> SUFFICES ASSUME ~main.closed, NEW i \in Listed, ~Recoverable(main.slots[i])
             PROVE  ~ComingBack(i)
  BY DEF DeadForGood
<1>1. i \in Workers
  BY DEF IInv, TypeInv, Listed, Range
<1>2. Link(main, thread[i], asked, Listed, i) /\ main.slots[i] \in SlotStates /\ RetryCap \in Nat
  BY <1>1, AtWorker, PoolAssumption
<1> QED BY <1>2 DEF ComingBack, Link, RoleInv, RespawnInv, Recoverable, SlotStates

\* The worker list changes only in steps that answer nobody: a ready worker of
\* init() joins it, and it is emptied once the pool is over.
LEMMA ListChanges ==
    ASSUME TypeInv, [Next]_vars
    PROVE  workers' = workers \/ main'.outcome = main.outcome
<1>1. CASE Caller
  BY <1>1 DEF Caller, InitCall, LintBatch, CancelTask, Shutdown
<1>2. CASE Settles
  BY <1>2 DEF Settles, Microtask, InitSettled, InitThrows, ShutdownReturns
<1>3. ASSUME NEW i \in Workers, Thread(i) PROVE workers' = workers
  BY <1>3 DEF Thread, BootReady, BootFails, Receive, Finish, Stop, Steps
<1>4. ASSUME NEW i \in Workers, Timer(i) PROVE workers' = workers
  BY <1>4 DEF Timer, TaskTimeout, InitTimeout, GraceExpires
<1>5. ASSUME NEW i \in Workers, Event(i) PROVE workers' = workers \/ main'.outcome = main.outcome
  <2>1. CASE OnReady(i)
    <3>1. [main EXCEPT !.slots[i] = Adopted(i)].outcome = main.outcome
      BY DEF TypeInv, MainStates
    <3> QED BY <2>1, <3>1 DEF OnReady
  <2>2. CASE ~OnReady(i)
    BY <1>5, <2>2 DEF Event, OnLateReady, OnInitError, OnResult, OnSlotExit, OnUnlistedExit,
                      OnBootExit, OnFinalExit
  <2> QED BY <2>1, <2>2
<1>6. CASE UNCHANGED vars
  BY <1>6 DEF vars
<1> QED BY <1>1, <1>2, <1>3, <1>4, <1>5, <1>6 DEF Next

\* Tasks are given up as pool_degraded only when every slot is terminally
\* dead, where a post to a thread that has stopped is swallowed, as Node does.
THEOREM DegradedMeansDead ==
    ASSUME DeadPost = "lost"
    PROVE  Spec => DegradedOnlyWhenDead
<1> DEFINE Newly == \E t \in Tasks : main.outcome[t] # "degraded" /\ main'.outcome[t] = "degraded"
<1>1. IInv => DeadForGood
  BY DeadStayDead
<1>2. ASSUME IInv, DeadForGood', [Next]_vars
      PROVE  [Newly => \A i \in Listed : ~ComingBack(i)']_vars
  <2> SUFFICES ASSUME Newly, NEW i \in Listed PROVE ~ComingBack(i)'
    OBVIOUS
  <2>1. ~main'.closed /\ ~Recoverable(main'.slots[i])
    BY <1>2, NextKeeps DEF Honest
  <2>2. Listed' = Listed
    BY <1>2, ListChanges DEF IInv, Listed
  <2> QED BY <1>2, <2>1, <2>2 DEF DeadForGood, Recoverable
<1> QED BY <1>1, <1>2, PoolInvariant, PTL DEF Spec, DegradedOnlyWhenDead
=============================================================================
