----------------------- MODULE ConfigTransactionProofs -----------------------
(***************************************************************************)
(* Safety of the config transactions between the language server and the   *)
(* VS Code extension, for any number of transactions, lints, crashes and   *)
(* control timeouts, any plugin sets and any length of the grace history.  *)
(***************************************************************************)
EXTENDS ConfigTransaction, FiniteSetTheorems, TLAPS

-----------------------------------------------------------------------------
(* The pool's operations and the leases of its hosts.                      *)

PoolFields == {"generations", "timers", "active", "activeState", "rollback", "hosts"}
HostFields == {"fingerprint", "host", "ready", "activeLints", "retiring", "shutdown"}

IsPool(p) == DOMAIN p = PoolFields
IsHost(h) == DOMAIN h = HostFields /\ h.activeLints \in Nat /\ h.shutdown \in BOOLEAN

\* No host of the pool is shut down.
Calm(p) == IsPool(p) /\ \A h \in DOMAIN p.hosts : IsHost(p.hosts[h]) /\ ~p.hosts[h].shutdown

\* The pool leads nowhere, and what is left of its hosts is shut down.
Emptied(p) ==
    /\ IsPool(p)
    /\ p.generations = <<>> /\ p.timers = <<>>
    /\ p.active = None /\ p.activeState = None /\ p.rollback = NoRollback
    /\ \A h \in DOMAIN p.hosts : IsHost(p.hosts[h]) /\ p.hosts[h].shutdown

\* Changing anything but the hosts leaves the pool calm.
LEMMA CalmHosts ==
    ASSUME NEW p, NEW q, Calm(p), IsPool(q), q.hosts = p.hosts
    PROVE  Calm(q)
BY DEF Calm

\* cancelGenerationRetirement touches the timers alone.
LEMMA UntimedFacts ==
    ASSUME NEW p, NEW S, IsPool(p)
    PROVE  /\ IsPool(Untimed(p, S))
           /\ Untimed(p, S).hosts = p.hosts
           /\ Untimed(p, S).generations = p.generations
           /\ Untimed(p, S).active = p.active
           /\ Untimed(p, S).activeState = p.activeState
           /\ Untimed(p, S).rollback = p.rollback
           /\ Untimed(p, S).timers = Without(p.timers, S)
BY DEF Untimed, IsPool, PoolFields

\* startShutdown of a host without leases drops it and shuts no other down.
LEMMA StartShutdownCalm ==
    ASSUME NEW p, NEW h, Calm(p), p.hosts[h].activeLints = 0
    PROVE  Calm(StartShutdown(p, h))
<1> DEFINE named == {g \in DOMAIN p.generations : p.generations[g] = h}
           u == Untimed(p, named)
<1>1. IsPool(u) /\ u.hosts = p.hosts
  BY UntimedFacts DEF Calm
<1> HIDE DEF u
<1>2. StartShutdown(p, h) = [u EXCEPT !.generations = Without(@, named), !.hosts = Without(p.hosts, {h})]
  BY DEF StartShutdown, u
<1> HIDE DEF named
<1>3. IsPool(StartShutdown(p, h)) /\ StartShutdown(p, h).hosts = Without(p.hosts, {h})
  BY <1>1, <1>2 DEF IsPool, PoolFields
<1>4. DOMAIN Without(p.hosts, {h}) \subseteq DOMAIN p.hosts
  BY DEF Without, Restrict
<1>5. \A x \in DOMAIN Without(p.hosts, {h}) : Without(p.hosts, {h})[x] = p.hosts[x]
  BY DEF Without, Restrict
<1> QED BY <1>3, <1>4, <1>5 DEF Calm

\* Writing one field of one host, other than shutdown, leaves the pool calm.
LEMMA HostFieldCalm ==
    ASSUME NEW p, NEW h, NEW q, NEW new, Calm(p), IsPool(q), q.hosts = [p.hosts EXCEPT ![h] = new],
           h \in DOMAIN p.hosts => IsHost(new) /\ ~new.shutdown
    PROVE  Calm(q)
<1>1. DOMAIN q.hosts = DOMAIN p.hosts
  OBVIOUS
<1>2. ASSUME NEW x \in DOMAIN q.hosts PROVE IsHost(q.hosts[x]) /\ ~q.hosts[x].shutdown
  <2>1. CASE x = h
    BY <1>1, <2>1
  <2>2. CASE x # h
    BY <1>1, <2>2 DEF Calm
  <2> QED BY <2>1, <2>2
<1> QED BY <1>2 DEF Calm

\* retire waits for the leases.
LEMMA RetireCalm ==
    ASSUME NEW p, NEW h, Calm(p)
    PROVE  Calm(Retire(p, h))
<1> DEFINE new == [p.hosts[h] EXCEPT !.retiring = TRUE]
           q == [p EXCEPT !.hosts = [p.hosts EXCEPT ![h] = new]]
<1>1. Retire(p, h) = IF q.hosts[h].activeLints = 0 THEN StartShutdown(q, h) ELSE q
  BY DEF Retire
<1>2. IsPool(q) /\ q.hosts = [p.hosts EXCEPT ![h] = new]
  BY DEF Calm, IsPool, PoolFields
<1>3. h \in DOMAIN p.hosts => IsHost(new) /\ ~new.shutdown
  BY DEF Calm, IsHost, HostFields
<1> HIDE DEF q, new
<1>4. Calm(q)
  BY <1>2, <1>3, HostFieldCalm
<1> QED BY <1>1, <1>4, StartShutdownCalm

\* Retiring a host that nothing leads to any more.
LEMMA RetireIfUnreferencedCalm ==
    ASSUME NEW p, NEW h, Calm(p)
    PROVE  Calm(RetireIfUnreferenced(p, h))
BY RetireCalm DEF RetireIfUnreferenced

\* Forgetting a generation.
LEMMA ForgetCalm ==
    ASSUME NEW p, NEW g, Calm(p)
    PROVE  Calm(Forget(p, g))
<1> DEFINE q == [p EXCEPT !.generations = Without(@, {g})]
<1>1. IsPool(q) /\ q.hosts = p.hosts
  BY DEF Calm, IsPool, PoolFields
<1>2. Forget(p, g) = RetireIfUnreferenced(q, p.generations[g])
  BY DEF Forget
<1> HIDE DEF q
<1>3. Calm(q)
  BY <1>1, CalmHosts
<1> QED BY <1>2, <1>3, RetireIfUnreferencedCalm

\* completeGenerationRetirement.
LEMMA CompleteRetirementCalm ==
    ASSUME NEW p, NEW g, Calm(p)
    PROVE  Calm(CompleteRetirement(p, g))
<1>1. Calm(Untimed(p, {g}))
  BY UntimedFacts, CalmHosts DEF Calm
<1> QED BY <1>1, ForgetCalm DEF CompleteRetirement

\* scheduleGenerationRetirement and finalizeActiveCommitRollback.
LEMMA FinalizeRollbackCalm ==
    ASSUME NEW p, Calm(p)
    PROVE  Calm(FinalizeRollback(p))
<1> DEFINE q == [p EXCEPT !.rollback = NoRollback]
           g == p.rollback.previous
           r == IF Timed(q, g) THEN q ELSE [q EXCEPT !.timers = With(@, g, Place(q))]
<1>1. IsPool(q) /\ q.hosts = p.hosts
  BY DEF Calm, IsPool, PoolFields
<1>2. FinalizeRollback(p) = IF g = None THEN q ELSE ScheduleRetirement(q, g)
  BY DEF FinalizeRollback
<1>3. Calm(q)
  BY <1>1, CalmHosts
<1> HIDE DEF q, g
<1>4. IsPool(r) /\ r.hosts = q.hosts
  BY <1>1 DEF IsPool, PoolFields
<1>5. Calm(r)
  BY <1>3, <1>4, CalmHosts
<1>6. ScheduleRetirement(q, g) = IF Cardinality(DOMAIN r.timers) > MaxGrace THEN CompleteRetirement(r, Oldest(r)) ELSE r
  BY DEF ScheduleRetirement
<1> HIDE DEF r
<1> QED BY <1>2, <1>3, <1>5, <1>6, CompleteRetirementCalm

\* prepare stages a host without leases, or none.
LEMMA PrepareCalm ==
    ASSUME NEW p, NEW g, NEW fp, NEW plugins, NEW built, Calm(p)
    PROVE  Calm(Prepare(p, g, fp, plugins, built))
<1>1. ASSUME NEW host, IsHost(host), ~host.shutdown PROVE Calm(Stage(p, g, host))
  <2>1. IsPool(Stage(p, g, host)) /\ Stage(p, g, host).hosts = With(p.hosts, g, host)
    BY DEF Calm, Stage, IsPool, PoolFields
  <2>2. DOMAIN With(p.hosts, g, host) = DOMAIN p.hosts \cup {g}
    BY DEF With
  <2>3. \A x \in DOMAIN p.hosts \cup {g} : With(p.hosts, g, host)[x] = IF x = g THEN host ELSE p.hosts[x]
    BY DEF With
  <2> QED BY <1>1, <2>1, <2>2, <2>3 DEF Calm
<1>2. \A w, r : IsHost(Host(fp, w, r)) /\ ~Host(fp, w, r).shutdown
  BY DEF Host, IsHost, HostFields
<1>3. Calm([p EXCEPT !.generations = With(@, g, p.activeState)])
  BY CalmHosts DEF Calm, IsPool, PoolFields
<1> QED BY <1>1, <1>2, <1>3 DEF Prepare

\* commit.
LEMMA CommitCalm ==
    ASSUME NEW p, NEW g, Calm(p)
    PROVE  Calm(Commit(p, g))
<1> DEFINE u == Untimed(FinalizeRollback(p), {p.active} \ {None})
           c == [u EXCEPT !.active = g, !.activeState = p.generations[g],
                          !.rollback = [generation |-> g, previous |-> p.active, state |-> p.activeState]]
<1>1. Calm(u)
  BY FinalizeRollbackCalm, UntimedFacts, CalmHosts DEF Calm
<1>2. Commit(p, g) = IF g = p.active \/ ~Routed(p, g) THEN p ELSE c
  BY DEF Commit
<1> HIDE DEF u
<1>3. IsPool(c) /\ c.hosts = u.hosts
  BY <1>1 DEF Calm, IsPool, PoolFields
<1> HIDE DEF c
<1> QED BY <1>1, <1>2, <1>3, CalmHosts

\* abort, of the active generation or of a staged one.
LEMMA AbortCalm ==
    ASSUME NEW p, NEW g, Calm(p)
    PROVE  Calm(Abort(p, g))
<1> DEFINE u == Untimed(p, {p.rollback.previous} \ {None})
           q == [u EXCEPT !.active = p.rollback.previous, !.activeState = p.rollback.state,
                          !.rollback = NoRollback, !.generations = Without(@, {g})]
<1>1. IsPool(u) /\ u.hosts = p.hosts
  BY UntimedFacts DEF Calm
<1>2. Abort(p, g) = IF g = p.active
                    THEN IF p.rollback.generation # g THEN p ELSE RetireIfUnreferenced(q, p.activeState)
                    ELSE IF Routed(p, g) THEN Forget(p, g) ELSE p
  BY DEF Abort
<1> HIDE DEF u
<1>3. IsPool(q) /\ q.hosts = u.hosts
  BY <1>1 DEF IsPool, PoolFields
<1> HIDE DEF q
<1>4. Calm(q)
  BY <1>1, <1>3, CalmHosts
<1> QED BY <1>2, <1>4, RetireIfUnreferencedCalm, ForgetCalm

\* A lint takes its lease on a host that runs.
LEMMA LeaseCalm ==
    ASSUME NEW p, NEW g, Calm(p)
    PROVE  Calm(Lease(p, g))
<1> DEFINE h == p.generations[g]
           new == [p.hosts[h] EXCEPT !.activeLints = @ + 1]
<1>1. Lease(p, g) = [p EXCEPT !.hosts = [p.hosts EXCEPT ![h] = new]]
  BY DEF Lease
<1>2. IsPool(Lease(p, g)) /\ Lease(p, g).hosts = [p.hosts EXCEPT ![h] = new]
  BY <1>1 DEF Calm, IsPool, PoolFields
<1>3. h \in DOMAIN p.hosts => IsHost(new) /\ ~new.shutdown
  BY DEF Calm, IsHost, HostFields
<1> HIDE DEF h, new
<1> QED BY <1>2, <1>3, HostFieldCalm

\* What a released lease leaves: the count goes down, and the last one lets a retiring host go.
LEMMA ReleaseFacts ==
    ASSUME NEW p, NEW h \in DOMAIN p.hosts, IsPool(p), IsHost(p.hosts[h]), p.hosts[h].activeLints > 0
    PROVE  \E q : /\ IsPool(q) /\ IsHost(q.hosts[h])
                  /\ q.hosts = [p.hosts EXCEPT ![h] = [p.hosts[h] EXCEPT !.activeLints = @ - 1]]
                  /\ q.generations = p.generations /\ q.timers = p.timers /\ q.active = p.active
                  /\ q.activeState = p.activeState /\ q.rollback = p.rollback
                  /\ q.hosts[h].shutdown <=> p.hosts[h].shutdown
                  /\ \/ Release(p, h) = q
                     \/ Release(p, h) = StartShutdown(q, h) /\ q.hosts[h].activeLints = 0
<1> DEFINE new == [p.hosts[h] EXCEPT !.activeLints = @ - 1]
           q == [p EXCEPT !.hosts = [p.hosts EXCEPT ![h] = new]]
<1>1. IsHost(new) /\ (new.shutdown <=> p.hosts[h].shutdown)
  BY DEF IsHost, HostFields
<1>2. /\ IsPool(q) /\ q.hosts = [p.hosts EXCEPT ![h] = new]
      /\ q.generations = p.generations /\ q.timers = p.timers /\ q.active = p.active
      /\ q.activeState = p.activeState /\ q.rollback = p.rollback
  BY DEF IsPool, PoolFields
<1>3. q.hosts[h] = new
  BY <1>2
<1>4. \/ Release(p, h) = q
      \/ Release(p, h) = StartShutdown(q, h) /\ q.hosts[h].activeLints = 0
  BY DEF Release
<1> HIDE DEF q
<1> QED BY <1>1, <1>2, <1>3, <1>4

\* The end of a lint leaves the pool calm.
LEMMA ReleaseCalm ==
    ASSUME NEW p, NEW h \in DOMAIN p.hosts, Calm(p), p.hosts[h].activeLints > 0
    PROVE  Calm(Release(p, h))
<1>1. PICK q : /\ IsPool(q) /\ IsHost(q.hosts[h])
               /\ q.hosts = [p.hosts EXCEPT ![h] = [p.hosts[h] EXCEPT !.activeLints = @ - 1]]
               /\ q.hosts[h].shutdown <=> p.hosts[h].shutdown
               /\ \/ Release(p, h) = q
                  \/ Release(p, h) = StartShutdown(q, h) /\ q.hosts[h].activeLints = 0
  BY ReleaseFacts DEF Calm
<1>2. Calm(q)
  <2> DEFINE new == [p.hosts[h] EXCEPT !.activeLints = @ - 1]
  <2>1. q.hosts = [p.hosts EXCEPT ![h] = new] /\ IsHost(new) /\ ~new.shutdown
    BY <1>1 DEF Calm
  <2> HIDE DEF new
  <2> QED BY <1>1, <2>1, HostFieldCalm
<1>3. q.hosts[h].activeLints = 0 => Calm(StartShutdown(q, h))
  BY <1>2, StartShutdownCalm
<1> QED BY <1>1, <1>2, <1>3

-----------------------------------------------------------------------------
(* Disposal.                                                               *)

\* Taking keys from an empty Map leaves it empty.
LEMMA WithoutEmpty == \A S : Without(<<>>, S) = <<>>
BY DEF Without, Restrict

\* dispose empties the pool and keeps only the hosts whose lints are still to end, shut down.
LEMMA DisposeEmpties ==
    ASSUME NEW p, Calm(p) \/ Emptied(p)
    PROVE  Emptied(Dispose(p))
<1> DEFINE leased == {h \in DOMAIN p.hosts : p.hosts[h].activeLints > 0}
           hosts == [h \in leased |-> [p.hosts[h] EXCEPT !.shutdown = TRUE]]
<1>1. Dispose(p) = [NewPool EXCEPT !.hosts = hosts]
  BY DEF Dispose
<1>2. \A h \in leased : IsHost([p.hosts[h] EXCEPT !.shutdown = TRUE]) /\ [p.hosts[h] EXCEPT !.shutdown = TRUE].shutdown
  BY DEF Calm, Emptied, IsHost, HostFields
<1>3. \A h \in DOMAIN hosts : IsHost(hosts[h]) /\ hosts[h].shutdown
  BY <1>2
<1> HIDE DEF hosts
<1> QED BY <1>1, <1>3 DEF Emptied, NewPool, IsPool, PoolFields

\* An abort that comes late finds nothing.
LEMMA AbortEmptied ==
    ASSUME NEW p, NEW g, Emptied(p)
    PROVE  Emptied(Abort(p, g))
<1>1. CASE g = p.active
  <2> DEFINE u == Untimed(p, {p.rollback.previous} \ {None})
             q == [u EXCEPT !.active = p.rollback.previous, !.activeState = p.rollback.state,
                            !.rollback = NoRollback, !.generations = Without(@, {g})]
  <2>1. /\ IsPool(u) /\ u.hosts = p.hosts /\ u.generations = <<>> /\ u.timers = <<>>
    BY UntimedFacts, WithoutEmpty DEF Emptied
  <2> HIDE DEF u
  <2>2. Emptied(q)
    BY <2>1, WithoutEmpty DEF Emptied, IsPool, PoolFields, NoRollback
  <2> HIDE DEF q
  <2>3. RetireIfUnreferenced(q, p.activeState) = q
    BY DEF RetireIfUnreferenced, Emptied
  <2>4. Abort(p, g) = RetireIfUnreferenced(q, p.activeState) \/ Abort(p, g) = p
    BY <1>1 DEF Abort, q, u
  <2> QED BY <2>2, <2>3, <2>4
<1>2. CASE g # p.active
  BY <1>2 DEF Abort, Emptied, Routed
<1> QED BY <1>1, <1>2

\* The last lints end in an emptied pool.
LEMMA ReleaseEmptied ==
    ASSUME NEW p, NEW h \in DOMAIN p.hosts, Emptied(p), p.hosts[h].activeLints > 0
    PROVE  Emptied(Release(p, h))
<1>1. PICK q : /\ IsPool(q) /\ IsHost(q.hosts[h])
               /\ q.hosts = [p.hosts EXCEPT ![h] = [p.hosts[h] EXCEPT !.activeLints = @ - 1]]
               /\ q.generations = p.generations /\ q.timers = p.timers /\ q.active = p.active
               /\ q.activeState = p.activeState /\ q.rollback = p.rollback
               /\ q.hosts[h].shutdown <=> p.hosts[h].shutdown
               /\ \/ Release(p, h) = q
                  \/ Release(p, h) = StartShutdown(q, h) /\ q.hosts[h].activeLints = 0
  BY ReleaseFacts DEF Emptied
<1>2. \A x \in DOMAIN q.hosts : IsHost(q.hosts[x]) /\ q.hosts[x].shutdown
  <2> SUFFICES ASSUME NEW x \in DOMAIN q.hosts PROVE IsHost(q.hosts[x]) /\ q.hosts[x].shutdown
    OBVIOUS
  <2>1. x \in DOMAIN p.hosts /\ (x # h => q.hosts[x] = p.hosts[x])
    BY <1>1
  <2> QED BY <1>1, <2>1 DEF Emptied
<1>3. Emptied(q)
  BY <1>1, <1>2 DEF Emptied
<1>4. ASSUME q.hosts[h].activeLints = 0 PROVE Emptied(StartShutdown(q, h))
  <2> DEFINE named == {g \in DOMAIN q.generations : q.generations[g] = h}
             u == Untimed(q, named)
             s == [u EXCEPT !.generations = Without(@, named), !.hosts = Without(q.hosts, {h})]
  <2>1. IsPool(u) /\ u.hosts = q.hosts /\ u.generations = <<>> /\ u.timers = <<>>
        /\ u.active = None /\ u.activeState = None /\ u.rollback = NoRollback
    BY <1>3, UntimedFacts, WithoutEmpty DEF Emptied
  <2> HIDE DEF u, named
  <2>2. StartShutdown(q, h) = s
    BY <1>4 DEF StartShutdown, u, named
  <2>3. /\ IsPool(s) /\ s.hosts = Without(q.hosts, {h}) /\ s.generations = <<>> /\ s.timers = <<>>
        /\ s.active = None /\ s.activeState = None /\ s.rollback = NoRollback
    BY <2>1, WithoutEmpty DEF IsPool, PoolFields
  <2>4. \A x \in DOMAIN Without(q.hosts, {h}) : x \in DOMAIN q.hosts /\ Without(q.hosts, {h})[x] = q.hosts[x]
    BY DEF Without, Restrict
  <2> HIDE DEF s
  <2> QED BY <1>2, <2>2, <2>3, <2>4 DEF Emptied
<1> QED BY <1>1, <1>3, <1>4

-----------------------------------------------------------------------------
(* Types.                                                                  *)

Prints == Fingerprints \cup {Plain}
Catalogs == [tx : Nat, fingerprint : Prints, plugins : BOOLEAN, usable : BOOLEAN]
Controls == {"load", "activate", "commit", "abort"}
Servers == [up : BOOLEAN, pc : Controls \cup {"idle"}, next : Catalogs, committed : Catalogs, generations : SUBSET Nat]
Requests == [op : Controls \cup {"lint"}, tx : Nat, fingerprint : Prints]
Replies == [op : Controls \cup {"none"}, ok : BOOLEAN, ready : BOOLEAN]
Activations == [stage : {"summarize", "prepare", "verify", "undo"}, fingerprint : Prints, ready : BOOLEAN]
Operations == [op : {"prepare", "commit", "abort", "dispose"}, tx : Nat, by : {"request", "activate", "undo", "reset", "close"}]
ActiveMaps == UNION {[S -> Activations] : S \in SUBSET Nat}

\* The server, the wire, the adapter and the chain of operations; the pool is described above.
ConfigType ==
    /\ go \in Servers /\ lastTx \in Nat /\ lints \in Nat /\ faults \in Nat /\ disposed \in BOOLEAN
    /\ wire \in Seq(Requests) /\ reply \in Replies
    /\ adapter \in [transactions : SUBSET Nat, active : ActiveMaps]
    /\ IsFiniteSet(adapter.transactions)
    /\ ops \in Seq(Operations)

\* A request is sent behind those already on the wire.
LEMMA AskType ==
    ASSUME NEW op \in Controls, NEW c \in Catalogs, wire \in Seq(Requests), Ask(op, c)
    PROVE  wire' \in Seq(Requests) /\ reply' \in Replies
BY DEF Ask, Request, Requests, Catalogs, NoReply, Replies

\* Giving up a refresh keeps the server well formed.
LEMMA AbortRefreshType ==
    ASSUME go \in Servers, wire \in Seq(Requests), AbortFailedRefresh
    PROVE  go' \in Servers /\ wire' \in Seq(Requests) /\ reply' \in Replies
<1>1. go.next \in Catalogs /\ "abort" \in Controls
  BY DEF Servers, Controls
<1>2. Ask("abort", go.next)
  BY DEF AbortFailedRefresh
<1>3. go' \in Servers
  BY DEF AbortFailedRefresh, Servers, Controls
<1> QED BY <1>1, <1>2, <1>3, AskType

\* An answer is one of the four kinds, or the one that was there.
LEMMA ReplyType ==
    ASSUME NEW op \in Controls, NEW tx, NEW ok \in BOOLEAN, NEW ready \in BOOLEAN, reply \in Replies,
           Reply(op, tx, ok, ready)
    PROVE  reply' \in Replies
BY DEF Reply, Replies

\* An operation joins the end of the chain.
LEMMA EnqueueType ==
    ASSUME ops \in Seq(Operations), NEW op \in {"prepare", "commit", "abort", "dispose"}, NEW tx \in Nat,
           NEW by \in {"request", "activate", "undo", "reset", "close"}, Enqueue(op, tx, by)
    PROVE  ops' \in Seq(Operations)
BY DEF Enqueue, Operation, Operations

\* Moving an activation to another stage, adding one and dropping one.
LEMMA ActiveMapFacts ==
    ASSUME NEW m \in ActiveMaps
    PROVE  /\ DOMAIN m \subseteq Nat /\ \A x \in DOMAIN m : m[x] \in Activations
           /\ \A x \in Nat, a \in Activations : With(m, x, a) \in ActiveMaps
           /\ \A S : Without(m, S) \in ActiveMaps
<1>1. PICK S \in SUBSET Nat : m \in [S -> Activations]
  BY DEF ActiveMaps
<1>2. ASSUME NEW x \in Nat, NEW a \in Activations PROVE With(m, x, a) \in ActiveMaps
  <2>1. With(m, x, a) \in [S \cup {x} -> Activations] /\ S \cup {x} \in SUBSET Nat
    BY <1>1 DEF With
  <2> QED BY <2>1 DEF ActiveMaps
<1>3. ASSUME NEW T PROVE Without(m, T) \in ActiveMaps
  <2>1. Without(m, T) \in [S \ T -> Activations] /\ S \ T \in SUBSET Nat
    BY <1>1 DEF Without, Restrict
  <2> QED BY <2>1 DEF ActiveMaps
<1> QED BY <1>1, <1>2, <1>3

\* Rewriting one activation, if there is one.
LEMMA ActiveMapUpdate ==
    ASSUME NEW m \in ActiveMaps, NEW x, NEW a, x \in DOMAIN m => a \in Activations
    PROVE  [m EXCEPT ![x] = a] \in ActiveMaps /\ DOMAIN [m EXCEPT ![x] = a] = DOMAIN m
<1>1. PICK S \in SUBSET Nat : m \in [S -> Activations]
  BY DEF ActiveMaps
<1>2. [m EXCEPT ![x] = a] \in [S -> Activations]
  BY <1>1
<1> QED BY <1>1, <1>2 DEF ActiveMaps

\* SetToSeq lists the elements of a finite set.
LEMMA SetToSeqFacts ==
    ASSUME NEW S, IsFiniteSet(S)
    PROVE  Cardinality(S) \in Nat /\ SetToSeq(S) \in [1..Cardinality(S) -> S]
<1>1. Cardinality(S) \in Nat /\ ExistsBijection(1..Cardinality(S), S)
  BY FS_CardinalityType
<1>2. PICK f : f \in Bijection(1..Cardinality(S), S)
  BY <1>1 DEF ExistsBijection
<1>3. f \in [1..Cardinality(S) -> S] /\ IsInjective(f)
  BY <1>2 DEF Bijection, Injection, IsInjective
<1> QED BY <1>1, <1>3 DEF SetToSeq

\* What resetForServerRestart enqueues: an abort for every orphaned transaction.
LEMMA ResetType ==
    ASSUME ConfigType
    PROVE  [k \in 1..Cardinality(Orphans) |-> Operation("abort", SetToSeq(Orphans)[k], "reset")] \in Seq(Operations)
<1>0. adapter.transactions \subseteq Nat /\ IsFiniteSet(adapter.transactions)
  BY DEF ConfigType
<1>1. Cardinality(Orphans) \in Nat /\ SetToSeq(Orphans) \in [1..Cardinality(Orphans) -> Nat]
  BY <1>0, SetToSeqFacts DEF Orphans
<1>2. \A k \in 1..Cardinality(Orphans) : Operation("abort", SetToSeq(Orphans)[k], "reset") \in Operations
  BY <1>1 DEF Operation, Operations
<1> QED BY <1>1, <1>2

\* Every step keeps the types.
LEMMA TypeStep == ConfigType /\ [Next]_vars => ConfigType'
<1> SUFFICES ASSUME ConfigType, [Next]_vars PROVE ConfigType'
  OBVIOUS
<1>0. /\ go \in Servers /\ lastTx \in Nat /\ lints \in Nat /\ faults \in Nat /\ disposed \in BOOLEAN
      /\ wire \in Seq(Requests) /\ reply \in Replies
      /\ adapter \in [transactions : SUBSET Nat, active : ActiveMaps]
      /\ IsFiniteSet(adapter.transactions)
      /\ ops \in Seq(Operations)
  BY DEF ConfigType
<1>a. NoReply \in Replies /\ NoCatalog \in Catalogs /\ NewServer \in Servers
  BY DEF NoReply, Replies, NoCatalog, Catalogs, Prints, NewServer, Servers, Controls, None
<1>b. Idle \in Servers
  BY <1>0, <1>a DEF Idle, Servers
<1>c. adapter.transactions \subseteq Nat /\ adapter.active \in ActiveMaps
  BY <1>0
<1>d. ASSUME NEW a \in ActiveMaps PROVE [adapter EXCEPT !.active = a] \in [transactions : SUBSET Nat, active : ActiveMaps]
                                        /\ [adapter EXCEPT !.active = a].transactions = adapter.transactions
  BY <1>0
<1>e. ASSUME NEW T, T \subseteq Nat, IsFiniteSet(T)
      PROVE  /\ [adapter EXCEPT !.transactions = T] \in [transactions : SUBSET Nat, active : ActiveMaps]
             /\ [adapter EXCEPT !.transactions = T].transactions = T
  BY <1>0, <1>e
<1>f. ASSUME NEW tx PROVE Cleaned(tx) \in [transactions : SUBSET Nat, active : ActiveMaps] /\ IsFiniteSet(Cleaned(tx).transactions)
  <2>1. adapter.transactions \ {tx} \subseteq Nat /\ IsFiniteSet(adapter.transactions \ {tx})
    BY <1>0, FS_RemoveElement
  <2> QED BY <2>1, <1>e DEF Cleaned
<1>1. CASE RefreshConfig
  <2> DEFINE next == [NoCatalog EXCEPT !.tx = lastTx + 1]
  <2>1. "load" \in Controls /\ next \in Catalogs
    BY <1>0, <1>a DEF Controls, Catalogs
  <2>a. go' = [go EXCEPT !.pc = "load", !.next = next] /\ Ask("load", next) /\ lastTx' = lastTx + 1
    BY <1>1 DEF RefreshConfig
  <2> HIDE DEF next
  <2>b. go' \in Servers
    BY <1>0, <2>1, <2>a DEF Servers
  <2>2. go' \in Servers /\ lastTx' \in Nat
    BY <1>0, <2>a, <2>b
  <2>3. wire' \in Seq(Requests) /\ reply' \in Replies
    BY <1>0, <2>1, <2>a, AskType
  <2> QED BY <1>0, <1>1, <2>2, <2>3 DEF RefreshConfig, ServerOnly, ConfigType
<1>2. CASE OnLoaded
  <2>1. CASE AbortFailedRefresh
    BY <1>0, <1>2, <2>1, AbortRefreshType DEF OnLoaded, ServerOnly, ConfigType
  <2>2. ASSUME NEW fp \in Prints, NEW usable \in BOOLEAN, NEW next,
               next = [go.next EXCEPT !.fingerprint = fp, !.usable = usable],
               go' = [go EXCEPT !.pc = "activate", !.next = next], Ask("activate", next)
        PROVE  ConfigType'
    <3>1. next \in Catalogs /\ "activate" \in Controls
      BY <1>0, <2>2 DEF Servers, Catalogs, Controls
    <3>2. go' \in Servers
      BY <1>0, <2>2, <3>1 DEF Servers
    <3>3. wire' \in Seq(Requests) /\ reply' \in Replies
      BY <1>0, <2>2, <3>1, AskType
    <3> QED BY <1>0, <1>2, <3>2, <3>3 DEF OnLoaded, ServerOnly, ConfigType
  <2> QED BY <1>2, <2>1, <2>2 DEF OnLoaded, Prints
<1>3. CASE OnActivated
  <2>1. CASE AbortFailedRefresh
    BY <1>0, <1>3, <2>1, AbortRefreshType DEF OnActivated, ServerOnly, ConfigType
  <2>2. ASSUME NEW b \in BOOLEAN, go' = [go EXCEPT !.pc = "commit", !.next.plugins = b], Ask("commit", go.next)
        PROVE  ConfigType'
    <3>1. go.next \in Catalogs /\ "commit" \in Controls /\ [go.next EXCEPT !.plugins = b] \in Catalogs
      BY <1>0 DEF Servers, Catalogs, Controls
    <3>2. go' \in Servers
      BY <1>0, <2>2, <3>1 DEF Servers
    <3>3. wire' \in Seq(Requests) /\ reply' \in Replies
      BY <1>0, <2>2, <3>1, AskType
    <3> QED BY <1>0, <1>3, <3>2, <3>3 DEF OnActivated, ServerOnly, ConfigType
  <2>3. (reply.ready /\ go.next.fingerprint # Plain) \in BOOLEAN
    OBVIOUS
  <2> QED BY <1>3, <2>1, <2>2, <2>3 DEF OnActivated
<1>4. CASE CancelRefresh
  BY <1>0, <1>4, AbortRefreshType DEF CancelRefresh, Fault, ServerOnly, ConfigType
<1>5. CASE OnCommitted
  <2>1. CASE AbortFailedRefresh
    BY <1>0, <1>5, <2>1, AbortRefreshType DEF OnCommitted, ServerOnly, ConfigType
  <2>2. CASE go' = CommitSnapshot /\ reply' = NoReply /\ UNCHANGED wire
    <3>1. go.next \in Catalogs /\ go.next.tx \in Nat
      BY <1>0 DEF Servers, Catalogs
    <3>2. CommitSnapshot \in Servers
      BY <1>b, <3>1 DEF CommitSnapshot, Servers
    <3> QED BY <1>0, <1>5, <1>a, <2>2, <3>2 DEF OnCommitted, ServerOnly, ConfigType
  <2> QED BY <1>5, <2>1, <2>2 DEF OnCommitted
<1>6. CASE OnAborted
  BY <1>0, <1>a, <1>b, <1>6 DEF OnAborted, ServerOnly, ConfigType
<1>7. CASE ControlTimeout
  BY <1>0, <1>a, <1>b, <1>7, AbortRefreshType DEF ControlTimeout, Fault, ServerOnly, ConfigType
<1>8. CASE AskLint
  <2>1. PICK g \in go.generations : wire' = Append(wire, [op |-> "lint", tx |-> g, fingerprint |-> Plain])
    BY <1>8 DEF AskLint
  <2>2. [op |-> "lint", tx |-> g, fingerprint |-> Plain] \in Requests
    BY <1>0 DEF Servers, Requests, Prints
  <2>3. wire' \in Seq(Requests)
    BY <1>0, <2>1, <2>2
  <2> QED BY <1>0, <1>8, <2>3 DEF AskLint, ServerOnly, ConfigType
<1>9. CASE Crash
  <2>1. PICK k \in 0..Len(wire) : wire' = SubSeq(wire, 1, k)
    BY <1>9 DEF Crash
  <2>2. wire' \in Seq(Requests)
    BY <1>0, <2>1
  <2>3. [NewServer EXCEPT !.up = FALSE] \in Servers
    BY <1>a DEF Servers
  <2> QED BY <1>0, <1>a, <1>9, <2>2, <2>3 DEF Crash, Fault, ConfigType
<1>10. CASE Restart
  <2> DEFINE tail == [k \in 1..Cardinality(Orphans) |-> Operation("abort", SetToSeq(Orphans)[k], "reset")]
  <2>1. tail \in Seq(Operations)
    BY ResetType
  <2> HIDE DEF tail
  <2>2. ops' \in Seq(Operations)
    BY <1>0, <1>10, <2>1 DEF Restart, tail
  <2>3. adapter' \in [transactions : SUBSET Nat, active : ActiveMaps] /\ IsFiniteSet(adapter'.transactions)
    BY <1>e, <1>10, FS_EmptySet DEF Restart
  <2> QED BY <1>0, <1>a, <1>10, <2>2, <2>3 DEF Restart, ConfigType
<1>11. CASE HandleRequest
  <2>0. /\ wire' \in Seq(Requests) /\ Head(wire) \in Requests
        /\ UNCHANGED <<go, lastTx, lints, faults, disposed>>
    <3>1. \E op \in {"load", "activate", "commit", "abort", "lint"} : OnRequest(op)
      BY <1>11 DEF HandleRequest, LoadConfigs, ActivateConfigs, CommitConfigs, AbortConfigs, Lint
    <3>2. wire # <<>> /\ wire' = Tail(wire) /\ UNCHANGED <<go, lastTx, lints, faults, disposed>>
      BY <3>1 DEF OnRequest
    <3> QED BY <1>0, <3>2
  <2>1. Head(wire).tx \in Nat /\ Head(wire).fingerprint \in Prints
    BY <2>0 DEF Requests
  <2>2. CASE LoadConfigs
    <3>1. PICK ok \in {TRUE, FALSE} :
             /\ adapter' = IF ok THEN [adapter EXCEPT !.transactions = @ \cup {Head(wire).tx}] ELSE adapter
             /\ Reply("load", Head(wire).tx, ok, FALSE)
      BY <2>2 DEF LoadConfigs
    <3>2. reply' \in Replies
      BY <1>0, <3>1, ReplyType DEF Controls
    <3>3. adapter.transactions \cup {Head(wire).tx} \subseteq Nat /\ IsFiniteSet(adapter.transactions \cup {Head(wire).tx})
      BY <1>0, <2>1, FS_AddElement
    <3>4. adapter' \in [transactions : SUBSET Nat, active : ActiveMaps] /\ IsFiniteSet(adapter'.transactions)
      BY <1>0, <1>e, <3>1, <3>3
    <3> QED BY <1>0, <2>0, <2>2, <3>2, <3>4 DEF LoadConfigs, ConfigType
  <2>3. CASE ActivateConfigs
    <3> DEFINE tx == Head(wire).tx
               fresh == [stage |-> IF tx \in adapter.transactions THEN "summarize" ELSE "undo",
                         fingerprint |-> Head(wire).fingerprint, ready |-> FALSE]
    <3>1. fresh \in Activations
      BY <2>1 DEF Activations
    <3>2. With(adapter.active, tx, fresh) \in ActiveMaps
      BY <1>c, <2>1, <3>1, ActiveMapFacts
    <3>3. reply' \in Replies
      BY <1>0, <2>3, ReplyType DEF ActivateConfigs, Controls
    <3>4. ops' \in Seq(Operations)
      BY <1>0, <2>1, <2>3, EnqueueType DEF ActivateConfigs
    <3>5. adapter' = adapter \/ adapter' = [adapter EXCEPT !.active = With(adapter.active, tx, fresh)]
      BY <2>3 DEF ActivateConfigs
    <3> HIDE DEF tx, fresh
    <3>6. adapter' \in [transactions : SUBSET Nat, active : ActiveMaps] /\ adapter'.transactions = adapter.transactions
      BY <1>0, <1>d, <3>2, <3>5
    <3> QED BY <1>0, <2>0, <3>3, <3>4, <3>6 DEF ConfigType
  <2>4. CASE CommitConfigs
    <3>1. reply' \in Replies /\ ops' \in Seq(Operations)
      BY <1>0, <2>1, <2>4, ReplyType, EnqueueType DEF CommitConfigs, Controls
    <3> QED BY <1>0, <2>0, <2>4, <3>1 DEF CommitConfigs, ConfigType
  <2>5. CASE AbortConfigs
    <3>1. ops' \in Seq(Operations)
      BY <1>0, <2>1, <2>5, EnqueueType DEF AbortConfigs
    <3> QED BY <1>0, <2>0, <2>5, <3>1 DEF AbortConfigs, ConfigType
  <2>6. CASE Lint
    BY <1>0, <2>0, <2>6 DEF Lint, ConfigType
  <2> QED BY <1>11, <2>2, <2>3, <2>4, <2>5, <2>6 DEF HandleRequest
<1>12. CASE Activation
  <2>1. PICK tx \in 1..MaxTx : Summarize(tx) \/ Verify(tx)
    BY <1>12 DEF Activation
  <2>2. tx \in Nat /\ tx \in DOMAIN adapter.active /\ adapter.active[tx] \in Activations
    BY <1>c, <2>1, ActiveMapFacts, BoundsAssumption DEF Summarize, Verify, At
  <2>3. ASSUME NEW w \in {"summarize", "prepare", "verify", "undo"}
        PROVE  Staged(tx, w) \in [transactions : SUBSET Nat, active : ActiveMaps] /\ Staged(tx, w).transactions = adapter.transactions
    <3>1. [adapter.active[tx] EXCEPT !.stage = w] \in Activations
      BY <2>2 DEF Activations
    <3>2. [adapter.active EXCEPT ![tx] = [adapter.active[tx] EXCEPT !.stage = w]] \in ActiveMaps
      BY <1>c, <3>1, ActiveMapUpdate
    <3> QED BY <1>0, <1>d, <3>2 DEF Staged
  <2>4. Without(adapter.active, {tx}) \in ActiveMaps
    BY <1>c, ActiveMapFacts
  <2>5. ops' \in Seq(Operations)
    BY <1>0, <2>1, <2>2, EnqueueType DEF Summarize, Verify
  <2>6. reply' \in Replies
    <3>1. adapter.active[tx].ready \in BOOLEAN
      BY <2>2 DEF Activations
    <3> QED BY <1>0, <2>1, <3>1, ReplyType DEF Summarize, Verify, Controls
  <2>7. adapter' \in [transactions : SUBSET Nat, active : ActiveMaps] /\ adapter'.transactions = adapter.transactions
    BY <1>d, <2>1, <2>3, <2>4 DEF Summarize, Verify
  <2> QED BY <1>0, <2>1, <2>5, <2>6, <2>7 DEF Summarize, Verify, ExtensionOnly, ConfigType
<1>13. CASE RunOperation
  <2>0. ops' \in Seq(Operations) /\ Head(ops) \in Operations /\ ExtensionOnly
    <3>1. ops # <<>> /\ ops' = Tail(ops) /\ ExtensionOnly
      BY <1>13 DEF RunOperation, RunPrepare, RunCommit, RunAbort, RunDispose, Settles
    <3> QED BY <1>0, <3>1
  <2>1. CASE RunPrepare
    <3> DEFINE tx == Head(ops).tx
               one == [adapter EXCEPT !.active[tx].stage = "verify"]
    <3>1. PICK r \in BOOLEAN : adapter' = [one EXCEPT !.active[tx].ready = r]
      BY <2>1 DEF RunPrepare
    <3> HIDE DEF tx
    <3>2. one \in [transactions : SUBSET Nat, active : ActiveMaps] /\ one.transactions = adapter.transactions
      <4>1. tx \in DOMAIN adapter.active => [adapter.active[tx] EXCEPT !.stage = "verify"] \in Activations
        BY <1>c, ActiveMapFacts DEF Activations
      <4>2. [adapter.active EXCEPT ![tx] = [adapter.active[tx] EXCEPT !.stage = "verify"]] \in ActiveMaps
        BY <1>c, <4>1, ActiveMapUpdate
      <4> QED BY <1>0, <4>2
    <3> HIDE DEF one
    <3>3. adapter' \in [transactions : SUBSET Nat, active : ActiveMaps] /\ adapter'.transactions = one.transactions
      <4>1. tx \in DOMAIN one.active => [one.active[tx] EXCEPT !.ready = r] \in Activations
        BY <3>2, ActiveMapFacts DEF Activations
      <4>2. [one.active EXCEPT ![tx] = [one.active[tx] EXCEPT !.ready = r]] \in ActiveMaps
        BY <3>2, <4>1, ActiveMapUpdate
      <4> QED BY <3>1, <3>2, <4>2
    <3> QED BY <1>0, <2>0, <2>1, <3>2, <3>3 DEF RunPrepare, ExtensionOnly, ConfigType
  <2>2. CASE RunCommit
    <3>1. reply' \in Replies
      <4>1. (~disposed /\ Routed(pool, Head(ops).tx)) \in BOOLEAN
        OBVIOUS
      <4> QED BY <1>0, <2>2, <4>1, ReplyType DEF RunCommit, Controls
    <3>2. adapter' = adapter \/ adapter' = Cleaned(Head(ops).tx)
      BY <2>2 DEF RunCommit
    <3> QED BY <1>0, <1>f, <2>0, <3>1, <3>2 DEF ExtensionOnly, ConfigType
  <2>3. CASE RunAbort
    <3> DEFINE tx == Head(ops).tx
    <3>1. reply' \in Replies
      BY <1>0, <2>3, ReplyType DEF RunAbort, Undone, Controls
    <3>2. \/ adapter' = adapter \/ adapter' = Cleaned(tx)
          \/ adapter' = [Cleaned(tx) EXCEPT !.active = Without(@, {tx})]
      BY <2>3 DEF RunAbort
    <3>3. Without(Cleaned(tx).active, {tx}) \in ActiveMaps
      BY <1>f, ActiveMapFacts
    <3>4. /\ [Cleaned(tx) EXCEPT !.active = Without(@, {tx})] \in [transactions : SUBSET Nat, active : ActiveMaps]
          /\ IsFiniteSet([Cleaned(tx) EXCEPT !.active = Without(@, {tx})].transactions)
      BY <1>f, <3>3
    <3> QED BY <1>0, <1>f, <2>0, <3>1, <3>2, <3>4 DEF ExtensionOnly, ConfigType
  <2>4. CASE RunDispose
    BY <1>0, <2>0, <2>4 DEF RunDispose, ExtensionOnly, ConfigType
  <2> QED BY <1>13, <2>1, <2>2, <2>3, <2>4 DEF RunOperation
<1>14. CASE Recheck
  BY <1>0, <1>14 DEF Recheck, ConfigType
<1>15. CASE Hosts
  BY <1>0, <1>15 DEF Hosts, ReleaseLint, Expire, PoolOnly, ConfigType
<1>16. CASE DisposeRuntime
  <2>1. ops' \in Seq(Operations)
    BY <1>0, <1>16, EnqueueType DEF DisposeRuntime, None
  <2>2. adapter' \in [transactions : SUBSET Nat, active : ActiveMaps] /\ IsFiniteSet(adapter'.transactions)
    BY <1>e, <1>16, FS_EmptySet DEF DisposeRuntime
  <2> QED BY <1>0, <1>16, <2>1, <2>2 DEF DisposeRuntime, ConfigType
<1>17. CASE UNCHANGED vars
  BY <1>17 DEF vars, ConfigType
<1> QED
  BY <1>1, <1>2, <1>3, <1>4, <1>5, <1>6, <1>7, <1>8, <1>9, <1>10, <1>11, <1>12, <1>13, <1>14, <1>15, <1>16, <1>17
     DEF Next, Refresh, Extension

\* The server, the wire, the adapter and the chain of operations stay within their types, for
\* any number of transactions, faults and lints.
THEOREM TypeCorrect == Spec => []ConfigType
<1>1. Init => ConfigType
  <2>1. <<>> \in ActiveMaps
    <3>1. <<>> \in [{} -> Activations]
      OBVIOUS
    <3> QED BY <3>1 DEF ActiveMaps
  <2>2. NewServer \in Servers /\ NoReply \in Replies
    BY DEF NewServer, Servers, NoCatalog, Catalogs, Prints, NoReply, Replies, Controls, None
  <2>3. [transactions |-> {}, active |-> <<>>] \in [transactions : SUBSET Nat, active : ActiveMaps]
    BY <2>1
  <2>4. [transactions |-> {}, active |-> <<>>].transactions = {} /\ IsFiniteSet({})
    BY FS_EmptySet
  <2> SUFFICES ASSUME Init PROVE ConfigType
    OBVIOUS
  <2>5. IsFiniteSet(adapter.transactions) /\ adapter \in [transactions : SUBSET Nat, active : ActiveMaps]
    BY <2>3, <2>4 DEF Init
  <2>6. lastTx \in Nat /\ lints \in Nat /\ faults \in Nat /\ disposed \in BOOLEAN
    BY DEF Init, None
  <2>7. wire \in Seq(Requests) /\ ops \in Seq(Operations)
    BY DEF Init
  <2>8. go \in Servers /\ reply \in Replies
    BY <2>2 DEF Init
  <2> QED BY <2>5, <2>6, <2>7, <2>8 DEF ConfigType
<1> QED BY <1>1, TypeStep, PTL DEF Spec

-----------------------------------------------------------------------------
(* Leases and disposal.                                                    *)

NoDispose(s) == \A k \in DOMAIN s : s[k].op # "dispose"

\* Until the pool is disposed no host of it is shut down; from then on it stays empty.
PoolInv ==
    /\ Calm(pool) \/ (disposed /\ Emptied(pool))
    /\ disposed /\ NoDispose(ops) => Emptied(pool)
    /\ ~disposed => NoDispose(ops)

\* Lints of a disposed extension take no lease.
LEMMA LintNowInv ==
    ASSUME PoolInv, NEW g, LintNow(g), UNCHANGED <<disposed, ops>>
    PROVE  PoolInv'
BY LeaseCalm DEF PoolInv, LintNow

\* Every step keeps it.
LEMMA PoolStep == ConfigType /\ PoolInv /\ [Next]_vars => PoolInv'
<1> SUFFICES ASSUME ConfigType, PoolInv, [Next]_vars PROVE PoolInv'
  OBVIOUS
<1>0. ops \in Seq(Operations) /\ disposed \in BOOLEAN
  BY DEF ConfigType
<1>1. CASE UNCHANGED <<pool, ops, disposed>>
  BY <1>1 DEF PoolInv
<1>2. ASSUME UNCHANGED <<pool, disposed>>, NEW op, NEW tx, NEW by, op # "dispose", Enqueue(op, tx, by) PROVE PoolInv'
  <2>0. ops' = Append(ops, Operation(op, tx, by)) /\ Operation(op, tx, by).op # "dispose"
    BY <1>2 DEF Enqueue, Operation
  <2>1. NoDispose(ops') <=> NoDispose(ops)
    BY <1>0, <2>0 DEF NoDispose
  <2> QED BY <1>2, <2>1 DEF PoolInv
<1>3. CASE RefreshConfig \/ Refresh \/ CancelRefresh \/ AskLint \/ Crash \/ UNCHANGED vars
  BY <1>1, <1>3 DEF RefreshConfig, Refresh, OnLoaded, OnActivated, OnCommitted, OnAborted, ControlTimeout, CancelRefresh,
     AskLint, Crash, ServerOnly, vars
<1>4. CASE LoadConfigs \/ ActivateConfigs \/ CommitConfigs \/ AbortConfigs
  BY <1>1, <1>2, <1>4 DEF LoadConfigs, ActivateConfigs, CommitConfigs, AbortConfigs, OnRequest
<1>5. CASE Activation
  BY <1>1, <1>2, <1>5 DEF Activation, Summarize, Verify, ExtensionOnly
<1>6. CASE Lint \/ Recheck
  BY <1>1, <1>6, LintNowInv DEF Lint, Recheck, OnRequest
<1>7. CASE Restart
  <2> DEFINE tail == [k \in 1..Cardinality(Orphans) |-> Operation("abort", SetToSeq(Orphans)[k], "reset")]
  <2>1. UNCHANGED pool /\ ~disposed /\ ~disposed' /\ ops' = ops \o tail
    BY <1>7 DEF Restart
  <2>2. tail \in Seq(Operations)
    BY ResetType
  <2>3. Cardinality(Orphans) \in Nat /\ Len(tail) = Cardinality(Orphans)
    BY <2>2, SetToSeqFacts DEF ConfigType, Orphans
  <2>4. \A k \in 1..Len(tail) : tail[k].op # "dispose"
    BY <2>3 DEF Operation
  <2> HIDE DEF tail
  <2>5. NoDispose(ops')
    <3>1. NoDispose(ops)
      BY <2>1 DEF PoolInv
    <3>2. \A k \in DOMAIN ops' : ops'[k] = IF k <= Len(ops) THEN ops[k] ELSE tail[k - Len(ops)]
      BY <1>0, <2>1, <2>2
    <3>3. Len(ops') = Len(ops) + Len(tail) /\ DOMAIN ops' = 1..Len(ops') /\ DOMAIN ops = 1..Len(ops)
      BY <1>0, <2>1, <2>2
    <3>4. Len(ops) \in Nat /\ Len(tail) \in Nat
      BY <1>0, <2>3
    <3> QED BY <2>4, <3>1, <3>2, <3>3, <3>4 DEF NoDispose
  <2> QED BY <2>1, <2>5 DEF PoolInv
<1>8. CASE DisposeRuntime
  <2>1. UNCHANGED pool /\ ~disposed /\ disposed' /\ ops' = Append(ops, Operation("dispose", None, "close"))
    BY <1>8 DEF DisposeRuntime, Enqueue
  <2>2. ~NoDispose(ops')
    <3>1. Len(ops) + 1 \in DOMAIN ops' /\ ops'[Len(ops) + 1] = Operation("dispose", None, "close")
      BY <1>0, <2>1
    <3> QED BY <3>1 DEF NoDispose, Operation
  <2> QED BY <2>1, <2>2 DEF PoolInv
<1>9. ASSUME NEW op \in {"prepare", "commit", "abort"}, Settles(op)
      PROVE  UNCHANGED disposed /\ (NoDispose(ops') <=> NoDispose(ops))
  <2>1. ops # <<>> /\ Head(ops).op # "dispose" /\ ops' = Tail(ops) /\ UNCHANGED disposed
    BY <1>9 DEF Settles, ExtensionOnly
  <2>2. ASSUME NEW k \in DOMAIN ops, NoDispose(ops') PROVE ops[k].op # "dispose"
    <3>1. CASE k = 1
      BY <1>0, <2>1, <3>1
    <3>2. CASE k # 1
      <4>1. k - 1 \in DOMAIN ops' /\ ops'[k - 1] = ops[k]
        BY <1>0, <2>1, <3>2
      <4> QED BY <2>2, <4>1 DEF NoDispose
    <3> QED BY <3>1, <3>2
  <2>3. \A k \in DOMAIN ops' : k + 1 \in DOMAIN ops /\ ops'[k] = ops[k + 1]
    BY <1>0, <2>1
  <2> QED BY <2>1, <2>2, <2>3 DEF NoDispose
<1>10. CASE RunPrepare
  <2>1. UNCHANGED disposed /\ (NoDispose(ops') <=> NoDispose(ops))
    BY <1>9, <1>10 DEF RunPrepare
  <2>2. pool' = pool \/ (~disposed /\ \E g, fp, plugins, built : pool' = Prepare(pool, g, fp, plugins, built))
    BY <1>10 DEF RunPrepare, Install
  <2> QED BY <2>1, <2>2, PrepareCalm DEF PoolInv
<1>11. CASE RunCommit
  <2>1. UNCHANGED disposed /\ (NoDispose(ops') <=> NoDispose(ops))
    BY <1>9, <1>11 DEF RunCommit
  <2>2. pool' = pool \/ (~disposed /\ pool' = Commit(pool, Head(ops).tx))
    BY <1>11 DEF RunCommit
  <2> QED BY <2>1, <2>2, CommitCalm DEF PoolInv
<1>12. CASE RunAbort
  <2>1. UNCHANGED disposed /\ (NoDispose(ops') <=> NoDispose(ops))
    BY <1>9, <1>12 DEF RunAbort
  <2>2. pool' = Abort(pool, Head(ops).tx)
    BY <1>12 DEF RunAbort
  <2> QED BY <2>1, <2>2, AbortCalm, AbortEmptied DEF PoolInv
<1>13. CASE RunDispose
  <2>1. ops # <<>> /\ Head(ops).op = "dispose" /\ pool' = Dispose(pool) /\ UNCHANGED disposed
    BY <1>13 DEF RunDispose, Settles, ExtensionOnly
  <2>2. disposed
    <3>1. 1 \in DOMAIN ops /\ ops[1] = Head(ops)
      BY <1>0, <2>1
    <3> QED BY <2>1, <3>1 DEF PoolInv, NoDispose
  <2> QED BY <2>1, <2>2, DisposeEmpties DEF PoolInv
<1>14. CASE Hosts
  <2>1. UNCHANGED <<ops, disposed>>
    BY <1>14 DEF Hosts, ReleaseLint, Expire, PoolOnly
  <2>2. CASE \E h \in DOMAIN pool.hosts : ReleaseLint(h)
    BY <2>1, <2>2, ReleaseCalm, ReleaseEmptied DEF ReleaseLint, PoolInv
  <2>3. CASE \E g \in 1..MaxTx : Expire(g)
    <3>1. PICK g \in 1..MaxTx : Timed(pool, g) /\ pool' = CompleteRetirement(pool, g)
      BY <2>3 DEF Expire
    <3>2. ~Emptied(pool)
      BY <3>1 DEF Emptied, Timed
    <3> QED BY <2>1, <3>1, <3>2, CompleteRetirementCalm DEF PoolInv
  <2> QED BY <1>14, <2>2, <2>3 DEF Hosts
<1> QED
  BY <1>3, <1>4, <1>5, <1>6, <1>7, <1>8, <1>10, <1>11, <1>12, <1>13, <1>14
     DEF Next, Extension, HandleRequest, RunOperation

\* A host is shut down under a running lint only by disposal: retirement, aborts, superseding
\* commits, a full grace history and a server crash all wait for its leases (PluginLintPool
\* retire, lint's finally).
THEOREM LeasesKept == Spec => []LeasesHold
<1>1. Init => PoolInv
  BY DEF Init, PoolInv, Calm, IsPool, PoolFields, NewPool, NoDispose
<1>2. PoolInv => LeasesHold
  BY DEF PoolInv, LeasesHold, Calm
<1> QED BY <1>1, <1>2, PoolStep, TypeCorrect, PTL DEF Spec

\* Once the runtime is disposed and the pool's own dispose has run, nothing is routed and every
\* host left is shut down, and no activation, commit, abort, lint or timer that was still under
\* way starts or keeps one (PluginLintPool.dispose, the opChain, ConfigTransactionAdapter).
THEOREM NothingSurvives == Spec => []NothingSurvivesDispose
<1>1. Init => PoolInv
  BY DEF Init, PoolInv, Calm, IsPool, PoolFields, NewPool, NoDispose
<1>2. PoolInv => NothingSurvivesDispose
  BY DEF PoolInv, NothingSurvivesDispose, Emptied, NoDispose
<1> QED BY <1>1, <1>2, PoolStep, TypeCorrect, PTL DEF Spec
=============================================================================
