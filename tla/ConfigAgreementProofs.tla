------------------------ MODULE ConfigAgreementProofs ------------------------
(***************************************************************************)
(* Agreement between the server's committed catalog and the extension's    *)
(* generations, that what is committed is served, and that no generation   *)
(* or host is left behind, for any number of transactions, lints, crashes  *)
(* and control timeouts.                                                   *)
(*                                                                         *)
(* The argument: every control request has its place in one order (load,   *)
(* activate, commit, abort of a transaction, then the next transaction),   *)
(* the wire and the chain of operations hold them in that order, and a     *)
(* commit the server has given up is followed by its abort before the next *)
(* commit.  So a commit runs in the pool only when the active generation   *)
(* is settled, and what the server has committed is the active generation  *)
(* or the one that the pending abort will restore.  Every other generation *)
(* is in its grace period, or has an owner that will still commit or abort *)
(* it.                                                                     *)
(***************************************************************************)
EXTENDS ConfigTransactionProofs

-----------------------------------------------------------------------------
(* The order of control requests, on the wire w and in the chain o.        *)

Rank(op) == CASE op = "load" -> 0 [] op = "activate" -> 1 [] op = "commit" -> 2 [] OTHER -> 3
Key(r) == 4 * r.tx + Rank(r.op)

Control(r) == r.op # "lint"
Requested(r) == r.by = "request"

Ordered(w, o) ==
    /\ \A i, j \in DOMAIN w : Control(w[i]) /\ Control(w[j]) /\ i < j => Key(w[i]) < Key(w[j])
    /\ \A i, j \in DOMAIN o : Requested(o[i]) /\ Requested(o[j]) /\ i < j => Key(o[i]) < Key(o[j])
    /\ \A i \in DOMAIN o, j \in DOMAIN w : Requested(o[i]) /\ Control(w[j]) => Key(o[i]) < Key(w[j])

\* No request beyond m, and all of a transaction.
Within(w, o, m) ==
    /\ \A i \in DOMAIN w : Control(w[i]) => 0 < w[i].tx /\ Key(w[i]) <= m
    /\ \A i \in DOMAIN o : Requested(o[i]) => 0 < o[i].tx /\ Key(o[i]) <= m

Above(w, m) == \A i \in DOMAIN w : Control(w[i]) => m < Key(w[i])
Quiet(w) == \A i \in DOMAIN w : ~Control(w[i])
Unasked(o) == \A i \in DOMAIN o : ~Requested(o[i])

Wired(w, op, tx) == \E k \in DOMAIN w : w[k].op = op /\ w[k].tx = tx
Queued(o, op, tx, by) == \E k \in DOMAIN o : o[k] = Operation(op, tx, by)

\* What the chain holds before disposal.
Shapes == {<<"prepare", "activate">>, <<"commit", "request">>, <<"abort", "request">>, <<"abort", "undo">>, <<"abort", "reset">>}
Shaped(o) == \A k \in DOMAIN o : <<o[k].op, o[k].by>> \in Shapes

\* The aborts of a restart come last.
Resetting(o) == \E k \in DOMAIN o : o[k].by = "reset"
ResetsLast(o) ==
    /\ \A i, j \in DOMAIN o : o[i].by = "reset" /\ i < j => ~Requested(o[j])
    /\ \A i \in DOMAIN o : o[i].by = "reset" => 0 < o[i].tx

Sent(op, tx) == Wired(wire, op, tx) \/ Queued(ops, op, tx, "request")
ResetPending(tx) == Queued(ops, "abort", tx, "reset")
Busy == go.pc # "idle"

\* The last request there can be so far.
Limit == 4 * lastTx + (IF Busy THEN Rank(go.pc) ELSE 3)

OrderInv ==
    /\ Busy => go.up /\ go.next.tx = lastTx /\ lastTx > 0
    /\ reply.op # "none" => reply.op = go.pc
    /\ Ordered(wire, ops) /\ Within(wire, ops, Limit) /\ Shaped(ops)
    /\ reply.op = "commit" => Quiet(wire) /\ Unasked(ops)

\* The new server waits for the aborts of the restart.
ResetInv ==
    /\ ResetsLast(ops)
    /\ Resetting(ops) => ~Busy /\ go.committed.tx = None /\ adapter.transactions = {} /\ Quiet(wire)

-----------------------------------------------------------------------------
(* Sessions: the transactions of the adapter, and those still to be loaded. *)

Live(tx) == tx \in adapter.transactions \/ Wired(wire, "load", tx)

\* What the server no longer waits for is followed by its abort.
SessionInv ==
    /\ \A t \in adapter.transactions : 0 < t /\ pool.active < t /\ t <= lastTx
    /\ go.up => \A t \in Nat : Live(t) => (t = lastTx /\ go.pc \in {"load", "activate", "commit"}) \/ Sent("abort", t)
    /\ go.up => \A t \in Nat : Sent("commit", t) => (t = lastTx /\ go.pc = "commit") \/ Sent("abort", t) \/ ResetPending(t)
    /\ \A t, d \in Nat : Sent("commit", d) /\ (Live(t) \/ Sent("commit", t)) /\ t < d => Sent("abort", t)
    /\ \A t \in Nat : Sent("commit", t) => t \in adapter.transactions \/ ResetPending(t)
    /\ reply.op = "activate" /\ reply.ok => lastTx \in adapter.transactions

-----------------------------------------------------------------------------
(* Activations.                                                            *)

Activating(tx) == tx \in DOMAIN adapter.active \/ Wired(wire, "activate", tx)
Mine(r) == r.by \in {"activate", "undo"}
StageOf(r) == IF r.by = "activate" THEN "prepare" ELSE "undo"

ActivationInv ==
    /\ \A t \in DOMAIN adapter.active : 0 < t /\ 4 * t + 1 <= Limit /\ Above(wire, 4 * t + 1)
    /\ \A k \in DOMAIN ops : Mine(ops[k]) => At(ops[k].tx, StageOf(ops[k]))
    /\ \A i, j \in DOMAIN ops : Mine(ops[i]) /\ Mine(ops[j]) /\ i # j => ops[i].tx # ops[j].tx
    /\ \A t \in Nat : Sent("commit", t) => ~Activating(t)
    /\ go.pc = "commit" \/ reply.op = "activate" => ~Activating(lastTx)
    /\ ~Activating(pool.active) /\ ~Activating(pool.rollback.previous)
    /\ go.pc = "activate" =>
         /\ lastTx \in DOMAIN adapter.active => adapter.active[lastTx].fingerprint = go.next.fingerprint
         /\ \A k \in DOMAIN wire : wire[k].op = "activate" /\ wire[k].tx = lastTx => wire[k].fingerprint = go.next.fingerprint

-----------------------------------------------------------------------------
(* The pool.                                                               *)

\* A generation leads to a ready host with the given plugins.
Serves(p, t, fp) ==
    Routed(p, t) /\ p.hosts[p.generations[t]].ready /\ p.hosts[p.generations[t]].fingerprint = fp

\* Superseded generations are older than this one.
Floor(p) == IF p.rollback.generation # None THEN p.rollback.previous ELSE p.active

Sound(p) ==
    /\ Calm(p)
    /\ \A g \in DOMAIN p.generations : p.generations[g] \in DOMAIN p.hosts /\ ~p.hosts[p.generations[g]].retiring
    /\ \A h \in DOMAIN p.hosts : p.hosts[h].ready /\ p.hosts[h].fingerprint # Plain => p.hosts[h].host
    /\ None \notin DOMAIN p.generations /\ None \notin DOMAIN p.hosts
    /\ IF p.active = None THEN p.activeState = None
       ELSE Routed(p, p.active) /\ p.generations[p.active] = p.activeState
    /\ IF p.rollback.generation = None THEN p.rollback = NoRollback
       ELSE p.rollback.generation = p.active /\ p.rollback.previous < p.active
    /\ IF p.rollback.previous = None THEN p.rollback.state = None
       ELSE Routed(p, p.rollback.previous) /\ p.generations[p.rollback.previous] = p.rollback.state
    /\ p.active \in Nat /\ p.rollback.previous \in Nat
    /\ IsFiniteSet(DOMAIN p.timers) /\ DOMAIN p.timers \subseteq Nat
    /\ \A g \in DOMAIN p.timers : p.timers[g] \in Nat /\ g < Floor(p)

\* From p to q generations are lost only from S, and new generations and hosts are only in N.
Keeps(p, q, S, N) ==
    /\ DOMAIN q.generations \subseteq DOMAIN p.generations \cup N
    /\ DOMAIN q.hosts \subseteq DOMAIN p.hosts \cup N
    /\ \A x \in DOMAIN p.generations \ S :
         /\ x \in DOMAIN q.generations /\ q.generations[x] = p.generations[x]
         /\ q.hosts[p.generations[x]].ready <=> p.hosts[p.generations[x]].ready
         /\ q.hosts[p.generations[x]].fingerprint = p.hosts[p.generations[x]].fingerprint

\* The generations the pool itself has a use for.
Kept(p) == {p.active, p.rollback.previous} \cup DOMAIN p.timers

\* A host is routed, or it is retiring and finishes its lints.
Wanted(p, h) == Referenced(p, h) \/ (p.hosts[h].retiring /\ p.hosts[h].activeLints > 0)
Led(p) == \A h \in DOMAIN p.hosts : Wanted(p, h)

\* The grace history is not too long.
Brief(p) == Cardinality(DOMAIN p.timers) <= MaxGrace

\* From p to q the pool gains no generation, and stops having a use only for those that are gone.
Drops(p, q) ==
    /\ DOMAIN q.generations \subseteq DOMAIN p.generations
    /\ \A x \in DOMAIN q.generations : x \in Kept(p) => x \in Kept(q)

\* Which transactions the pool knows of, and what may still happen to them.
KnownInv ==
    /\ \A t \in DOMAIN pool.generations \cup DOMAIN pool.hosts :
         /\ t \in Nat /\ t <= lastTx /\ ~(go.pc = "load" /\ t = lastTx)
         /\ ~Wired(wire, "activate", t)
         /\ t \in DOMAIN adapter.active => adapter.active[t].stage \in {"verify", "undo"}
    /\ pool.active <= lastTx /\ (go.pc \in {"load", "activate"} => pool.active < lastTx)
    /\ Above(wire, 4 * pool.active + 2)
    /\ \A d \in Nat : Sent("commit", d) => pool.active < d
    /\ pool.rollback.previous # None =>
         ~Sent("abort", pool.rollback.previous) /\ ~ResetPending(pool.rollback.previous)
    /\ pool.rollback.generation = None /\ pool.active # None =>
         pool.active < lastTx /\ ~Sent("abort", pool.active) /\ ~ResetPending(pool.active)
    /\ \A d \in Nat : Sent("commit", d) /\ ResetPending(pool.active) => Sent("abort", pool.active)

-----------------------------------------------------------------------------
(* The committed catalog.                                                  *)

CommittedInv ==
    /\ go.committed.tx <= lastTx /\ (Busy => go.committed.tx < lastTx)
    /\ go.committed.tx # None =>
         /\ go.up /\ go.committed.tx \in {pool.active, pool.rollback.previous}
         /\ ~Sent("abort", go.committed.tx)
         /\ pool.active # go.committed.tx => (go.pc = "commit" /\ pool.active = lastTx) \/ Sent("abort", pool.active)
    /\ reply.op = "commit" /\ reply.ok => pool.active = lastTx

\* A ready activation and what came of it are served.
ServedInv ==
    /\ \A t \in adapter.transactions :
         At(t, "verify") /\ adapter.active[t].ready => Serves(pool, t, adapter.active[t].fingerprint)
    /\ reply.op = "activate" /\ reply.ok /\ reply.ready => Serves(pool, lastTx, go.next.fingerprint)
    /\ go.pc = "commit" /\ go.next.plugins => go.next.fingerprint # Plain /\ Serves(pool, lastTx, go.next.fingerprint)
    /\ go.committed.plugins =>
         go.committed.tx # None /\ go.committed.fingerprint # Plain /\ Serves(pool, go.committed.tx, go.committed.fingerprint)

AgreementInv ==
    ~disposed => OrderInv /\ ResetInv /\ SessionInv /\ ActivationInv /\ Sound(pool) /\ KnownInv /\ CommittedInv /\ ServedInv

-----------------------------------------------------------------------------
(* What the operations of the pool keep.                                   *)

\* A lease, its end and the mark of a retiring host change one host and route as before.
LEMMA HostEdit ==
    ASSUME NEW p, NEW q, NEW h, NEW new, Sound(p), IsPool(q),
           q.hosts = [p.hosts EXCEPT ![h] = new], q.generations = p.generations,
           q.active = p.active, q.activeState = p.activeState, q.rollback = p.rollback, q.timers = p.timers,
           h \in DOMAIN p.hosts => IsHost(new) /\ ~new.shutdown,
           h \in DOMAIN p.hosts => new.fingerprint = p.hosts[h].fingerprint /\ (new.ready <=> p.hosts[h].ready),
           h \in DOMAIN p.hosts => (new.host <=> p.hosts[h].host),
           h \in DOMAIN p.hosts /\ new.retiring => p.hosts[h].retiring \/ ~Referenced(p, h)
    PROVE  Sound(q) /\ Keeps(p, q, {}, {})
<1>1. DOMAIN q.hosts = DOMAIN p.hosts
  OBVIOUS
<1>2. \A x \in DOMAIN p.hosts : q.hosts[x] = IF x = h THEN new ELSE p.hosts[x]
  OBVIOUS
<1>a. Calm(p) /\ (h \in DOMAIN p.hosts => IsHost(new) /\ ~new.shutdown)
  BY DEF Sound
<1>3. Calm(q)
  BY <1>a, HostFieldCalm
<1>4. ASSUME NEW x \in DOMAIN p.hosts
      PROVE  /\ q.hosts[x].fingerprint = p.hosts[x].fingerprint
             /\ (q.hosts[x].ready <=> p.hosts[x].ready) /\ (q.hosts[x].host <=> p.hosts[x].host)
  <2>1. CASE x = h
    BY <1>2, <2>1
  <2>2. CASE x # h
    BY <1>2, <2>2
  <2> QED BY <2>1, <2>2
<1>5. ASSUME NEW g \in DOMAIN p.generations
      PROVE  p.generations[g] \in DOMAIN p.hosts /\ ~q.hosts[p.generations[g]].retiring
  <2>1. p.generations[g] \in DOMAIN p.hosts /\ ~p.hosts[p.generations[g]].retiring
    BY DEF Sound
  <2>2. CASE p.generations[g] = h
    BY <1>2, <2>1, <2>2 DEF Referenced
  <2>3. CASE p.generations[g] # h
    BY <1>2, <2>1, <2>3
  <2> QED BY <2>2, <2>3
<1>6. Keeps(p, q, {}, {})
  BY <1>1, <1>4 DEF Keeps, Sound
<1>7. Sound(q)
  BY <1>1, <1>3, <1>4, <1>5 DEF Sound, Routed, Floor
<1> QED BY <1>6, <1>7

\* What startShutdown leaves when no generation leads to the host and it has no leases.
LEMMA StartShutdownSound ==
    ASSUME NEW p, NEW h \in DOMAIN p.hosts, Sound(p), ~Referenced(p, h), p.hosts[h].activeLints = 0
    PROVE  LET q == StartShutdown(p, h) IN
           /\ Sound(q) /\ Keeps(p, q, {}, {})
           /\ q.active = p.active /\ q.activeState = p.activeState /\ q.rollback = p.rollback
           /\ DOMAIN q.timers = DOMAIN p.timers
<1> DEFINE named == {g \in DOMAIN p.generations : p.generations[g] = h}
           u == Untimed(p, named)
           q == StartShutdown(p, h)
<1>1. named = {}
  BY DEF Referenced
<1>2. IsPool(u) /\ u.hosts = p.hosts /\ u.generations = p.generations /\ u.timers = Without(p.timers, named)
      /\ u.active = p.active /\ u.activeState = p.activeState /\ u.rollback = p.rollback
  BY UntimedFacts DEF Sound, Calm
<1> HIDE DEF u
<1>3. q = [u EXCEPT !.generations = Without(@, named), !.hosts = Without(p.hosts, {h})]
  BY DEF StartShutdown, u
<1> HIDE DEF named
<1>4. /\ IsPool(q) /\ q.hosts = Without(p.hosts, {h}) /\ q.generations = Without(p.generations, named)
      /\ q.timers = Without(p.timers, named)
      /\ q.active = p.active /\ q.activeState = p.activeState /\ q.rollback = p.rollback
  BY <1>2, <1>3 DEF IsPool, PoolFields
<1>5. Calm(q)
  BY StartShutdownCalm DEF Sound
<1> HIDE DEF q
<1>6. /\ DOMAIN q.generations = DOMAIN p.generations /\ DOMAIN q.timers = DOMAIN p.timers
      /\ DOMAIN q.hosts = DOMAIN p.hosts \ {h}
  BY <1>1, <1>4 DEF Without, Restrict
<1>7. /\ \A g \in DOMAIN p.generations : q.generations[g] = p.generations[g] /\ p.generations[g] # h
      /\ \A g \in DOMAIN p.timers : q.timers[g] = p.timers[g]
      /\ \A x \in DOMAIN p.hosts \ {h} : q.hosts[x] = p.hosts[x]
  BY <1>1, <1>4 DEF Without, Restrict, Referenced
<1>8. Keeps(p, q, {}, {})
  BY <1>6, <1>7 DEF Keeps, Sound
<1>a. Floor(q) = Floor(p)
  BY <1>4 DEF Floor
<1>b. \A g \in DOMAIN q.generations : q.generations[g] \in DOMAIN q.hosts /\ ~q.hosts[q.generations[g]].retiring
  BY <1>6, <1>7 DEF Sound
<1>c. \A x \in DOMAIN q.hosts : q.hosts[x].ready /\ q.hosts[x].fingerprint # Plain => q.hosts[x].host
  BY <1>6, <1>7 DEF Sound
<1>d. \A x : Routed(p, x) => Routed(q, x) /\ q.generations[x] = p.generations[x]
  BY <1>6, <1>7 DEF Routed
<1>e. /\ IsFiniteSet(DOMAIN q.timers) /\ DOMAIN q.timers \subseteq Nat
      /\ \A g \in DOMAIN q.timers : q.timers[g] \in Nat /\ g < Floor(q)
  BY <1>6, <1>7, <1>a DEF Sound
<1>f. None \notin DOMAIN q.generations /\ None \notin DOMAIN q.hosts
  BY <1>6 DEF Sound
<1>g. /\ IF q.active = None THEN q.activeState = None
         ELSE Routed(q, q.active) /\ q.generations[q.active] = q.activeState
      /\ IF q.rollback.generation = None THEN q.rollback = NoRollback
         ELSE q.rollback.generation = q.active /\ q.rollback.previous < q.active
      /\ IF q.rollback.previous = None THEN q.rollback.state = None
         ELSE Routed(q, q.rollback.previous) /\ q.generations[q.rollback.previous] = q.rollback.state
      /\ q.active \in Nat /\ q.rollback.previous \in Nat
  BY <1>4, <1>d DEF Sound
<1>9. Sound(q)
  BY <1>5, <1>b, <1>c, <1>e, <1>f, <1>g DEF Sound
<1> QED BY <1>4, <1>6, <1>8, <1>9 DEF q

\* The hosts that startShutdown leaves.
LEMMA StartShutdownHosts ==
    ASSUME NEW p, NEW h, IsPool(p), p.hosts[h].activeLints = 0
    PROVE  \A x \in DOMAIN StartShutdown(p, h).hosts :
              x \in DOMAIN p.hosts /\ x # h /\ StartShutdown(p, h).hosts[x] = p.hosts[x]
<1> DEFINE named == {g \in DOMAIN p.generations : p.generations[g] = h}
           u == Untimed(p, named)
           q == StartShutdown(p, h)
<1>1. IsPool(u)
  BY UntimedFacts
<1> HIDE DEF u
<1>2. q = [u EXCEPT !.generations = Without(@, named), !.hosts = Without(p.hosts, {h})]
  BY DEF StartShutdown, u
<1> HIDE DEF named
<1>3. q.hosts = Without(p.hosts, {h})
  BY <1>1, <1>2 DEF IsPool, PoolFields
<1> HIDE DEF q
<1> QED BY <1>3 DEF Without, Restrict, q

\* Losses add up.
LEMMA KeepsTransitive ==
    ASSUME NEW p, NEW q, NEW r, NEW S, NEW T, NEW N, Keeps(p, q, S, N), Keeps(q, r, T, {})
    PROVE  Keeps(p, r, S \cup T, N)
BY DEF Keeps

\* retire of a host that no generation leads to.
LEMMA RetireSound ==
    ASSUME NEW p, NEW h \in DOMAIN p.hosts, Sound(p), ~Referenced(p, h)
    PROVE  LET q == Retire(p, h) IN
           /\ Sound(q) /\ Keeps(p, q, {}, {})
           /\ q.active = p.active /\ q.activeState = p.activeState /\ q.rollback = p.rollback
           /\ DOMAIN q.timers = DOMAIN p.timers
<1> DEFINE new == [p.hosts[h] EXCEPT !.retiring = TRUE]
           q == [p EXCEPT !.hosts = [p.hosts EXCEPT ![h] = new]]
<1>1. Retire(p, h) = IF q.hosts[h].activeLints = 0 THEN StartShutdown(q, h) ELSE q
  BY DEF Retire
<1>2. /\ IsPool(q) /\ q.hosts = [p.hosts EXCEPT ![h] = new] /\ q.generations = p.generations
      /\ q.active = p.active /\ q.activeState = p.activeState /\ q.rollback = p.rollback /\ q.timers = p.timers
  BY DEF Sound, Calm, IsPool, PoolFields
<1>3. /\ IsHost(new) /\ ~new.shutdown /\ new.fingerprint = p.hosts[h].fingerprint
      /\ (new.ready <=> p.hosts[h].ready) /\ (new.host <=> p.hosts[h].host)
  BY DEF Sound, Calm, IsHost, HostFields
<1> HIDE DEF q, new
<1>4. Sound(q) /\ Keeps(p, q, {}, {})
  BY <1>2, <1>3, HostEdit
<1>5. h \in DOMAIN q.hosts /\ ~Referenced(q, h)
  BY <1>2 DEF Referenced
<1>6. CASE q.hosts[h].activeLints = 0
  <2> DEFINE r == StartShutdown(q, h)
  <2>1. /\ Sound(r) /\ Keeps(q, r, {}, {})
        /\ r.active = q.active /\ r.activeState = q.activeState /\ r.rollback = q.rollback
        /\ DOMAIN r.timers = DOMAIN q.timers
    BY <1>4, <1>5, <1>6, StartShutdownSound
  <2>2. Retire(p, h) = r
    BY <1>1, <1>6
  <2> HIDE DEF r
  <2>3. Keeps(p, r, {} \cup {}, {})
    BY <1>4, <2>1, KeepsTransitive
  <2> QED BY <1>2, <2>1, <2>2, <2>3
<1>7. CASE q.hosts[h].activeLints # 0
  BY <1>1, <1>2, <1>4, <1>7
<1> QED BY <1>6, <1>7

\* Hosts and routes alone say which hosts are wanted.
LEMMA LedSame ==
    ASSUME NEW p, NEW q, Led(p), q.hosts = p.hosts, q.generations = p.generations
    PROVE  Led(q)
BY DEF Led, Wanted, Referenced

\* What retire does with a host that no generation leads to.
LEMMA RetireHosts ==
    ASSUME NEW p, NEW h \in DOMAIN p.hosts, Sound(p), ~Referenced(p, h)
    PROVE  LET q == Retire(p, h) IN
           /\ DOMAIN q.generations = DOMAIN p.generations
           /\ \A x \in DOMAIN p.generations : q.generations[x] = p.generations[x]
           /\ \A x \in DOMAIN q.hosts : /\ x \in DOMAIN p.hosts /\ (x # h => q.hosts[x] = p.hosts[x])
                                        /\ x = h => q.hosts[x].retiring /\ q.hosts[x].activeLints > 0
<1> DEFINE new == [p.hosts[h] EXCEPT !.retiring = TRUE]
           q == [p EXCEPT !.hosts = [p.hosts EXCEPT ![h] = new]]
<1>1. Retire(p, h) = IF q.hosts[h].activeLints = 0 THEN StartShutdown(q, h) ELSE q
  BY DEF Retire
<1>2. /\ IsPool(q) /\ q.hosts = [p.hosts EXCEPT ![h] = new] /\ q.generations = p.generations
  BY DEF Sound, Calm, IsPool, PoolFields
<1>3. new.retiring /\ new.activeLints \in Nat
  BY DEF Sound, Calm, IsHost, HostFields
<1> HIDE DEF q, new
<1>4. /\ q.hosts[h] = new /\ DOMAIN q.hosts = DOMAIN p.hosts
      /\ \A x \in DOMAIN p.hosts : x # h => q.hosts[x] = p.hosts[x]
  BY <1>2
<1>5. CASE q.hosts[h].activeLints = 0
  <2> DEFINE named == {g \in DOMAIN q.generations : q.generations[g] = h}
             u == Untimed(q, named)
             s == StartShutdown(q, h)
  <2>1. named = {}
    BY <1>2 DEF Referenced
  <2>2. IsPool(u) /\ u.hosts = q.hosts /\ u.generations = q.generations
    BY <1>2, UntimedFacts
  <2> HIDE DEF u
  <2>3. s = [u EXCEPT !.generations = Without(@, named), !.hosts = Without(q.hosts, {h})]
    BY <1>5 DEF StartShutdown, u
  <2>4. s.hosts = Without(q.hosts, {h}) /\ s.generations = Without(q.generations, {})
    BY <2>1, <2>2, <2>3 DEF IsPool, PoolFields
  <2>5. Retire(p, h) = s
    BY <1>1, <1>5
  <2> HIDE DEF s, named
  <2>6. DOMAIN s.hosts = DOMAIN p.hosts \ {h} /\ \A x \in DOMAIN s.hosts : s.hosts[x] = q.hosts[x]
    BY <1>4, <2>4 DEF Without, Restrict
  <2>7. /\ DOMAIN s.generations = DOMAIN p.generations
        /\ \A x \in DOMAIN p.generations : s.generations[x] = p.generations[x]
    BY <1>2, <2>4 DEF Without, Restrict
  <2> QED BY <1>4, <2>5, <2>6, <2>7
<1>6. CASE q.hosts[h].activeLints # 0
  <2>1. Retire(p, h) = q
    BY <1>1, <1>6
  <2> QED BY <1>2, <1>3, <1>4, <1>6, <2>1
<1> QED BY <1>5, <1>6

\* retireIfUnreferenced leaves no host behind.
LEMMA RetireLed ==
    ASSUME NEW p, NEW h \in DOMAIN p.hosts, Sound(p), \A x \in DOMAIN p.hosts \ {h} : Wanted(p, x)
    PROVE  LET q == RetireIfUnreferenced(p, h) IN Led(q) /\ DOMAIN q.generations = DOMAIN p.generations
<1>1. CASE Referenced(p, h)
  <2>1. RetireIfUnreferenced(p, h) = p
    BY <1>1 DEF RetireIfUnreferenced
  <2> QED BY <1>1, <2>1 DEF Led, Wanted
<1>2. CASE ~Referenced(p, h)
  <2> DEFINE q == Retire(p, h)
  <2>1. h # None
    BY DEF Sound
  <2>2. h # p.activeState
    <3>1. p.active # None => Routed(p, p.active) /\ p.generations[p.active] = p.activeState
      BY DEF Sound
    <3>2. p.active = None => p.activeState = None
      BY DEF Sound
    <3> QED BY <1>2, <2>1, <3>1, <3>2 DEF Routed, Referenced
  <2>3. RetireIfUnreferenced(p, h) = q
    BY <1>2, <2>1, <2>2 DEF RetireIfUnreferenced
  <2>4. /\ DOMAIN q.generations = DOMAIN p.generations
        /\ \A x \in DOMAIN p.generations : q.generations[x] = p.generations[x]
        /\ \A x \in DOMAIN q.hosts : /\ x \in DOMAIN p.hosts /\ (x # h => q.hosts[x] = p.hosts[x])
                                     /\ x = h => q.hosts[x].retiring /\ q.hosts[x].activeLints > 0
    BY <1>2, RetireHosts
  <2> HIDE DEF q
  <2>5. Led(q)
    BY <2>4 DEF Led, Wanted, Referenced
  <2> QED BY <2>3, <2>4, <2>5
<1> QED BY <1>1, <1>2

\* Forgetting a generation that is neither active nor the one to roll back to: its host retires if
\* this was the last generation to lead to it.
LEMMA ForgetSound ==
    ASSUME NEW p, NEW g \in DOMAIN p.generations, Sound(p), g # p.active, g # p.rollback.previous
    PROVE  LET q == Forget(p, g) IN
           /\ Sound(q) /\ Keeps(p, q, {g}, {}) /\ DOMAIN q.generations = DOMAIN p.generations \ {g}
           /\ Led(p) => Led(q)
           /\ q.active = p.active /\ q.activeState = p.activeState /\ q.rollback = p.rollback
           /\ DOMAIN q.timers = DOMAIN p.timers
<1> DEFINE q == [p EXCEPT !.generations = Without(@, {g})]
           h == p.generations[g]
<1>1. /\ IsPool(q) /\ q.hosts = p.hosts /\ q.generations = Without(p.generations, {g})
      /\ q.active = p.active /\ q.activeState = p.activeState /\ q.rollback = p.rollback /\ q.timers = p.timers
  BY DEF Sound, Calm, IsPool, PoolFields
<1>2. Forget(p, g) = RetireIfUnreferenced(q, h)
  BY DEF Forget
<1> HIDE DEF q
<1>3. /\ DOMAIN q.generations = DOMAIN p.generations \ {g}
      /\ \A x \in DOMAIN p.generations \ {g} : q.generations[x] = p.generations[x]
  BY <1>1 DEF Without, Restrict
<1>4. Keeps(p, q, {g}, {})
  BY <1>1, <1>3 DEF Keeps
<1>a. Floor(q) = Floor(p)
  BY <1>1 DEF Floor
<1>b. Calm(q)
  BY <1>1, CalmHosts DEF Sound
<1>c. \A x : Routed(p, x) /\ x # g => Routed(q, x) /\ q.generations[x] = p.generations[x]
  BY <1>3 DEF Routed
<1>d. \A x \in DOMAIN q.generations : q.generations[x] \in DOMAIN q.hosts /\ ~q.hosts[q.generations[x]].retiring
  BY <1>1, <1>3 DEF Sound
<1>5. Sound(q)
  BY <1>1, <1>3, <1>a, <1>b, <1>c, <1>d, ZenonT(60) DEF Sound
<1>6. h \in DOMAIN q.hosts
  BY <1>1 DEF Sound
<1>9. ASSUME Led(p), NEW x \in DOMAIN q.hosts \ {h} PROVE Wanted(q, x)
  <2>1. Wanted(p, x)
    BY <1>1, <1>9 DEF Led
  <2>2. Referenced(p, x) => Referenced(q, x)
    BY <1>3, <1>9 DEF Referenced
  <2> QED BY <1>1, <2>1, <2>2 DEF Wanted
<1> HIDE DEF h
<1>10. Led(p) => Led(RetireIfUnreferenced(q, h))
  BY <1>5, <1>6, <1>9, RetireLed
<1>7. CASE RetireIfUnreferenced(q, h) = q
  BY <1>1, <1>2, <1>3, <1>4, <1>5, <1>7, <1>10
<1>8. CASE RetireIfUnreferenced(q, h) = Retire(q, h) /\ ~Referenced(q, h)
  <2> DEFINE r == Retire(q, h)
  <2>1. /\ Sound(r) /\ Keeps(q, r, {}, {})
        /\ r.active = q.active /\ r.activeState = q.activeState /\ r.rollback = q.rollback
        /\ DOMAIN r.timers = DOMAIN q.timers
    BY <1>5, <1>6, <1>8, RetireSound
  <2>2. Forget(p, g) = r
    BY <1>2, <1>8
  <2> HIDE DEF r
  <2>3. Keeps(p, r, {g} \cup {}, {})
    BY <1>4, <2>1, KeepsTransitive
  <2>4. DOMAIN r.generations = DOMAIN p.generations \ {g}
    BY <1>3, <2>1 DEF Keeps
  <2> QED BY <1>1, <1>2, <1>10, <2>1, <2>2, <2>3, <2>4
<1> QED BY <1>7, <1>8 DEF RetireIfUnreferenced

\* cancelGenerationRetirement.
LEMMA UntimedSound ==
    ASSUME NEW p, NEW S, Sound(p)
    PROVE  LET q == Untimed(p, S) IN
           /\ Sound(q) /\ Keeps(p, q, {}, {}) /\ DOMAIN q.timers = DOMAIN p.timers \ S
           /\ q.hosts = p.hosts /\ q.generations = p.generations
           /\ q.active = p.active /\ q.activeState = p.activeState /\ q.rollback = p.rollback
<1> DEFINE q == Untimed(p, S)
<1>1. /\ IsPool(q) /\ q.hosts = p.hosts /\ q.generations = p.generations /\ q.timers = Without(p.timers, S)
      /\ q.active = p.active /\ q.activeState = p.activeState /\ q.rollback = p.rollback
  BY UntimedFacts DEF Sound, Calm
<1> HIDE DEF q
<1>2. /\ DOMAIN q.timers = DOMAIN p.timers \ S
      /\ \A g \in DOMAIN q.timers : q.timers[g] = p.timers[g]
  BY <1>1 DEF Without, Restrict
<1>3. Calm(q)
  BY <1>1, CalmHosts DEF Sound
<1>4. Floor(q) = Floor(p)
  BY <1>1 DEF Floor
<1>5. /\ IsFiniteSet(DOMAIN q.timers) /\ DOMAIN q.timers \subseteq Nat
      /\ \A g \in DOMAIN q.timers : q.timers[g] \in Nat /\ g < Floor(q)
  BY <1>2, <1>4, FS_Subset DEF Sound
<1>6. Sound(q)
  BY <1>1, <1>3, <1>5 DEF Sound, Routed
<1>7. Keeps(p, q, {}, {})
  BY <1>1 DEF Keeps
<1> QED BY <1>1, <1>2, <1>6, <1>7 DEF q

\* completeGenerationRetirement of a superseded generation.
LEMMA CompleteRetirementSound ==
    ASSUME NEW p, Sound(p), NEW g \in DOMAIN p.timers
    PROVE  LET q == CompleteRetirement(p, g) IN
           /\ Sound(q) /\ Keeps(p, q, {g}, {}) /\ g < p.active /\ g \in Nat
           /\ DOMAIN q.generations = DOMAIN p.generations \ {g} /\ DOMAIN q.timers = DOMAIN p.timers \ {g}
           /\ Led(p) => Led(q)
           /\ q.active = p.active /\ q.activeState = p.activeState /\ q.rollback = p.rollback
<1> DEFINE u == Untimed(p, {g})
<1>1. /\ Sound(u) /\ Keeps(p, u, {}, {}) /\ DOMAIN u.timers = DOMAIN p.timers \ {g}
      /\ u.hosts = p.hosts /\ u.generations = p.generations
      /\ u.active = p.active /\ u.activeState = p.activeState /\ u.rollback = p.rollback
  BY UntimedSound
<1>2. CompleteRetirement(p, g) = IF g = p.active \/ ~Routed(p, g) THEN u ELSE Forget(u, g)
  BY DEF CompleteRetirement
<1> HIDE DEF u
<1>3. g < p.active /\ g \in Nat /\ (g # p.rollback.previous \/ g = None)
  BY DEF Sound, Floor, NoRollback, None
<1>6. Led(p) => Led(u)
  BY <1>1, LedSame
<1>4. CASE ~Routed(p, g)
  <2>1. Keeps(p, u, {g}, {})
    BY <1>1 DEF Keeps
  <2>2. DOMAIN u.generations = DOMAIN p.generations \ {g}
    BY <1>1, <1>4 DEF Routed
  <2> QED BY <1>1, <1>2, <1>3, <1>4, <1>6, <2>1, <2>2
<1>5. CASE Routed(p, g)
  <2> DEFINE q == Forget(u, g)
  <2>1. g \in DOMAIN u.generations /\ g # u.active /\ g # u.rollback.previous
    BY <1>1, <1>3, <1>5 DEF Sound, Routed
  <2>2. /\ Sound(q) /\ Keeps(u, q, {g}, {}) /\ DOMAIN q.generations = DOMAIN u.generations \ {g}
        /\ DOMAIN q.timers = DOMAIN u.timers /\ (Led(u) => Led(q))
        /\ q.active = u.active /\ q.activeState = u.activeState /\ q.rollback = u.rollback
    BY <1>1, <2>1, ForgetSound
  <2>3. CompleteRetirement(p, g) = q
    BY <1>1, <1>2, <1>5, <2>1
  <2> HIDE DEF q
  <2>4. Keeps(p, q, {} \cup {g}, {})
    BY <1>1, <2>2, KeepsTransitive
  <2> QED BY <1>1, <1>3, <1>6, <2>2, <2>3, <2>4
<1> QED BY <1>4, <1>5

-----------------------------------------------------------------------------
(* The oldest timer and the next place exist.                              *)

Less == {ss \in Nat \X Nat : ss[1] < ss[2]}

\* A set of naturals that is not empty has a least element.
LEMMA LeastExists ==
    ASSUME NEW S \in SUBSET Nat, S # {}
    PROVE  \E x \in S : \A y \in S : x <= y
<1>1. Less = OpToRel(<, Nat)
  BY DEF Less, OpToRel
<1>2. IsWellFoundedOn(Less, Nat)
  BY <1>1, NatLessThanWellFounded
<1>3. PICK x \in S : \A y \in S : ~ (<<y, x>> \in Less)
  BY <1>2, WFMin
<1>4. ASSUME NEW y \in S PROVE x <= y
  <2>1. x \in Nat /\ y \in Nat /\ ~ (<<y, x>> \in Less)
    BY <1>3
  <2> QED BY <2>1 DEF Less
<1> QED BY <1>4

\* Induction over the naturals, for a set.
LEMMA NatSets ==
    ASSUME NEW S \in SUBSET Nat, 0 \in S, \A n \in S : n + 1 \in S
    PROVE  S = Nat
<1> SUFFICES ASSUME S # Nat PROVE FALSE
  OBVIOUS
<1>1. PICK x \in Nat \ S : \A y \in Nat \ S : x <= y
  BY LeastExists
<1>2. x \in Nat /\ x # 0 /\ x - 1 \in Nat
  BY <1>1
<1>3. x - 1 \in S
  BY <1>1, <1>2
<1>4. (x - 1) + 1 \in S
  BY <1>3
<1> QED BY <1>1, <1>2, <1>4

\* A finite set of naturals is bounded.
LEMMA FiniteBounded ==
    ASSUME NEW S \in SUBSET Nat, IsFiniteSet(S)
    PROVE  \E b \in Nat : \A x \in S : x <= b
<1> DEFINE Bounded(T) == \E b \in Nat : \A x \in T : x <= b
           G == {n \in Nat : \A T \in SUBSET Nat : IsFiniteSet(T) /\ Cardinality(T) = n => Bounded(T)}
<1>1. 0 \in G
  <2>1. ASSUME NEW T \in SUBSET Nat, IsFiniteSet(T), Cardinality(T) = 0 PROVE Bounded(T)
    <3>1. T = {}
      BY <2>1, FS_EmptySet
    <3>2. 0 \in Nat /\ \A x \in T : x <= 0
      BY <3>1
    <3> QED BY <3>2
  <2> HIDE DEF Bounded
  <2> QED BY <2>1
<1>2. ASSUME NEW n \in G PROVE n + 1 \in G
  <2>1. n \in Nat
    OBVIOUS
  <2>2. ASSUME NEW T \in SUBSET Nat, IsFiniteSet(T), Cardinality(T) = n + 1 PROVE Bounded(T)
    <3>1. T # {}
      BY <2>1, <2>2, FS_EmptySet
    <3>2. PICK t \in T : TRUE
      BY <3>1
    <3> DEFINE U == T \ {t}
    <3>3. IsFiniteSet(U) /\ Cardinality(U) = n /\ U \in SUBSET Nat
      <4>1. IsFiniteSet(T \ {t}) /\ Cardinality(T \ {t}) = Cardinality(T) - 1
        <5> HIDE DEF G, Bounded
        <5> QED BY <2>2, <3>2, FS_RemoveElement
      <4>2. n + 1 - 1 = n
        BY <2>1
      <4> QED BY <2>2, <4>1, <4>2
    <3>4. Bounded(U)
      <4> HIDE DEF U, Bounded
      <4> QED BY <3>3
    <3>5. PICK b \in Nat : \A x \in U : x <= b
      BY <3>4
    <3>6. t \in Nat
      BY <3>2
    <3>7. b + t \in Nat /\ \A x \in T : x <= b + t
      <4>1. ASSUME NEW x \in T PROVE x <= b + t
        <5>1. x \in Nat /\ (x = t \/ x <= b)
          BY <3>5
        <5> QED BY <3>6, <5>1
      <4> QED BY <3>6, <4>1
    <3> QED BY <3>7
  <2> HIDE DEF Bounded
  <2> QED BY <2>1, <2>2
<1>3. G = Nat
  <2>1. G \in SUBSET Nat
    OBVIOUS
  <2> HIDE DEF G
  <2> QED BY <1>1, <1>2, <2>1, NatSets
<1>4. Cardinality(S) \in Nat
  BY FS_CardinalityType
<1>5. Cardinality(S) \in G
  <2> HIDE DEF G
  <2> QED BY <1>3, <1>4
<1> QED BY <1>5

\* It has a greatest element, and Max is that one.
LEMMA MaxIsNatural ==
    ASSUME NEW S \in SUBSET Nat, IsFiniteSet(S), S # {}
    PROVE  Max(S) \in Nat
<1> DEFINE B == {b \in Nat : \A x \in S : x <= b}
<1>1. B # {}
  BY FiniteBounded
<1>2. PICK m \in B : \A y \in B : m <= y
  <2>1. B \in SUBSET Nat
    OBVIOUS
  <2> HIDE DEF B
  <2> QED BY <1>1, <2>1, LeastExists
<1>3. m \in S
  <2> SUFFICES ASSUME m \notin S PROVE FALSE
    OBVIOUS
  <2>1. PICK s \in S : TRUE
    OBVIOUS
  <2>2. m \in Nat /\ s \in Nat /\ s <= m /\ s # m
    BY <1>2
  <2>3. m - 1 \in Nat
    BY <2>2
  <2>4. ASSUME NEW x \in S PROVE x <= m - 1
    <3>1. x \in Nat /\ x <= m /\ x # m
      BY <1>2
    <3> QED BY <2>2, <3>1
  <2>5. m - 1 \in B
    BY <2>3, <2>4
  <2> QED BY <1>2, <2>2, <2>5
<1>4. \E x \in S : \A y \in S : x >= y
  BY <1>2, <1>3
<1>5. Max(S) \in S
  BY <1>4 DEF Max
<1> QED BY <1>5

\* The place of a new timer.
LEMMA PlaceIsNatural ==
    ASSUME NEW p, Sound(p)
    PROVE  Place(p) \in Nat
<1> DEFINE R == {0} \cup Range(p.timers)
<1>1. IsFiniteSet(DOMAIN p.timers) /\ \A g \in DOMAIN p.timers : p.timers[g] \in Nat
  BY DEF Sound
<1>2. Range(p.timers) = {p.timers[g] : g \in DOMAIN p.timers}
  BY DEF Range
<1>3. IsFiniteSet(Range(p.timers))
  <2> DEFINE f == [g \in DOMAIN p.timers |-> p.timers[g]]
  <2>1. f \in Surjection(DOMAIN p.timers, Range(p.timers))
    BY <1>2 DEF Surjection
  <2> HIDE DEF f
  <2> QED BY <1>1, <2>1, FS_Surjection
<1>4. IsFiniteSet(R) /\ R \in SUBSET Nat /\ R # {}
  BY <1>1, <1>2, <1>3, FS_AddElement
<1> HIDE DEF R
<1>5. Max(R) \in Nat
  BY <1>4, MaxIsNatural
<1> QED BY <1>5 DEF Place, R

\* The oldest timer.
LEMMA OldestIsTimed ==
    ASSUME NEW p, Sound(p), DOMAIN p.timers # {}
    PROVE  Oldest(p) \in DOMAIN p.timers
<1> DEFINE R == {p.timers[g] : g \in DOMAIN p.timers}
<1>1. R \in SUBSET Nat /\ R # {}
  BY DEF Sound
<1>2. PICK x \in R : \A y \in R : x <= y
  <2> HIDE DEF R
  <2> QED BY <1>1, LeastExists
<1>3. \E g \in DOMAIN p.timers : \A h \in DOMAIN p.timers : p.timers[g] <= p.timers[h]
  BY <1>2
<1> QED BY <1>3 DEF Oldest

-----------------------------------------------------------------------------
(* commit, abort, prepare and the leases.                                  *)

\* scheduleGenerationRetirement: the grace history may drop its oldest generation.
LEMMA ScheduleRetirementSound ==
    ASSUME NEW p, Sound(p), NEW g \in Nat, g < Floor(p)
    PROVE  LET q == ScheduleRetirement(p, g) IN
           /\ Sound(q) /\ \E o \in Nat : o < p.active /\ Keeps(p, q, {o}, {})
           /\ q.active = p.active /\ q.activeState = p.activeState /\ q.rollback = p.rollback
           /\ Led(p) => Led(q)
           /\ \A x \in DOMAIN q.generations : /\ x \in DOMAIN p.generations
                                              /\ x \in DOMAIN p.timers \cup {g} => x \in DOMAIN q.timers
           /\ Brief(p) => Brief(q)
<1> DEFINE t == With(p.timers, g, Place(p))
           r == IF Timed(p, g) THEN p ELSE [p EXCEPT !.timers = t]
<1>1. /\ IsPool(r) /\ r.hosts = p.hosts /\ r.generations = p.generations
      /\ r.active = p.active /\ r.activeState = p.activeState /\ r.rollback = p.rollback
  BY DEF Sound, Calm, IsPool, PoolFields
<1>2. r.timers = p.timers \/ r.timers = t
  BY DEF Sound, Calm, IsPool, PoolFields
<1>13. g \in DOMAIN p.timers \/ r.timers = t
  BY DEF Sound, Calm, IsPool, PoolFields, Timed
<1>3. ScheduleRetirement(p, g) = IF Cardinality(DOMAIN r.timers) > MaxGrace THEN CompleteRetirement(r, Oldest(r)) ELSE r
  BY DEF ScheduleRetirement
<1> HIDE DEF r
<1>4. DOMAIN t = DOMAIN p.timers \cup {g} /\ \A x \in DOMAIN t : t[x] = IF x = g THEN Place(p) ELSE p.timers[x]
  BY DEF With
<1> HIDE DEF t
<1>5. Floor(r) = Floor(p) /\ Calm(r)
  BY <1>1, CalmHosts DEF Sound, Floor
<1>6. IsFiniteSet(DOMAIN t) /\ \A x \in DOMAIN t : t[x] \in Nat /\ x < Floor(r) /\ x \in Nat
  BY <1>4, <1>5, PlaceIsNatural, FS_AddElement DEF Sound
<1>7. /\ IsFiniteSet(DOMAIN r.timers) /\ DOMAIN r.timers \subseteq Nat
      /\ \A x \in DOMAIN r.timers : r.timers[x] \in Nat /\ x < Floor(r)
  BY <1>2, <1>5, <1>6 DEF Sound
<1>8. Sound(r)
  BY <1>1, <1>5, <1>7 DEF Sound, Routed
<1>9. Keeps(p, r, {g}, {}) /\ g < p.active
  BY <1>1 DEF Keeps, Sound, Floor
<1>12. DOMAIN r.timers = DOMAIN p.timers \cup {g} /\ (Led(p) => Led(r))
  BY <1>1, <1>2, <1>4, <1>13, LedSame DEF Timed
<1>14. IsFiniteSet(DOMAIN p.timers)
  BY DEF Sound
<1>15. Brief(p) => Cardinality(DOMAIN r.timers) \in Nat /\ Cardinality(DOMAIN r.timers) <= MaxGrace + 1
  <2>1. Cardinality(DOMAIN p.timers) \in Nat
    BY <1>14, FS_CardinalityType
  <2>2. Cardinality(DOMAIN r.timers) \in {Cardinality(DOMAIN p.timers), Cardinality(DOMAIN p.timers) + 1}
    BY <1>12, <1>14, <2>1, FS_AddElement
  <2> QED BY <2>1, <2>2, GraceAssumption DEF Brief
<1>10. CASE ScheduleRetirement(p, g) = r /\ ~(Cardinality(DOMAIN r.timers) > MaxGrace)
  <2>1. Brief(p) => Brief(r)
    BY <1>10, <1>15, GraceAssumption DEF Brief
  <2> QED BY <1>1, <1>8, <1>9, <1>10, <1>12, <2>1
<1>11. CASE ScheduleRetirement(p, g) = CompleteRetirement(r, Oldest(r)) /\ Cardinality(DOMAIN r.timers) > MaxGrace
  <2> DEFINE o == Oldest(r)
             q == CompleteRetirement(r, o)
  <2>1. DOMAIN r.timers # {}
    BY <1>11, FS_EmptySet, GraceAssumption
  <2>2. o \in DOMAIN r.timers
    BY <1>8, <2>1, OldestIsTimed
  <2>3. ScheduleRetirement(p, g) = q
    BY <1>11
  <2> HIDE DEF o
  <2>4. /\ Sound(q) /\ Keeps(r, q, {o}, {}) /\ o < r.active /\ o \in Nat
        /\ q.active = r.active /\ q.activeState = r.activeState /\ q.rollback = r.rollback
        /\ DOMAIN q.generations = DOMAIN r.generations \ {o} /\ DOMAIN q.timers = DOMAIN r.timers \ {o}
        /\ Led(r) => Led(q)
    BY <1>8, <2>2, CompleteRetirementSound
  <2> HIDE DEF q
  <2>5. Keeps(p, q, {o}, {})
    BY <1>1, <2>4 DEF Keeps
  <2>6. Brief(p) => Brief(q)
    <3>1. IsFiniteSet(DOMAIN r.timers)
      BY <1>7
    <3>2. Cardinality(DOMAIN q.timers) = Cardinality(DOMAIN r.timers) - 1
      BY <2>2, <2>4, <3>1, FS_RemoveElement
    <3> QED BY <1>15, <3>2, GraceAssumption DEF Brief
  <2>7. \A x \in DOMAIN q.generations : /\ x \in DOMAIN p.generations
                                        /\ x \in DOMAIN p.timers \cup {g} => x \in DOMAIN q.timers
    BY <1>1, <1>12, <2>4
  <2> QED BY <1>1, <1>12, <2>3, <2>4, <2>5, <2>6, <2>7
<1> QED BY <1>3, <1>10, <1>11

\* finalizeActiveCommitRollback: what was superseded by the active generation goes to the history.
LEMMA FinalizeRollbackSound ==
    ASSUME NEW p, Sound(p)
    PROVE  LET q == FinalizeRollback(p) IN
           /\ Sound(q) /\ \E S : (\A o \in S : o \in Nat /\ o < p.active) /\ Keeps(p, q, S, {})
           /\ q.active = p.active /\ q.activeState = p.activeState /\ q.rollback = NoRollback
           /\ Led(p) => Led(q)
           /\ Brief(p) => Brief(q)
           /\ \A x \in DOMAIN q.generations :
                /\ x \in DOMAIN p.generations
                /\ x \in DOMAIN p.timers \cup {p.rollback.previous} => x \in DOMAIN q.timers
<1> DEFINE r == [p EXCEPT !.rollback = NoRollback]
           g == p.rollback.previous
<1>1. /\ IsPool(r) /\ r.hosts = p.hosts /\ r.generations = p.generations /\ r.timers = p.timers
      /\ r.active = p.active /\ r.activeState = p.activeState /\ r.rollback = NoRollback
  BY DEF Sound, Calm, IsPool, PoolFields
<1>2. FinalizeRollback(p) = IF g = None THEN r ELSE ScheduleRetirement(r, g)
  BY DEF FinalizeRollback
<1>3. g \in Nat /\ (g # None => g < p.active) /\ p.active \in Nat
  BY DEF Sound, NoRollback, None
<1> HIDE DEF r
<1>4. Floor(r) = p.active /\ Calm(r)
  BY <1>1, CalmHosts DEF Sound, Floor, NoRollback
<1>5. \A x \in DOMAIN p.timers : x < p.active
  <2>1. Floor(p) \in Nat /\ Floor(p) <= p.active
    BY DEF Floor, Sound, NoRollback, None
  <2> QED BY <2>1 DEF Sound
<1>6. Sound(r)
  BY <1>1, <1>4, <1>5 DEF Sound, Routed, NoRollback, None
<1>7. Keeps(p, r, {}, {})
  BY <1>1 DEF Keeps
<1>10. (Led(p) => Led(r)) /\ (Brief(p) => Brief(r)) /\ None \notin DOMAIN p.generations
  BY <1>1, LedSame DEF Brief, Sound
<1> HIDE DEF g
<1>8. CASE g = None
  BY <1>1, <1>2, <1>6, <1>7, <1>8, <1>10 DEF g
<1>9. CASE g # None
  <2> DEFINE q == ScheduleRetirement(r, g)
  <2>1. /\ Sound(q) /\ \E o \in Nat : o < r.active /\ Keeps(r, q, {o}, {})
        /\ q.active = r.active /\ q.activeState = r.activeState /\ q.rollback = r.rollback
        /\ (Led(r) => Led(q)) /\ (Brief(r) => Brief(q))
        /\ \A x \in DOMAIN q.generations : /\ x \in DOMAIN r.generations
                                           /\ x \in DOMAIN r.timers \cup {g} => x \in DOMAIN q.timers
    BY <1>3, <1>4, <1>6, <1>9, ScheduleRetirementSound
  <2>2. FinalizeRollback(p) = q
    BY <1>2, <1>9
  <2> HIDE DEF q
  <2>3. PICK o \in Nat : o < r.active /\ Keeps(r, q, {o}, {})
    BY <2>1
  <2>4. Keeps(p, q, {o}, {})
    BY <1>1, <2>3 DEF Keeps
  <2> QED BY <1>1, <1>10, <2>1, <2>2, <2>3, <2>4 DEF g
<1> QED BY <1>8, <1>9

\* A history that loses timers does not grow.
LEMMA BriefLess ==
    ASSUME NEW p, NEW q, Brief(p), IsFiniteSet(DOMAIN p.timers), DOMAIN q.timers \subseteq DOMAIN p.timers
    PROVE  Brief(q)
<1>1. /\ Cardinality(DOMAIN q.timers) <= Cardinality(DOMAIN p.timers)
      /\ Cardinality(DOMAIN q.timers) \in Nat /\ Cardinality(DOMAIN p.timers) \in Nat
  BY FS_Subset, FS_CardinalityType
<1> QED BY <1>1, GraceAssumption DEF Brief

\* commit of a newer generation: only older ones than the active one may be lost.
LEMMA CommitSound ==
    ASSUME NEW p, Sound(p), NEW g \in Nat, Routed(p, g), p.active < g
    PROVE  LET q == Commit(p, g) IN
           /\ Sound(q) /\ \E S : (\A o \in S : o \in Nat /\ o < p.active) /\ Keeps(p, q, S, {})
           /\ q.active = g /\ q.rollback.previous = p.active /\ q.rollback.generation = g
           /\ (Led(p) => Led(q)) /\ (Brief(p) => Brief(q)) /\ Drops(p, q)
<1> DEFINE f == FinalizeRollback(p)
           u == Untimed(f, {p.active} \ {None})
           q == [u EXCEPT !.active = g, !.activeState = p.generations[g],
                          !.rollback = [generation |-> g, previous |-> p.active, state |-> p.activeState]]
<1>1. /\ Sound(f) /\ \E S : (\A o \in S : o \in Nat /\ o < p.active) /\ Keeps(p, f, S, {})
      /\ f.active = p.active /\ f.activeState = p.activeState /\ f.rollback = NoRollback
      /\ (Led(p) => Led(f)) /\ (Brief(p) => Brief(f))
      /\ \A x \in DOMAIN f.generations : /\ x \in DOMAIN p.generations
                                         /\ x \in DOMAIN p.timers \cup {p.rollback.previous} => x \in DOMAIN f.timers
  BY FinalizeRollbackSound
<1>0. p.active \in Nat /\ g # p.active
  BY DEF Sound
<1>2. Commit(p, g) = q
  BY <1>0 DEF Commit
<1> HIDE DEF f
<1>3. /\ Sound(u) /\ u.hosts = f.hosts /\ u.generations = f.generations
      /\ DOMAIN u.timers = DOMAIN f.timers \ ({p.active} \ {None})
      /\ u.active = f.active /\ u.activeState = f.activeState /\ u.rollback = f.rollback
  BY <1>1, UntimedSound
<1> HIDE DEF u
<1>4. /\ IsPool(q) /\ q.hosts = u.hosts /\ q.generations = u.generations /\ q.timers = u.timers
      /\ q.active = g /\ q.activeState = p.generations[g]
      /\ q.rollback = [generation |-> g, previous |-> p.active, state |-> p.activeState]
  BY <1>3 DEF Sound, Calm, IsPool, PoolFields
<1> HIDE DEF q
<1>5. PICK S : (\A o \in S : o \in Nat /\ o < p.active) /\ Keeps(p, f, S, {})
  BY <1>1
<1>6. Keeps(p, q, S, {})
  BY <1>3, <1>4, <1>5 DEF Keeps
<1>7. \A x : Routed(p, x) /\ x \in Nat /\ p.active <= x => Routed(q, x) /\ q.generations[x] = p.generations[x]
  <2> SUFFICES ASSUME NEW x, Routed(p, x), x \in Nat, p.active <= x PROVE Routed(q, x) /\ q.generations[x] = p.generations[x]
    OBVIOUS
  <2>1. x \notin S
    BY <1>0, <1>5
  <2> QED BY <1>6, <2>1 DEF Keeps, Routed
<1>8. Routed(q, g) /\ q.generations[g] = q.activeState
  BY <1>0, <1>4, <1>7
<1>9. IF p.active = None THEN p.activeState = None ELSE Routed(q, p.active) /\ q.generations[p.active] = p.activeState
  BY <1>0, <1>7 DEF Sound
<1>10. Floor(u) = p.active /\ Floor(q) = p.active
  <2>1. g # None
    BY <1>0 DEF None
  <2> QED BY <1>1, <1>3, <1>4, <2>1 DEF Floor, NoRollback
<1>11. Calm(q)
  BY <1>3, <1>4, CalmHosts DEF Sound
<1>12. g # None
  BY <1>0 DEF None
<1>13. /\ \A x \in DOMAIN q.generations : q.generations[x] \in DOMAIN q.hosts /\ ~q.hosts[q.generations[x]].retiring
       /\ \A h \in DOMAIN q.hosts : q.hosts[h].ready /\ q.hosts[h].fingerprint # Plain => q.hosts[h].host
       /\ None \notin DOMAIN q.generations /\ None \notin DOMAIN q.hosts
       /\ IsFiniteSet(DOMAIN q.timers) /\ DOMAIN q.timers \subseteq Nat
       /\ \A x \in DOMAIN q.timers : q.timers[x] \in Nat /\ x < Floor(q)
  BY <1>3, <1>4, <1>10 DEF Sound
<1>14. /\ q.rollback.generation = g /\ q.rollback.previous = p.active /\ q.rollback.state = p.activeState
  BY <1>4
<1>15. Sound(q)
  BY <1>0, <1>4, <1>8, <1>9, <1>11, <1>12, <1>13, <1>14 DEF Sound
<1>16. Led(p) => Led(q)
  BY <1>1, <1>3, <1>4, LedSame
<1>17. Brief(p) => Brief(q)
  <2>1. DOMAIN q.timers \subseteq DOMAIN f.timers /\ IsFiniteSet(DOMAIN f.timers)
    BY <1>1, <1>3, <1>4 DEF Sound
  <2> QED BY <1>1, <2>1, BriefLess
<1>18. Drops(p, q)
  <2>1. \A x \in DOMAIN q.generations : x \in DOMAIN p.generations /\ (x \in Kept(p) => x \in Kept(q))
    BY <1>1, <1>3, <1>4, <1>14 DEF Kept
  <2> QED BY <2>1 DEF Drops
<1> QED BY <1>2, <1>4, <1>5, <1>6, <1>14, <1>15, <1>16, <1>17, <1>18

\* abort: the active generation gives way to the one before it, a staged one is forgotten.
LEMMA AbortSound ==
    ASSUME NEW p, Sound(p), NEW g, g # None, g # p.rollback.previous
    PROVE  LET q == Abort(p, g) IN
           /\ Sound(q) /\ Keeps(p, q, {g}, {})
           /\ g = p.active /\ p.rollback.generation = g =>
                /\ q.active = p.rollback.previous /\ q.rollback = NoRollback
           /\ ~(g = p.active /\ p.rollback.generation = g) => q.active = p.active /\ q.rollback = p.rollback
           /\ (Led(p) => Led(q)) /\ (Brief(p) => Brief(q)) /\ Drops(p, q)
           /\ g \in DOMAIN q.generations => g = q.active
<1>0. IsFiniteSet(DOMAIN p.timers)
  BY DEF Sound
<1>1. CASE g = p.active /\ p.rollback.generation = g
  <2> DEFINE b == p.rollback.previous
             u == Untimed(p, {b} \ {None})
             q == [u EXCEPT !.active = b, !.activeState = p.rollback.state,
                            !.rollback = NoRollback, !.generations = Without(@, {g})]
  <2>1. /\ Sound(u) /\ u.hosts = p.hosts /\ u.generations = p.generations /\ DOMAIN u.timers = DOMAIN p.timers \ ({b} \ {None})
        /\ u.active = p.active /\ u.activeState = p.activeState /\ u.rollback = p.rollback
    BY UntimedSound
  <2>2. Abort(p, g) = RetireIfUnreferenced(q, p.activeState)
    BY <1>1 DEF Abort
  <2> HIDE DEF u
  <2>3. /\ IsPool(q) /\ q.hosts = p.hosts /\ q.generations = Without(p.generations, {g}) /\ q.timers = u.timers
        /\ q.active = b /\ q.activeState = p.rollback.state /\ q.rollback = NoRollback
    BY <2>1 DEF Sound, Calm, IsPool, PoolFields
  <2> HIDE DEF q
  <2>4. /\ DOMAIN q.generations = DOMAIN p.generations \ {g}
        /\ \A x \in DOMAIN p.generations \ {g} : q.generations[x] = p.generations[x]
    BY <2>3 DEF Without, Restrict
  <2>5. Floor(u) = b /\ Floor(q) = b /\ b \in Nat
    BY <1>1, <2>1, <2>3 DEF Floor, NoRollback, Sound
  <2>6. IF b = None THEN p.rollback.state = None ELSE Routed(q, b) /\ q.generations[b] = p.rollback.state
    BY <2>4 DEF Sound, Routed
  <2>7. /\ \A x \in DOMAIN q.generations : q.generations[x] \in DOMAIN q.hosts /\ ~q.hosts[q.generations[x]].retiring
        /\ \A h \in DOMAIN q.hosts : q.hosts[h].ready /\ q.hosts[h].fingerprint # Plain => q.hosts[h].host
        /\ None \notin DOMAIN q.generations /\ None \notin DOMAIN q.hosts
        /\ IsFiniteSet(DOMAIN q.timers) /\ DOMAIN q.timers \subseteq Nat
        /\ \A x \in DOMAIN q.timers : q.timers[x] \in Nat /\ x < Floor(q)
    BY <2>1, <2>3, <2>4, <2>5 DEF Sound
  <2>8. Calm(q)
    BY <2>3, CalmHosts DEF Sound
  <2>a. /\ q.rollback.generation = None /\ q.rollback.previous = None /\ q.rollback.state = None
        /\ q.rollback.previous \in Nat
    BY <2>3 DEF NoRollback, None
  <2>b. IF q.active = None THEN q.activeState = None
        ELSE Routed(q, q.active) /\ q.generations[q.active] = q.activeState
    BY <2>3, <2>6
  <2>9. Sound(q)
    BY <2>3, <2>5, <2>7, <2>8, <2>a, <2>b DEF Sound
  <2>10. Keeps(p, q, {g}, {})
    BY <2>3, <2>4 DEF Keeps
  <2>c. p.activeState \in DOMAIN q.hosts
    BY <1>1, <2>3 DEF Sound, Routed
  <2>d. ASSUME Led(p), NEW x \in DOMAIN q.hosts \ {p.activeState} PROVE Wanted(q, x)
    <3>1. Wanted(p, x)
      BY <2>3, <2>d DEF Led
    <3>2. p.generations[g] = p.activeState
      BY <1>1 DEF Sound
    <3>3. Referenced(p, x) => Referenced(q, x)
      BY <2>4, <2>d, <3>2 DEF Referenced
    <3> QED BY <2>3, <3>1, <3>3 DEF Wanted
  <2>e. Led(p) => Led(RetireIfUnreferenced(q, p.activeState))
    BY <2>9, <2>c, <2>d, RetireLed
  <2>f. ASSUME NEW r, DOMAIN r.generations = DOMAIN q.generations, DOMAIN r.timers = DOMAIN q.timers, r.active = q.active
        PROVE  (Brief(p) => Brief(r)) /\ Drops(p, r) /\ g \notin DOMAIN r.generations
    <3>1. DOMAIN r.timers \subseteq DOMAIN p.timers
      BY <2>1, <2>3, <2>f
    <3>2. \A x \in DOMAIN r.generations : x \in DOMAIN p.generations /\ (x \in Kept(p) => x \in Kept(r))
      BY <1>1, <2>1, <2>3, <2>4, <2>f DEF Kept
    <3> QED BY <1>0, <2>4, <2>f, <3>1, <3>2, BriefLess DEF Drops
  <2> HIDE DEF b
  <2>11. CASE RetireIfUnreferenced(q, p.activeState) = q
    BY <1>1, <2>2, <2>3, <2>9, <2>10, <2>11, <2>e, <2>f DEF b
  <2>12. CASE RetireIfUnreferenced(q, p.activeState) = Retire(q, p.activeState) /\ ~Referenced(q, p.activeState)
    <3> DEFINE h == p.activeState
               r == Retire(q, h)
    <3>1. h \in DOMAIN q.hosts
      BY <1>1, <2>3 DEF Sound, Routed
    <3>2. Abort(p, g) = r
      BY <2>2, <2>12
    <3>3. /\ Sound(r) /\ Keeps(q, r, {}, {})
          /\ r.active = q.active /\ r.activeState = q.activeState /\ r.rollback = q.rollback
          /\ DOMAIN r.timers = DOMAIN q.timers
      BY <2>9, <2>12, <3>1, RetireSound
    <3> HIDE DEF r, h
    <3>4. Keeps(p, r, {g} \cup {}, {})
      BY <2>10, <3>3, KeepsTransitive
    <3>5. Keeps(p, r, {g}, {})
      BY <3>4
    <3>6. DOMAIN r.generations = DOMAIN q.generations
      BY <3>3 DEF Keeps
    <3>7. Led(p) => Led(r)
      BY <2>2, <2>e, <3>2
    <3>8. (Brief(p) => Brief(r)) /\ Drops(p, r) /\ g \notin DOMAIN r.generations
      BY <2>f, <3>3, <3>6
    <3> QED BY <1>1, <2>3, <3>2, <3>3, <3>5, <3>7, <3>8 DEF b
  <2> QED BY <2>11, <2>12 DEF RetireIfUnreferenced
<1>2. CASE g # p.active /\ Routed(p, g)
  <2>1. g \in DOMAIN p.generations
    BY <1>2 DEF Routed
  <2> DEFINE q == Forget(p, g)
  <2>2. Abort(p, g) = q
    BY <1>2 DEF Abort
  <2>3. /\ Sound(q) /\ Keeps(p, q, {g}, {}) /\ q.active = p.active /\ q.rollback = p.rollback
        /\ DOMAIN q.generations = DOMAIN p.generations \ {g} /\ DOMAIN q.timers = DOMAIN p.timers /\ (Led(p) => Led(q))
    BY <1>2, <2>1, ForgetSound
  <2> HIDE DEF q
  <2>4. (Brief(p) => Brief(q)) /\ Drops(p, q)
    BY <2>3 DEF Brief, Drops, Kept
  <2> QED BY <1>2, <2>2, <2>3, <2>4
<1>3. CASE Abort(p, g) = p /\ ~(g = p.active /\ p.rollback.generation = g) /\ (g = p.active \/ ~Routed(p, g))
  BY <1>3 DEF Keeps, Drops, Routed
<1> QED BY <1>1, <1>2, <1>3 DEF Abort

\* What prepare makes of a pool that has not met the generation: it is routed, and ready only
\* with its plugins.
Stages(p, q, g, fp) ==
    /\ Sound(q) /\ Keeps(p, q, {}, {g}) /\ (Ready(q, g) => Serves(q, g, fp))
    /\ q.active = p.active /\ q.rollback = p.rollback
    /\ (Led(p) => Led(q)) /\ q.timers = p.timers

\* prepare of a generation the pool has not met.
LEMMA PrepareSound ==
    ASSUME NEW p, Sound(p), NEW g \in Nat, g # None, g \notin DOMAIN p.generations, g \notin DOMAIN p.hosts,
           NEW fp, NEW built \in BOOLEAN, NEW plugins \in BOOLEAN, plugins <=> fp # Plain
    PROVE  Stages(p, Prepare(p, g, fp, plugins, built), g, fp)
<1> DEFINE shared == [p EXCEPT !.generations = With(@, g, p.activeState)]
<1>1. ASSUME NEW q, NEW h, IsPool(q), q.generations = With(p.generations, g, h), q.timers = p.timers,
             q.active = p.active, q.activeState = p.activeState, q.rollback = p.rollback,
             h \in DOMAIN q.hosts, ~q.hosts[h].retiring, q.hosts[h].fingerprint = fp,
             DOMAIN q.hosts \subseteq DOMAIN p.hosts \cup {g}, DOMAIN p.hosts \subseteq DOMAIN q.hosts,
             \A x \in DOMAIN p.hosts : q.hosts[x] = p.hosts[x],
             g \in DOMAIN q.hosts => IsHost(q.hosts[g]) /\ ~q.hosts[g].shutdown
                                     /\ (q.hosts[g].ready /\ q.hosts[g].fingerprint # Plain => q.hosts[g].host)
                                     /\ h = g
      PROVE  Sound(q) /\ Keeps(p, q, {}, {g}) /\ (Ready(q, g) => Serves(q, g, fp)) /\ (Led(p) => Led(q))
  <2>1. DOMAIN q.generations = DOMAIN p.generations \cup {g} /\ q.generations[g] = h
        /\ \A x \in DOMAIN p.generations : q.generations[x] = p.generations[x]
    BY <1>1 DEF With
  <2>2. Calm(q)
    BY <1>1 DEF Sound, Calm
  <2>3. Floor(q) = Floor(p)
    BY <1>1 DEF Floor
  <2>4. \A x \in DOMAIN q.generations : q.generations[x] \in DOMAIN q.hosts /\ ~q.hosts[q.generations[x]].retiring
    BY <1>1, <2>1 DEF Sound
  <2>5. \A x \in DOMAIN q.hosts : q.hosts[x].ready /\ q.hosts[x].fingerprint # Plain => q.hosts[x].host
    BY <1>1 DEF Sound
  <2>6. \A x : Routed(p, x) => Routed(q, x) /\ q.generations[x] = p.generations[x]
    BY <2>1 DEF Routed
  <2>7. None \notin DOMAIN q.generations /\ None \notin DOMAIN q.hosts
    BY <1>1, <2>1 DEF Sound
  <2>8. Sound(q)
    BY <1>1, <2>2, <2>3, <2>4, <2>5, <2>6, <2>7 DEF Sound
  <2>9. Keeps(p, q, {}, {g})
    BY <1>1, <2>1 DEF Keeps, Sound
  <2>10. ASSUME Led(p), NEW x \in DOMAIN q.hosts PROVE Wanted(q, x)
    <3>1. CASE x \in DOMAIN p.hosts
      <4>1. Wanted(p, x) /\ q.hosts[x] = p.hosts[x]
        BY <1>1, <2>10, <3>1 DEF Led
      <4>2. Referenced(p, x) => Referenced(q, x)
        BY <2>1 DEF Referenced
      <4> QED BY <4>1, <4>2 DEF Wanted
    <3>2. CASE x \notin DOMAIN p.hosts
      <4>1. x = g /\ g = h
        BY <1>1, <2>10, <3>2
      <4> QED BY <2>1, <4>1 DEF Wanted, Referenced
    <3> QED BY <3>1, <3>2
  <2>11. Led(p) => Led(q)
    BY <2>10 DEF Led
  <2> QED BY <1>1, <2>1, <2>8, <2>9, <2>11 DEF Ready, Serves, Routed
<1>2. ASSUME NEW host, IsHost(host), ~host.shutdown, ~host.retiring, host.fingerprint = fp,
             host.ready /\ fp # Plain => host.host
      PROVE  Stages(p, Stage(p, g, host), g, fp)
  <2> DEFINE q == Stage(p, g, host)
  <2>1. /\ IsPool(q) /\ q.hosts = With(p.hosts, g, host) /\ q.generations = With(p.generations, g, g)
        /\ q.timers = p.timers /\ q.active = p.active /\ q.activeState = p.activeState /\ q.rollback = p.rollback
    BY DEF Sound, Calm, Stage, IsPool, PoolFields
  <2> HIDE DEF q
  <2>2. DOMAIN q.hosts = DOMAIN p.hosts \cup {g} /\ q.hosts[g] = host /\ \A x \in DOMAIN p.hosts : q.hosts[x] = p.hosts[x]
    BY <2>1 DEF With
  <2>3. Sound(q) /\ Keeps(p, q, {}, {g}) /\ (Ready(q, g) => Serves(q, g, fp)) /\ (Led(p) => Led(q))
    BY <1>1, <1>2, <2>1, <2>2
  <2> QED BY <2>1, <2>3 DEF q, Stages
<1>3. CASE p.activeState # None /\ p.hosts[p.activeState].ready /\ p.hosts[p.activeState].fingerprint = fp
  <2>1. /\ IsPool(shared) /\ shared.hosts = p.hosts /\ shared.generations = With(p.generations, g, p.activeState)
        /\ shared.timers = p.timers /\ shared.active = p.active /\ shared.activeState = p.activeState
        /\ shared.rollback = p.rollback
    BY DEF Sound, Calm, IsPool, PoolFields
  <2>2. Prepare(p, g, fp, plugins, built) = shared
    BY <1>3 DEF Prepare, Routed
  <2> HIDE DEF shared
  <2>3. p.activeState \in DOMAIN p.hosts /\ ~p.hosts[p.activeState].retiring
    BY <1>3 DEF Sound, Routed
  <2>4. Sound(shared) /\ Keeps(p, shared, {}, {g}) /\ (Ready(shared, g) => Serves(shared, g, fp)) /\ (Led(p) => Led(shared))
    BY <1>1, <1>3, <2>1, <2>3
  <2> QED BY <2>1, <2>2, <2>4 DEF Stages
<1>4. CASE ~(p.activeState # None /\ p.hosts[p.activeState].ready /\ p.hosts[p.activeState].fingerprint = fp)
  <2>1. PICK host : /\ Prepare(p, g, fp, plugins, built) = Stage(p, g, host)
                    /\ \/ host = Host(fp, FALSE, TRUE) /\ fp = Plain
                       \/ host = Host(fp, built, built)
    BY <1>4 DEF Prepare, Routed
  <2>2. /\ IsHost(host) /\ ~host.shutdown /\ ~host.retiring /\ host.fingerprint = fp
        /\ (host.ready /\ fp # Plain => host.host)
    <3>1. CASE host = Host(fp, FALSE, TRUE) /\ fp = Plain
      BY <3>1 DEF Host, IsHost, HostFields
    <3>2. CASE host = Host(fp, built, built)
      BY <3>2 DEF Host, IsHost, HostFields
    <3> QED BY <2>1, <3>1, <3>2
  <2> QED BY <1>2, <2>1, <2>2
<1> QED BY <1>3, <1>4

\* The same of the step that runs it.
LEMMA InstallSound ==
    ASSUME ~disposed, Sound(pool), NEW t \in Nat, t # None, t \notin DOMAIN pool.generations, t \notin DOMAIN pool.hosts,
           NEW built \in BOOLEAN, pool' = Install(t, built)
    PROVE  Stages(pool, pool', t, adapter.active[t].fingerprint)
<1> DEFINE fp == adapter.active[t].fingerprint
<1>1. pool' = Prepare(pool, t, fp, fp # Plain, built)
  BY DEF Install
<1> HIDE DEF fp
<1>2. PICK f, plugins, b : f = fp /\ plugins = (fp # Plain) /\ b = built
  OBVIOUS
<1>3. plugins \in BOOLEAN /\ b \in BOOLEAN /\ (plugins <=> f # Plain)
  BY <1>2
<1>4. pool' = Prepare(pool, t, f, plugins, b)
  BY <1>1, <1>2
<1> DEFINE q == Prepare(pool, t, f, plugins, b)
<1>5. Stages(pool, q, t, f)
  BY ONLY Sound(pool), t \in Nat, t # None, t \notin DOMAIN pool.generations, t \notin DOMAIN pool.hosts, <1>3, PrepareSound
<1> HIDE DEF q
<1>6. pool' = q
  BY <1>4 DEF q
<1> QED BY <1>2, <1>5, <1>6 DEF fp

\* A lint takes a lease on a routed generation's host.
LEMMA LeaseSound ==
    ASSUME NEW p, Sound(p), NEW g, Routed(p, g)
    PROVE  LET q == Lease(p, g) IN
           /\ Sound(q) /\ Keeps(p, q, {}, {}) /\ q.active = p.active /\ q.rollback = p.rollback
           /\ (Led(p) => Led(q)) /\ q.timers = p.timers
<1> DEFINE h == p.generations[g]
           new == [p.hosts[h] EXCEPT !.activeLints = @ + 1]
           q == Lease(p, g)
<1>1. q = [p EXCEPT !.hosts = [p.hosts EXCEPT ![h] = new]]
  BY DEF Lease
<1>2. h \in DOMAIN p.hosts /\ IsHost(p.hosts[h])
  BY DEF Sound, Calm, Routed
<1>3. /\ IsHost(new) /\ ~new.shutdown /\ new.fingerprint = p.hosts[h].fingerprint
      /\ (new.ready <=> p.hosts[h].ready) /\ (new.host <=> p.hosts[h].host) /\ (new.retiring <=> p.hosts[h].retiring)
  BY <1>2 DEF Sound, Calm, IsHost, HostFields
<1>6. p.hosts[h].activeLints \in Nat /\ new.activeLints = p.hosts[h].activeLints + 1
  BY <1>2 DEF IsHost, HostFields
<1> HIDE DEF h, new
<1>4. /\ IsPool(q) /\ q.hosts = [p.hosts EXCEPT ![h] = new] /\ q.generations = p.generations
      /\ q.active = p.active /\ q.activeState = p.activeState /\ q.rollback = p.rollback /\ q.timers = p.timers
  BY <1>1 DEF Sound, Calm, IsPool, PoolFields
<1> HIDE DEF q
<1>5. Sound(q) /\ Keeps(p, q, {}, {})
  BY <1>3, <1>4, HostEdit
<1>7. ASSUME Led(p), NEW x \in DOMAIN q.hosts PROVE Wanted(q, x)
  <2>1. x \in DOMAIN p.hosts /\ Wanted(p, x)
    BY <1>4, <1>7 DEF Led
  <2>2. CASE x = h
    BY <1>2, <1>3, <1>4, <1>6, <2>1, <2>2 DEF Wanted, Referenced
  <2>3. CASE x # h
    BY <1>4, <2>1, <2>3 DEF Wanted, Referenced
  <2> QED BY <2>2, <2>3
<1>8. Led(p) => Led(q)
  BY <1>7 DEF Led
<1> QED BY <1>4, <1>5, <1>8 DEF q

\* The end of a lint.
LEMMA ReleaseSound ==
    ASSUME NEW p, Sound(p), NEW h \in DOMAIN p.hosts, p.hosts[h].activeLints > 0
    PROVE  LET q == Release(p, h) IN
           /\ Sound(q) /\ Keeps(p, q, {}, {}) /\ q.active = p.active /\ q.rollback = p.rollback
           /\ (Led(p) => Led(q)) /\ DOMAIN q.timers = DOMAIN p.timers
<1> DEFINE new == [p.hosts[h] EXCEPT !.activeLints = @ - 1]
           q == [p EXCEPT !.hosts = [p.hosts EXCEPT ![h] = new]]
<1>1. IsHost(p.hosts[h]) /\ ~p.hosts[h].shutdown
  BY DEF Sound, Calm
<1>2. /\ IsHost(new) /\ ~new.shutdown /\ new.fingerprint = p.hosts[h].fingerprint
      /\ (new.ready <=> p.hosts[h].ready) /\ (new.host <=> p.hosts[h].host) /\ (new.retiring <=> p.hosts[h].retiring)
  BY <1>1 DEF IsHost, HostFields
<1>3. /\ IsPool(q) /\ q.hosts = [p.hosts EXCEPT ![h] = new] /\ q.generations = p.generations
      /\ q.active = p.active /\ q.activeState = p.activeState /\ q.rollback = p.rollback /\ q.timers = p.timers
  BY DEF Sound, Calm, IsPool, PoolFields
<1>4. Release(p, h) = IF (q.hosts[h].retiring \/ q.hosts[h].shutdown) /\ q.hosts[h].activeLints = 0
                      THEN StartShutdown(q, h) ELSE q
  BY DEF Release
<1>8. q.hosts[h] = new /\ new.activeLints \in Nat
  BY <1>2, <1>3 DEF IsHost
<1>9. ASSUME Led(p), NEW x \in DOMAIN p.hosts, x # h PROVE q.hosts[x] = p.hosts[x] /\ Wanted(q, x)
  <2> HIDE DEF q, new
  <2>1. q.hosts[x] = p.hosts[x] /\ Wanted(p, x)
    BY <1>3, <1>9 DEF Led
  <2> QED BY <1>3, <2>1 DEF Wanted, Referenced
<1>10. Led(p) => Referenced(q, h) \/ q.hosts[h].retiring
  <2> HIDE DEF q, new
  <2> QED BY <1>2, <1>3, <1>8 DEF Led, Wanted, Referenced
<1> HIDE DEF q, new
<1>5. Sound(q) /\ Keeps(p, q, {}, {})
  BY <1>2, <1>3, HostEdit
<1>6. CASE Release(p, h) = q /\ ~(q.hosts[h].retiring /\ q.hosts[h].activeLints = 0)
  <2>1. ASSUME Led(p), NEW x \in DOMAIN q.hosts PROVE Wanted(q, x)
    <3>1. CASE x = h
      BY <1>6, <1>8, <1>10, <2>1, <3>1 DEF Wanted
    <3>2. CASE x # h
      BY <1>3, <1>9, <2>1, <3>2
    <3> QED BY <3>1, <3>2
  <2>2. Led(p) => Led(q)
    BY <2>1 DEF Led
  <2> QED BY <1>3, <1>5, <1>6, <2>2
<1>7. CASE Release(p, h) = StartShutdown(q, h) /\ q.hosts[h].retiring /\ q.hosts[h].activeLints = 0
  <2> DEFINE r == StartShutdown(q, h)
  <2>1. h \in DOMAIN q.hosts /\ ~Referenced(q, h)
    BY <1>3, <1>5, <1>7 DEF Sound, Referenced
  <2>2. /\ Sound(r) /\ Keeps(q, r, {}, {}) /\ r.active = q.active /\ r.rollback = q.rollback
        /\ DOMAIN r.timers = DOMAIN q.timers
    BY <1>5, <1>7, <2>1, StartShutdownSound
  <2>6. \A x \in DOMAIN r.hosts : x \in DOMAIN q.hosts /\ x # h /\ r.hosts[x] = q.hosts[x]
    BY <1>3, <1>7, StartShutdownHosts
  <2>3. Release(p, h) = r
    BY <1>7
  <2> HIDE DEF r
  <2>4. Keeps(p, r, {} \cup {}, {})
    BY <1>5, <2>2, KeepsTransitive
  <2>5. Keeps(p, r, {}, {})
    BY <2>4
  <2>7. ASSUME Led(p), NEW x \in DOMAIN r.hosts PROVE Wanted(r, x)
    <3>1. x \in DOMAIN q.hosts /\ x # h /\ r.hosts[x] = q.hosts[x]
      BY <2>6, <2>7
    <3>2. Wanted(q, x)
      BY <1>3, <1>9, <2>7, <3>1
    <3>3. Referenced(q, x) => Referenced(r, x)
      BY <2>2 DEF Keeps, Referenced
    <3> QED BY <3>1, <3>2, <3>3 DEF Wanted
  <2>8. Led(p) => Led(r)
    BY <2>7 DEF Led
  <2> QED BY <1>3, <2>2, <2>3, <2>5, <2>8
<1> QED
  <2>1. q.hosts[h] = new /\ ~q.hosts[h].shutdown
    BY <1>2, <1>3
  <2> QED BY <1>4, <1>6, <1>7, <2>1

-----------------------------------------------------------------------------
(* The wire and the chain as they grow and shrink.                         *)

\* The place of a request within its transaction.
LEMMA Ranks == Rank("load") = 0 /\ Rank("activate") = 1 /\ Rank("commit") = 2 /\ Rank("abort") = 3
BY DEF Rank

\* Requests have different keys: the key tells the transaction, and within it the request.
LEMMA KeyFacts ==
    ASSUME NEW r, r.tx \in Nat
    PROVE  Key(r) \in Nat /\ 4 * r.tx <= Key(r) /\ Key(r) <= 4 * r.tx + 3
<1>1. Rank(r.op) \in 0..3
  BY DEF Rank
<1> QED BY <1>1 DEF Key

\* Keys on the wire.
LEMMA WireKeys ==
    ASSUME NEW w \in Seq(Requests)
    PROVE  \A i \in DOMAIN w : w[i] \in Requests /\ w[i].tx \in Nat /\ Key(w[i]) \in Nat
<1> SUFFICES ASSUME NEW i \in DOMAIN w PROVE w[i] \in Requests /\ w[i].tx \in Nat /\ Key(w[i]) \in Nat
  OBVIOUS
<1>1. w[i] \in Requests
  OBVIOUS
<1>2. w[i].tx \in Nat
  BY <1>1 DEF Requests
<1> QED BY <1>1, <1>2, KeyFacts

\* Keys in the chain.
LEMMA ChainKeys ==
    ASSUME NEW o \in Seq(Operations)
    PROVE  \A i \in DOMAIN o : o[i] \in Operations /\ o[i].tx \in Nat /\ Key(o[i]) \in Nat
<1> SUFFICES ASSUME NEW i \in DOMAIN o PROVE o[i] \in Operations /\ o[i].tx \in Nat /\ Key(o[i]) \in Nat
  OBVIOUS
<1>1. o[i] \in Operations
  OBVIOUS
<1>2. o[i].tx \in Nat
  BY <1>1 DEF Operations
<1> QED BY <1>1, <1>2, KeyFacts

\* A control request is sent after all the others.
LEMMA PushOrdered ==
    ASSUME NEW w \in Seq(Requests), NEW o \in Seq(Operations), NEW e \in Requests,
           Ordered(w, o), NEW m \in Nat, NEW n \in Nat, Within(w, o, m), m < Key(e), Key(e) <= n, 0 < e.tx
    PROVE  Ordered(Append(w, e), o) /\ Within(Append(w, e), o, n)
<1> DEFINE v == Append(w, e)
<1>1. /\ DOMAIN v = 1..(Len(w) + 1) /\ DOMAIN w = 1..Len(w) /\ Len(w) \in Nat
      /\ v[Len(w) + 1] = e /\ \A i \in DOMAIN w : v[i] = w[i]
  OBVIOUS
<1>2. \A i \in DOMAIN w : w[i].tx \in Nat /\ Key(w[i]) \in Nat
  BY WireKeys
<1>3. \A i \in DOMAIN o : o[i].tx \in Nat /\ Key(o[i]) \in Nat
  BY ChainKeys
<1>4. Key(e) \in Nat
  BY KeyFacts DEF Requests
<1> HIDE DEF v
<1>a. \A i \in DOMAIN v : (i \in DOMAIN w /\ v[i] = w[i]) \/ (i = Len(w) + 1 /\ v[i] = e)
  BY <1>1
<1>b. \A i \in DOMAIN w : Control(w[i]) => Key(w[i]) < Key(e)
  BY <1>2, <1>4 DEF Within
<1>c. \A i \in DOMAIN o : Requested(o[i]) => Key(o[i]) < Key(e)
  BY <1>3, <1>4 DEF Within
<1>d. \A i, j \in DOMAIN v : i < j => i \in DOMAIN w
  BY <1>1
<1>5. Ordered(v, o)
  BY <1>1, <1>a, <1>b, <1>c, <1>d DEF Ordered
<1>6. Within(v, o, n)
  <2>1. \A i \in DOMAIN v : Control(v[i]) => 0 < v[i].tx /\ Key(v[i]) <= n
    BY <1>2, <1>4, <1>a, <1>b DEF Within
  <2>2. \A i \in DOMAIN o : Requested(o[i]) => 0 < o[i].tx /\ Key(o[i]) <= n
    BY <1>3, <1>4, <1>c DEF Within
  <2> QED BY <2>1, <2>2 DEF Within
<1> QED BY <1>5, <1>6 DEF v

\* A larger bound.
LEMMA WithinMore ==
    ASSUME NEW w \in Seq(Requests), NEW o \in Seq(Operations), NEW m \in Nat, NEW n \in Nat, Within(w, o, m), m <= n
    PROVE  Within(w, o, n)
<1>1. \A i \in DOMAIN w : Key(w[i]) \in Nat
  BY WireKeys
<1>2. \A i \in DOMAIN o : Key(o[i]) \in Nat
  BY ChainKeys
<1> QED BY <1>1, <1>2 DEF Within

\* What is on the wire after a send.
LEMMA PushWired ==
    ASSUME NEW w \in Seq(Requests), NEW e \in Requests
    PROVE  /\ \A op, tx : Wired(Append(w, e), op, tx) <=> Wired(w, op, tx) \/ (op = e.op /\ tx = e.tx)
           /\ \A m : Above(w, m) /\ (Control(e) => m < Key(e)) => Above(Append(w, e), m)
<1> DEFINE v == Append(w, e)
<1>1. /\ DOMAIN v = 1..(Len(w) + 1) /\ DOMAIN w = 1..Len(w) /\ Len(w) \in Nat
      /\ v[Len(w) + 1] = e /\ \A i \in DOMAIN w : v[i] = w[i]
  OBVIOUS
<1> HIDE DEF v
<1>2. \A i \in DOMAIN v : i \in DOMAIN w \/ i = Len(w) + 1
  BY <1>1
<1>3. DOMAIN w \subseteq DOMAIN v /\ Len(w) + 1 \in DOMAIN v
  BY <1>1
<1>4. \A op, tx : Wired(v, op, tx) <=> Wired(w, op, tx) \/ (op = e.op /\ tx = e.tx)
  BY <1>1, <1>2, <1>3 DEF Wired
<1>5. \A m : Above(w, m) /\ (Control(e) => m < Key(e)) => Above(v, m)
  BY <1>1, <1>2 DEF Above
<1> QED BY <1>4, <1>5 DEF v

\* Lints have no place in the order.
LEMMA LintOrdered ==
    ASSUME NEW w \in Seq(Requests), NEW o \in Seq(Operations), NEW e \in Requests, ~Control(e), Ordered(w, o)
    PROVE  /\ Ordered(Append(w, e), o) /\ \A m : Within(w, o, m) => Within(Append(w, e), o, m)
           /\ Quiet(w) => Quiet(Append(w, e))
<1> DEFINE v == Append(w, e)
<1>1. /\ DOMAIN v = 1..(Len(w) + 1) /\ DOMAIN w = 1..Len(w) /\ Len(w) \in Nat
      /\ v[Len(w) + 1] = e /\ \A i \in DOMAIN w : v[i] = w[i]
  OBVIOUS
<1> HIDE DEF v
<1>2. \A i \in DOMAIN v : Control(v[i]) => i \in DOMAIN w
  BY <1>1
<1>3. Ordered(v, o)
  BY <1>1, <1>2 DEF Ordered
<1>4. \A m : Within(w, o, m) => Within(v, o, m)
  BY <1>1, <1>2 DEF Within
<1>5. Quiet(w) => Quiet(v)
  BY <1>1, <1>2 DEF Quiet
<1> QED BY <1>3, <1>4, <1>5 DEF v

\* A crash leaves a prefix of the wire: what is sent before a request that is left is left too.
LEMMA PrefixOrdered ==
    ASSUME NEW w \in Seq(Requests), NEW o \in Seq(Operations), NEW k \in 0..Len(w), Ordered(w, o)
    PROVE  LET v == SubSeq(w, 1, k) IN
           /\ Ordered(v, o) /\ \A m : Within(w, o, m) => Within(v, o, m)
           /\ \A m : Above(w, m) => Above(v, m)
           /\ Quiet(w) => Quiet(v)
           /\ \A op, tx : Wired(v, op, tx) => Wired(w, op, tx)
<1> DEFINE v == SubSeq(w, 1, k)
<1>1. DOMAIN v = 1..k /\ DOMAIN w = 1..Len(w) /\ Len(w) \in Nat /\ k \in Nat /\ k <= Len(w) /\ \A i \in DOMAIN v : v[i] = w[i]
  OBVIOUS
<1> HIDE DEF v
<1>2. DOMAIN v \subseteq DOMAIN w
  BY <1>1
<1>3. Ordered(v, o)
  BY <1>1, <1>2 DEF Ordered
<1>4. \A m : Within(w, o, m) => Within(v, o, m)
  BY <1>1, <1>2 DEF Within
<1>5. \A m : Above(w, m) => Above(v, m)
  BY <1>1, <1>2 DEF Above
<1>6. \A op, tx : Wired(v, op, tx) => Wired(w, op, tx)
  BY <1>1, <1>2 DEF Wired
<1>7. Quiet(w) => Quiet(v)
  BY <1>1, <1>2 DEF Quiet
<1> QED BY <1>3, <1>4, <1>5, <1>6, <1>7 DEF v

\* A request that comes before one that survived the crash survived too.
LEMMA PrefixClosed ==
    ASSUME NEW w \in Seq(Requests), NEW o, NEW k \in 0..Len(w), Ordered(w, o),
           NEW op \in Controls, NEW tx, NEW r \in Controls, NEW d,
           Wired(SubSeq(w, 1, k), r, d), Wired(w, op, tx), 4 * tx + Rank(op) < 4 * d + Rank(r)
    PROVE  Wired(SubSeq(w, 1, k), op, tx)
<1> DEFINE v == SubSeq(w, 1, k)
<1>1. DOMAIN v = 1..k /\ DOMAIN w = 1..Len(w) /\ Len(w) \in Nat /\ k \in Nat /\ k <= Len(w) /\ \A i \in DOMAIN v : v[i] = w[i]
  OBVIOUS
<1> HIDE DEF v
<1>2. PICK j \in DOMAIN v : w[j].op = r /\ w[j].tx = d
  BY <1>1 DEF Wired, v
<1>3. PICK i \in DOMAIN w : w[i].op = op /\ w[i].tx = tx
  BY DEF Wired
<1>4. Control(w[i]) /\ Control(w[j]) /\ j \in DOMAIN w /\ Key(w[i]) < Key(w[j])
  BY <1>1, <1>2, <1>3 DEF Control, Controls, Key
<1>5. i <= j
  <2> SUFFICES ASSUME j < i PROVE FALSE
    BY <1>1
  <2>1. Key(w[j]) < Key(w[i])
    BY <1>4 DEF Ordered
  <2>2. Key(w[i]) \in Nat /\ Key(w[j]) \in Nat
    BY <1>4, WireKeys
  <2> QED BY <1>4, <2>1, <2>2
<1>6. i \in DOMAIN v /\ v[i] = w[i]
  BY <1>1, <1>5
<1> QED BY <1>3, <1>6 DEF Wired, v

\* A request is taken from the wire.
LEMMA PopWire ==
    ASSUME NEW w \in Seq(Requests), w # <<>>, NEW o, Ordered(w, o)
    PROVE  LET v == Tail(w) e == Head(w) IN
           /\ v \in Seq(Requests) /\ e \in Requests /\ e.tx \in Nat
           /\ Ordered(v, o) /\ \A m : Within(w, o, m) => Within(v, o, m)
           /\ \A m : Above(w, m) => Above(v, m)
           /\ Control(e) => Above(v, Key(e))
           /\ Quiet(w) => Quiet(v) /\ ~Control(e)
           /\ \A op, tx : Wired(w, op, tx) <=> Wired(v, op, tx) \/ (op = e.op /\ tx = e.tx)
           /\ \A i \in DOMAIN v : \E j \in DOMAIN w : v[i] = w[j]
<1> DEFINE v == Tail(w)
           e == Head(w)
<1>1. /\ DOMAIN w = 1..Len(w) /\ Len(w) \in Nat /\ Len(w) > 0 /\ e = w[1]
      /\ DOMAIN v = 1..(Len(w) - 1) /\ \A i \in DOMAIN v : v[i] = w[i + 1]
  OBVIOUS
<1>2. v \in Seq(Requests) /\ e \in Requests
  OBVIOUS
<1>3. e.tx \in Nat
  BY <1>2 DEF Requests
<1> HIDE DEF v, e
<1>4. 1 \in DOMAIN w /\ \A i \in DOMAIN v : i + 1 \in DOMAIN w /\ v[i] = w[i + 1] /\ 1 < i + 1 /\ i \in Nat
  BY <1>1
<1>5. \A i \in DOMAIN w : i = 1 \/ (i - 1 \in DOMAIN v /\ v[i - 1] = w[i])
  BY <1>1
<1>6. Ordered(v, o)
  <2>1. \A i, j \in DOMAIN v : Control(v[i]) /\ Control(v[j]) /\ i < j => Key(v[i]) < Key(v[j])
    <3> SUFFICES ASSUME NEW i \in DOMAIN v, NEW j \in DOMAIN v, Control(v[i]), Control(v[j]), i < j PROVE Key(v[i]) < Key(v[j])
      OBVIOUS
    <3>1. i + 1 \in DOMAIN w /\ j + 1 \in DOMAIN w /\ i + 1 < j + 1
      BY <1>4
    <3> QED BY <1>4, <3>1 DEF Ordered
  <2> QED BY <1>4, <2>1 DEF Ordered
<1>7. \A m : Within(w, o, m) => Within(v, o, m)
  BY <1>4 DEF Within
<1>8. \A m : Above(w, m) => Above(v, m)
  BY <1>4 DEF Above
<1>9. Control(e) => Above(v, Key(e))
  BY <1>1, <1>4 DEF Above, Ordered
<1>10. Quiet(w) => Quiet(v) /\ ~Control(e)
  BY <1>1, <1>4 DEF Quiet
<1>11. \A op, tx : Wired(w, op, tx) <=> Wired(v, op, tx) \/ (op = e.op /\ tx = e.tx)
  BY <1>1, <1>4, <1>5 DEF Wired
<1>12. \A i \in DOMAIN v : \E j \in DOMAIN w : v[i] = w[j]
  BY <1>4
<1> QED BY <1>2, <1>3, <1>6, <1>7, <1>8, <1>9, <1>10, <1>11, <1>12 DEF v, e

\* An operation joins the chain.
LEMMA PushChain ==
    ASSUME NEW o \in Seq(Operations), NEW op \in {"prepare", "commit", "abort"}, NEW tx \in Nat,
           NEW by \in {"request", "activate", "undo", "reset"}
    PROVE  LET e == Operation(op, tx, by) c == Append(o, e) IN
           /\ \A x, t, b : Queued(c, x, t, b) <=> Queued(o, x, t, b) \/ (x = op /\ t = tx /\ b = by)
           /\ Shaped(o) /\ <<op, by>> \in Shapes => Shaped(c)
           /\ by # "request" /\ Unasked(o) => Unasked(c)
           /\ by # "reset" => (Resetting(c) <=> Resetting(o))
           /\ \A i \in DOMAIN c : (i \in DOMAIN o /\ c[i] = o[i]) \/ (i = Len(o) + 1 /\ i \notin DOMAIN o /\ c[i] = e)
           /\ DOMAIN o \subseteq DOMAIN c /\ DOMAIN o \subseteq Nat /\ Len(o) \in Nat
           /\ \A i \in DOMAIN o : i < Len(o) + 1
           /\ e.op = op /\ e.tx = tx /\ e.by = by
<1> DEFINE e == Operation(op, tx, by)
           c == Append(o, e)
<1>1. /\ DOMAIN c = 1..(Len(o) + 1) /\ DOMAIN o = 1..Len(o) /\ Len(o) \in Nat
      /\ c[Len(o) + 1] = e /\ \A i \in DOMAIN o : c[i] = o[i]
  OBVIOUS
<1>2. e.op = op /\ e.tx = tx /\ e.by = by
  BY DEF Operation
<1>3. \A x, t, b : e = Operation(x, t, b) <=> x = op /\ t = tx /\ b = by
  BY DEF Operation
<1> HIDE DEF c, e
<1>4. \A i \in DOMAIN c : (i \in DOMAIN o /\ c[i] = o[i]) \/ (i = Len(o) + 1 /\ i \notin DOMAIN o /\ c[i] = e)
  BY <1>1
<1>5. DOMAIN o \subseteq DOMAIN c /\ Len(o) + 1 \in DOMAIN c /\ DOMAIN o \subseteq Nat /\ Len(o) \in Nat
      /\ \A i \in DOMAIN o : i < Len(o) + 1
  BY <1>1
<1>6. \A x, t, b : Queued(c, x, t, b) <=> Queued(o, x, t, b) \/ (x = op /\ t = tx /\ b = by)
  BY <1>1, <1>3, <1>4, <1>5 DEF Queued
<1>7. Shaped(o) /\ <<op, by>> \in Shapes => Shaped(c)
  BY <1>2, <1>4 DEF Shaped
<1>8. by # "request" /\ Unasked(o) => Unasked(c)
  BY <1>2, <1>4 DEF Unasked, Requested
<1>9. by # "reset" => (Resetting(c) <=> Resetting(o))
  BY <1>1, <1>2, <1>4, <1>5 DEF Resetting
<1> QED BY <1>2, <1>4, <1>5, <1>6, <1>7, <1>8, <1>9 DEF c, e

\* An operation that is no request has no place in the order.
LEMMA OwnOrdered ==
    ASSUME NEW w, NEW o \in Seq(Operations), NEW op \in {"prepare", "abort"}, NEW tx \in Nat,
           NEW by \in {"activate", "undo"}, Ordered(w, o), ResetsLast(o)
    PROVE  LET c == Append(o, Operation(op, tx, by)) IN
           /\ Ordered(w, c) /\ ResetsLast(c)
           /\ \A m : Within(w, o, m) => Within(w, c, m)
<1> DEFINE e == Operation(op, tx, by)
           c == Append(o, e)
<1>1. \A i \in DOMAIN c : (i \in DOMAIN o /\ c[i] = o[i]) \/ (i = Len(o) + 1 /\ c[i] = e)
  BY PushChain
<1>2. DOMAIN o \subseteq Nat /\ Len(o) \in Nat /\ \A i \in DOMAIN o : i < Len(o) + 1
  BY PushChain
<1>3. ~Requested(e) /\ e.by # "reset"
  BY DEF Requested, Operation
<1> HIDE DEF c, e
<1>4. Ordered(w, c)
  BY <1>1, <1>3 DEF Ordered
<1>5. ResetsLast(c)
  BY <1>1, <1>2, <1>3 DEF ResetsLast
<1>6. \A m : Within(w, o, m) => Within(w, c, m)
  BY <1>1, <1>3 DEF Within
<1> QED BY <1>4, <1>5, <1>6 DEF c, e

\* A commit or an abort moves from the wire to the chain.
LEMMA MoveOrdered ==
    ASSUME NEW w \in Seq(Requests), NEW o \in Seq(Operations), w # <<>>, NEW op \in {"commit", "abort"}, Head(w).op = op,
           Ordered(w, o), ResetsLast(o), ~Resetting(o)
    PROVE  LET c == Append(o, Operation(op, Head(w).tx, "request")) IN
           /\ Ordered(Tail(w), c) /\ ResetsLast(c)
           /\ \A m : Within(w, o, m) => Within(Tail(w), c, m)
<1> DEFINE h == Head(w)
           e == Operation(op, h.tx, "request")
           c == Append(o, e)
           v == Tail(w)
<1>0. /\ DOMAIN w = 1..Len(w) /\ Len(w) \in Nat /\ Len(w) > 0 /\ h = w[1] /\ 1 \in DOMAIN w
      /\ h \in Requests
  OBVIOUS
<1>1. /\ Ordered(v, o) /\ (\A m : Within(w, o, m) => Within(v, o, m)) /\ (Control(h) => Above(v, Key(h)))
      /\ h.tx \in Nat
  BY PopWire
<1>2. \A i \in DOMAIN c : (i \in DOMAIN o /\ c[i] = o[i]) \/ (i = Len(o) + 1 /\ c[i] = e)
  BY <1>1, PushChain
<1>3. DOMAIN o \subseteq Nat /\ Len(o) \in Nat /\ \A i \in DOMAIN o : i < Len(o) + 1
  BY <1>1, PushChain
<1>4. Requested(e) /\ e.by # "reset" /\ Key(e) = Key(h) /\ Control(h) /\ e.tx = h.tx
  BY DEF Requested, Operation, Key, Control
<1> HIDE DEF c, e, v, h
<1>5. \A i \in DOMAIN o : Requested(o[i]) => Key(o[i]) < Key(e)
  BY <1>0, <1>4 DEF Ordered
<1>6. \A i \in DOMAIN v : Control(v[i]) => Key(e) < Key(v[i])
  BY <1>1, <1>4 DEF Above
<1>7. Ordered(v, c)
  <2>1. \A i, j \in DOMAIN c : Requested(c[i]) /\ Requested(c[j]) /\ i < j => Key(c[i]) < Key(c[j])
    <3>1. \A i, j \in DOMAIN c : i < j => i \in DOMAIN o
      BY <1>2, <1>3
    <3> QED BY <1>1, <1>2, <1>5, <3>1 DEF Ordered
  <2>2. \A i \in DOMAIN c, j \in DOMAIN v : Requested(c[i]) /\ Control(v[j]) => Key(c[i]) < Key(v[j])
    BY <1>1, <1>2, <1>6 DEF Ordered
  <2> QED BY <1>1, <2>1, <2>2 DEF Ordered
<1>8. ResetsLast(c)
  BY <1>2, <1>4 DEF ResetsLast, Resetting
<1>9. \A m : Within(w, o, m) => Within(v, c, m)
  BY <1>0, <1>1, <1>2, <1>4 DEF Within
<1> QED BY <1>7, <1>8, <1>9 DEF c, e, v, h

\* The operation at the head of the chain is over.
LEMMA PopChain ==
    ASSUME NEW w \in Seq(Requests), NEW o \in Seq(Operations), o # <<>>, Ordered(w, o), Shaped(o), ResetsLast(o)
    PROVE  LET c == Tail(o) e == Head(o) IN
           /\ c \in Seq(Operations) /\ e \in Operations /\ e.tx \in Nat /\ e = o[1] /\ 1 \in DOMAIN o
           /\ Ordered(w, c) /\ Shaped(c) /\ ResetsLast(c) /\ <<e.op, e.by>> \in Shapes
           /\ \A m : Within(w, o, m) => Within(w, c, m)
           /\ Unasked(o) => Unasked(c) /\ ~Requested(e)
           /\ Resetting(c) => Resetting(o)
           /\ e.by = "reset" => Resetting(o) /\ Unasked(c) /\ 0 < e.tx
           /\ \A x, t, b : Queued(o, x, t, b) <=> Queued(c, x, t, b) \/ (x = e.op /\ t = e.tx /\ b = e.by)
           /\ \A i \in DOMAIN c : i \in Nat /\ i + 1 \in DOMAIN o /\ c[i] = o[i + 1] /\ i + 1 # 1
<1> DEFINE c == Tail(o)
           e == Head(o)
<1>1. /\ DOMAIN o = 1..Len(o) /\ Len(o) \in Nat /\ Len(o) > 0 /\ e = o[1]
      /\ DOMAIN c = 1..(Len(o) - 1) /\ \A i \in DOMAIN c : c[i] = o[i + 1]
  OBVIOUS
<1>2. c \in Seq(Operations) /\ e \in Operations
  OBVIOUS
<1>3. e.tx \in Nat /\ e = Operation(e.op, e.tx, e.by)
  BY <1>2 DEF Operations, Operation
<1> HIDE DEF c, e
<1>4. 1 \in DOMAIN o /\ \A i \in DOMAIN c : i + 1 \in DOMAIN o /\ c[i] = o[i + 1] /\ 1 < i + 1 /\ i \in Nat
  BY <1>1
<1>5. \A i \in DOMAIN o : i = 1 \/ (i - 1 \in DOMAIN c /\ c[i - 1] = o[i])
  BY <1>1
<1>6. \A i, j \in DOMAIN c : i < j => i + 1 < j + 1
  BY <1>4
<1>7. Ordered(w, c)
  <2>1. \A i, j \in DOMAIN c : Requested(c[i]) /\ Requested(c[j]) /\ i < j => Key(c[i]) < Key(c[j])
    <3> SUFFICES ASSUME NEW i \in DOMAIN c, NEW j \in DOMAIN c, Requested(c[i]), Requested(c[j]), i < j PROVE Key(c[i]) < Key(c[j])
      OBVIOUS
    <3>1. i + 1 \in DOMAIN o /\ j + 1 \in DOMAIN o /\ i + 1 < j + 1
      BY <1>4
    <3> QED BY <1>4, <3>1 DEF Ordered
  <2> QED BY <1>4, <2>1 DEF Ordered
<1>8. Shaped(c) /\ <<e.op, e.by>> \in Shapes
  BY <1>1, <1>4 DEF Shaped
<1>9. ResetsLast(c)
  <2>1. \A i, j \in DOMAIN c : c[i].by = "reset" /\ i < j => ~Requested(c[j])
    <3> SUFFICES ASSUME NEW i \in DOMAIN c, NEW j \in DOMAIN c, c[i].by = "reset", i < j PROVE ~Requested(c[j])
      OBVIOUS
    <3>1. i + 1 \in DOMAIN o /\ j + 1 \in DOMAIN o /\ i + 1 < j + 1
      BY <1>4
    <3> QED BY <1>4, <3>1 DEF ResetsLast
  <2> QED BY <1>4, <2>1 DEF ResetsLast
<1>10. \A m : Within(w, o, m) => Within(w, c, m)
  BY <1>4 DEF Within
<1>11. Unasked(o) => Unasked(c) /\ ~Requested(e)
  BY <1>1, <1>4 DEF Unasked
<1>12. Resetting(c) => Resetting(o)
  BY <1>4 DEF Resetting
<1>13. e.by = "reset" => Resetting(o) /\ Unasked(c) /\ 0 < e.tx
  BY <1>1, <1>4 DEF Resetting, Unasked, ResetsLast
<1>14. \A x, t, b : Queued(o, x, t, b) <=> Queued(c, x, t, b) \/ (x = e.op /\ t = e.tx /\ b = e.by)
  <2> SUFFICES ASSUME NEW x, NEW t, NEW b
               PROVE  Queued(o, x, t, b) <=> Queued(c, x, t, b) \/ (x = e.op /\ t = e.tx /\ b = e.by)
    OBVIOUS
  <2>1. e = Operation(x, t, b) <=> x = e.op /\ t = e.tx /\ b = e.by
    BY <1>3 DEF Operation
  <2>2. Queued(c, x, t, b) => Queued(o, x, t, b)
    BY <1>4 DEF Queued
  <2>3. e = Operation(x, t, b) => Queued(o, x, t, b)
    BY <1>1, <1>4 DEF Queued
  <2>4. ASSUME Queued(o, x, t, b), e # Operation(x, t, b) PROVE Queued(c, x, t, b)
    <3>1. PICK i \in DOMAIN o : o[i] = Operation(x, t, b)
      BY <2>4 DEF Queued
    <3>2. i # 1
      BY <1>1, <2>4, <3>1
    <3> QED BY <1>5, <3>1, <3>2 DEF Queued
  <2> QED BY <2>1, <2>2, <2>3, <2>4
<1> QED BY <1>1, <1>2, <1>3, <1>4, <1>7, <1>8, <1>9, <1>10, <1>11, <1>12, <1>13, <1>14 DEF c, e

\* What is sent behind the request at the head of the chain comes later in the order.
LEMMA HeadLeast ==
    ASSUME NEW w \in Seq(Requests), NEW o \in Seq(Operations), o # <<>>, Ordered(w, o), Head(o).by = "request",
           NEW op \in Controls, NEW t, Wired(w, op, t) \/ Queued(Tail(o), op, t, "request")
    PROVE  4 * Head(o).tx + Rank(Head(o).op) < 4 * t + Rank(op)
<1>1. /\ DOMAIN o = 1..Len(o) /\ Len(o) \in Nat /\ Len(o) > 0 /\ Head(o) = o[1] /\ 1 \in DOMAIN o
      /\ DOMAIN Tail(o) = 1..(Len(o) - 1) /\ \A i \in DOMAIN Tail(o) : Tail(o)[i] = o[i + 1]
  OBVIOUS
<1>2. Requested(o[1])
  BY <1>1 DEF Requested
<1>3. CASE Wired(w, op, t)
  <2>1. PICK j \in DOMAIN w : w[j].op = op /\ w[j].tx = t
    BY <1>3 DEF Wired
  <2>2. Control(w[j])
    BY <2>1 DEF Control, Controls
  <2>3. Key(o[1]) < Key(w[j])
    BY <1>1, <1>2, <2>2 DEF Ordered
  <2> QED BY <1>1, <2>1, <2>3 DEF Key
<1>4. CASE Queued(Tail(o), op, t, "request")
  <2>1. PICK i \in DOMAIN Tail(o) : Tail(o)[i] = Operation(op, t, "request")
    BY <1>4 DEF Queued
  <2>2. i + 1 \in DOMAIN o /\ 1 < i + 1 /\ o[i + 1] = Operation(op, t, "request")
    BY <1>1, <2>1
  <2>3. Requested(o[i + 1]) /\ o[i + 1].op = op /\ o[i + 1].tx = t
    BY <2>2 DEF Requested, Operation
  <2>4. Key(o[1]) < Key(o[i + 1])
    BY <1>1, <1>2, <2>2, <2>3 DEF Ordered
  <2> QED BY <1>1, <2>3, <2>4 DEF Key
<1> QED BY <1>3, <1>4

\* What is on the wire or in the chain is within the bounds.
LEMMA SentWithin ==
    ASSUME NEW w \in Seq(Requests), NEW o \in Seq(Operations), NEW m, Within(w, o, m),
           NEW op \in Controls, NEW t, Wired(w, op, t) \/ Queued(o, op, t, "request")
    PROVE  t \in Nat /\ 0 < t /\ 4 * t + Rank(op) <= m
<1>1. CASE Wired(w, op, t)
  <2>1. PICK j \in DOMAIN w : w[j].op = op /\ w[j].tx = t
    BY <1>1 DEF Wired
  <2>2. Control(w[j]) /\ w[j].tx \in Nat
    BY <2>1, WireKeys DEF Control, Controls
  <2> QED BY <2>1, <2>2 DEF Within, Key
<1>2. CASE Queued(o, op, t, "request")
  <2>1. PICK j \in DOMAIN o : o[j] = Operation(op, t, "request")
    BY <1>2 DEF Queued
  <2>2. Requested(o[j]) /\ o[j].op = op /\ o[j].tx = t /\ o[j].tx \in Nat
    BY <2>1, ChainKeys DEF Requested, Operation
  <2> QED BY <2>2 DEF Within, Key
<1> QED BY <1>1, <1>2

\* Wire bounds from below.
LEMMA WiredAbove ==
    ASSUME NEW w \in Seq(Requests), NEW m, Above(w, m), NEW op \in Controls, NEW t, Wired(w, op, t)
    PROVE  m < 4 * t + Rank(op)
BY DEF Above, Wired, Control, Controls, Key

\* Nothing of a transaction under way.
LEMMA QuietWired ==
    ASSUME NEW w, NEW o, Quiet(w), Unasked(o), NEW op \in Controls, NEW t
    PROVE  ~Wired(w, op, t) /\ ~Queued(o, op, t, "request")
<1>1. ~Wired(w, op, t)
  BY DEF Quiet, Wired, Control, Controls
<1>2. ~Queued(o, op, t, "request")
  <2> SUFFICES ASSUME NEW k \in DOMAIN o, o[k] = Operation(op, t, "request") PROVE FALSE
    BY DEF Queued
  <2>1. Requested(o[k])
    BY DEF Requested, Operation
  <2> QED BY <2>1 DEF Unasked
<1> QED BY <1>1, <1>2

\* No abort of a restart is queued when none is there.
LEMMA UnresetQueued ==
    ASSUME NEW o, ~Resetting(o), NEW op, NEW t
    PROVE  ~Queued(o, op, t, "reset")
<1> SUFFICES ASSUME NEW k \in DOMAIN o, o[k] = Operation(op, t, "reset") PROVE FALSE
  BY DEF Queued
<1>1. o[k].by = "reset"
  BY DEF Operation
<1> QED BY <1>1 DEF Resetting

\* resetForServerRestart.
LEMMA ResetChain ==
    ASSUME NEW w, NEW o \in Seq(Operations), NEW r \in Seq(Operations), NEW T,
           Ordered(w, o), Shaped(o), ResetsLast(o),
           \A k \in DOMAIN r : r[k] = Operation("abort", r[k].tx, "reset") /\ r[k].tx \in T /\ 0 < r[k].tx,
           \A t \in T : \E k \in DOMAIN r : r[k].tx = t
    PROVE  LET c == o \o r IN
           /\ Ordered(w, c) /\ Shaped(c) /\ ResetsLast(c)
           /\ \A m : Within(w, o, m) => Within(w, c, m)
           /\ \A x, t, b : b # "reset" => (Queued(c, x, t, b) <=> Queued(o, x, t, b))
           /\ \A x, t : Queued(c, x, t, "reset") <=> Queued(o, x, t, "reset") \/ (x = "abort" /\ t \in T)
           /\ \A i \in DOMAIN c : c[i].by # "reset" => i \in DOMAIN o /\ c[i] = o[i]
           /\ T = {} => (Resetting(c) <=> Resetting(o))
<1> DEFINE c == o \o r
<1>1. /\ DOMAIN o = 1..Len(o) /\ Len(o) \in Nat /\ DOMAIN r = 1..Len(r) /\ Len(r) \in Nat
      /\ DOMAIN c = 1..(Len(o) + Len(r))
      /\ \A i \in DOMAIN c : c[i] = IF i <= Len(o) THEN o[i] ELSE r[i - Len(o)]
  OBVIOUS
<1> HIDE DEF c
<1>2. \A i \in DOMAIN c : (i \in DOMAIN o /\ c[i] = o[i]) \/ (i \notin DOMAIN o /\ i - Len(o) \in DOMAIN r /\ c[i] = r[i - Len(o)])
  BY <1>1
<1>3. \A i \in DOMAIN o : i \in DOMAIN c /\ c[i] = o[i]
  BY <1>1
<1>4. \A k \in DOMAIN r : k + Len(o) \in DOMAIN c /\ c[k + Len(o)] = r[k]
  BY <1>1
<1>5. \A k \in DOMAIN r : r[k].op = "abort" /\ r[k].by = "reset" /\ ~Requested(r[k]) /\ <<r[k].op, r[k].by>> \in Shapes
  <2> SUFFICES ASSUME NEW k \in DOMAIN r
               PROVE  r[k].op = "abort" /\ r[k].by = "reset" /\ ~Requested(r[k]) /\ <<r[k].op, r[k].by>> \in Shapes
    OBVIOUS
  <2>1. r[k].op = "abort" /\ r[k].by = "reset"
    BY DEF Operation
  <2> QED BY <2>1 DEF Requested, Shapes
<1>6. \A i, j \in DOMAIN c : i < j /\ j \in DOMAIN o => i \in DOMAIN o
  BY <1>1
<1>7. Ordered(w, c)
  BY <1>2, <1>5, ZenonT(60) DEF Ordered
<1>8. Shaped(c)
  BY <1>2, <1>5 DEF Shaped
<1>9. ResetsLast(c)
  <2>1. ASSUME NEW i \in DOMAIN c, NEW j \in DOMAIN c, c[i].by = "reset", i < j PROVE ~Requested(c[j])
    <3>1. CASE j \in DOMAIN o /\ c[j] = o[j]
      <4>1. i \in DOMAIN o /\ c[i] = o[i]
        BY <1>3, <1>6, <2>1, <3>1
      <4> QED BY <2>1, <3>1, <4>1 DEF ResetsLast
    <3>2. CASE j - Len(o) \in DOMAIN r /\ c[j] = r[j - Len(o)]
      BY <1>5, <3>2
    <3> QED BY <1>2, <3>1, <3>2
  <2>2. \A i \in DOMAIN c : c[i].by = "reset" => 0 < c[i].tx
    BY <1>2 DEF ResetsLast
  <2> QED BY <2>1, <2>2 DEF ResetsLast
<1>10. \A m : Within(w, o, m) => Within(w, c, m)
  BY <1>2, <1>5 DEF Within
<1>11. \A i \in DOMAIN c : c[i].by # "reset" => i \in DOMAIN o /\ c[i] = o[i]
  BY <1>2, <1>5, ZenonT(60)
<1>12. \A x, t, b : b # "reset" => (Queued(c, x, t, b) <=> Queued(o, x, t, b))
  <2> SUFFICES ASSUME NEW x, NEW t, NEW b, b # "reset" PROVE Queued(c, x, t, b) <=> Queued(o, x, t, b)
    OBVIOUS
  <2>1. Operation(x, t, b).by # "reset"
    BY DEF Operation
  <2> QED BY <1>3, <1>11, <2>1 DEF Queued
<1>13. \A x, t : Queued(c, x, t, "reset") <=> Queued(o, x, t, "reset") \/ (x = "abort" /\ t \in T)
  <2> SUFFICES ASSUME NEW x, NEW t PROVE Queued(c, x, t, "reset") <=> Queued(o, x, t, "reset") \/ (x = "abort" /\ t \in T)
    OBVIOUS
  <2>1. ASSUME Queued(c, x, t, "reset") PROVE Queued(o, x, t, "reset") \/ (x = "abort" /\ t \in T)
    <3>1. PICK i \in DOMAIN c : c[i] = Operation(x, t, "reset")
      BY <2>1 DEF Queued
    <3>2. CASE i \in DOMAIN o /\ c[i] = o[i]
      BY <3>1, <3>2 DEF Queued
    <3>3. CASE i - Len(o) \in DOMAIN r /\ c[i] = r[i - Len(o)]
      <4>1. r[i - Len(o)].op = x /\ r[i - Len(o)].tx = t
        BY <3>1, <3>3 DEF Operation
      <4> QED BY <1>5, <3>3, <4>1
    <3> QED BY <1>2, <3>2, <3>3
  <2>2. Queued(o, x, t, "reset") => Queued(c, x, t, "reset")
    BY <1>3 DEF Queued
  <2>3. ASSUME t \in T PROVE Queued(c, "abort", t, "reset")
    <3>1. PICK k \in DOMAIN r : r[k].tx = t
      BY <2>3
    <3>2. k + Len(o) \in DOMAIN c /\ c[k + Len(o)] = Operation("abort", t, "reset")
      BY <1>4, <3>1
    <3> QED BY <3>2 DEF Queued
  <2> QED BY <2>1, <2>2, <2>3
<1>14. T = {} => (Resetting(c) <=> Resetting(o))
  BY <1>2, <1>3 DEF Resetting
<1> QED BY <1>7, <1>8, <1>9, <1>10, <1>11, <1>12, <1>13, <1>14 DEF c

-----------------------------------------------------------------------------
(* The server's steps.                                                     *)

Good == OrderInv /\ ResetInv /\ SessionInv /\ ActivationInv /\ Sound(pool) /\ KnownInv /\ CommittedInv /\ ServedInv

\* The server's requests come in the order of their keys.
LEMMA AskFacts ==
    ASSUME ConfigType, OrderInv, NEW op \in Controls, NEW c \in Catalogs, Ask(op, c), UNCHANGED ops,
           NEW n \in Nat, Limit \in Nat, Limit < 4 * c.tx + Rank(op), 4 * c.tx + Rank(op) <= n, 0 < c.tx
    PROVE  /\ Ordered(wire', ops') /\ Within(wire', ops', n) /\ Shaped(ops')
           /\ \A x, t : Wired(wire', x, t) <=> Wired(wire, x, t) \/ (x = op /\ t = c.tx)
           /\ \A m : Above(wire, m) /\ m < 4 * c.tx + Rank(op) => Above(wire', m)
<1> DEFINE e == Request(op, c)
<1>1. e \in Requests /\ e.op = op /\ e.tx = c.tx
  BY DEF Request, Requests, Catalogs
<1>2. Key(e) = 4 * c.tx + Rank(op) /\ wire' = Append(wire, e)
  BY <1>1 DEF Key, Ask
<1>3. wire \in Seq(Requests) /\ ops \in Seq(Operations)
  BY DEF ConfigType
<1> HIDE DEF e
<1>4. Ordered(wire, ops) /\ Within(wire, ops, Limit) /\ Shaped(ops)
  BY DEF OrderInv
<1>5. Ordered(wire', ops) /\ Within(wire', ops, n)
  BY <1>1, <1>2, <1>3, <1>4, PushOrdered
<1>6. /\ \A x, t : Wired(wire', x, t) <=> Wired(wire, x, t) \/ (x = op /\ t = c.tx)
      /\ \A m : Above(wire, m) /\ (Control(e) => m < Key(e)) => Above(wire', m)
  BY <1>1, <1>2, <1>3, PushWired
<1> QED BY <1>2, <1>4, <1>5, <1>6

\* abortFailedConfigRefresh.
LEMMA AbortRefreshGood ==
    ASSUME ConfigType, Good, go.pc \in {"load", "activate", "commit"}, AbortFailedRefresh, UNCHANGED lastTx, ServerOnly
    PROVE  Good'
<1>0. /\ go \in Servers /\ lastTx \in Nat /\ pool.active \in Nat /\ pool.rollback.previous \in Nat
      /\ pool.rollback.previous # None => pool.rollback.previous < pool.active
  BY DEF ConfigType, Good, Sound, NoRollback
<1>1. /\ go'.pc = "abort" /\ go'.up = go.up /\ go'.next = go.next /\ go'.committed = go.committed
      /\ reply' = NoReply /\ UNCHANGED <<lastTx, adapter, ops, pool, disposed>> /\ Ask("abort", go.next)
  BY <1>0 DEF AbortFailedRefresh, Ask, ServerOnly, Servers
<1>2. Busy /\ go.up /\ go.next.tx = lastTx /\ lastTx > 0 /\ go.next \in Catalogs
  BY <1>0 DEF Good, OrderInv, Busy, Servers
<1>3. Limit \in Nat /\ Limit < 4 * lastTx + 3 /\ Limit' = 4 * lastTx + 3 /\ Rank("abort") = 3
  BY <1>0, <1>1, <1>2, Ranks DEF Limit, Busy
<1>4. /\ Ordered(wire', ops') /\ Within(wire', ops', 4 * lastTx + 3) /\ Shaped(ops')
      /\ \A x, t : Wired(wire', x, t) <=> Wired(wire, x, t) \/ (x = "abort" /\ t = lastTx)
      /\ \A m : Above(wire, m) /\ m < 4 * lastTx + 3 => Above(wire', m)
  <2>1. "abort" \in Controls /\ OrderInv
    BY DEF Controls, Good
  <2> QED BY <1>0, <1>1, <1>2, <1>3, <2>1, AskFacts
<1>5. ~Resetting(ops)
  BY <1>2 DEF Good, ResetInv
<1>6. \A t : ~ResetPending(t)
  BY <1>5, UnresetQueued DEF ResetPending
<1>7. OrderInv'
  BY <1>1, <1>2, <1>3, <1>4 DEF OrderInv, Busy, NoReply
<1>8. ResetInv'
  BY <1>1, <1>5 DEF Good, ResetInv
<1>9. SessionInv'
  BY <1>1, <1>2, <1>4, <1>6 DEF Good, SessionInv, Live, Sent, ResetPending, NoReply
<1>10. ActivationInv'
  <2>1. ASSUME NEW t \in DOMAIN adapter.active
        PROVE  0 < t /\ 4 * t + 1 <= 4 * lastTx + 3 /\ Above(wire', 4 * t + 1)
    <3>1. t \in Nat
      BY ActiveMapFacts DEF ConfigType
    <3>2. 0 < t /\ 4 * t + 1 <= Limit /\ Above(wire, 4 * t + 1)
      BY DEF Good, ActivationInv
    <3>3. 4 * t + 1 < 4 * lastTx + 3
      BY <1>0, <1>3, <3>1, <3>2
    <3> QED BY <1>0, <1>4, <3>1, <3>2, <3>3
  <2> QED BY <1>1, <1>3, <1>4, <2>1 DEF Good, ActivationInv, Activating, Sent, At, NoReply
<1>11. KnownInv'
  BY <1>0, <1>1, <1>2, <1>4, <1>6 DEF Good, KnownInv, Sent, ResetPending
<1>12. CommittedInv'
  BY <1>0, <1>1, <1>2, <1>4 DEF Good, CommittedInv, Sent, Busy, NoReply
<1>13. ServedInv'
  BY <1>1 DEF Good, ServedInv, At, NoReply
<1> QED BY <1>1, <1>7, <1>8, <1>9, <1>10, <1>11, <1>12, <1>13 DEF Good

\* A refresh begins when the aborts of a restart are over.
LEMMA RefreshGood ==
    ASSUME ConfigType, Good, RefreshConfig
    PROVE  Good'
<1> DEFINE next == [NoCatalog EXCEPT !.tx = lastTx + 1]
<1>0. /\ go \in Servers /\ lastTx \in Nat /\ pool.active \in Nat /\ pool.rollback.previous \in Nat
      /\ pool.rollback.previous # None => pool.rollback.previous < pool.active
      /\ wire \in Seq(Requests) /\ ops \in Seq(Operations)
  BY DEF ConfigType, Good, Sound, NoRollback
<1>1. /\ go' = [go EXCEPT !.pc = "load", !.next = next] /\ go.pc = "idle" /\ go.up
      /\ reply' = NoReply /\ UNCHANGED <<adapter, ops, pool, disposed>> /\ lastTx' = lastTx + 1 /\ Ask("load", next)
  BY DEF RefreshConfig, Ask, ServerOnly
<1>2. next \in Catalogs /\ next.tx = lastTx + 1
  <2>1. NoCatalog \in Catalogs
    BY DEF NoCatalog, Catalogs, Prints, None
  <2> QED BY <1>0, <2>1, SMTT(30) DEF Catalogs
<1> HIDE DEF next
<1>3. go'.pc = "load" /\ go'.up /\ go'.next = next /\ go'.committed = go.committed
  BY <1>0, <1>1 DEF Servers
<1>4. Limit \in Nat /\ Limit = 4 * lastTx + 3 /\ Limit' = 4 * (lastTx + 1) /\ Rank("load") = 0
  BY <1>0, <1>1, <1>3, Ranks DEF Limit, Busy
<1>5. /\ Ordered(wire', ops') /\ Within(wire', ops', 4 * (lastTx + 1)) /\ Shaped(ops')
      /\ \A x, t : Wired(wire', x, t) <=> Wired(wire, x, t) \/ (x = "load" /\ t = lastTx + 1)
      /\ \A m : Above(wire, m) /\ m < 4 * (lastTx + 1) => Above(wire', m)
  <2>1. "load" \in Controls /\ OrderInv /\ 4 * (lastTx + 1) \in Nat /\ 0 < lastTx + 1 /\ 4 * (lastTx + 1) + 0 = 4 * (lastTx + 1)
        /\ 4 * lastTx + 3 < 4 * (lastTx + 1)
    BY <1>0 DEF Controls, Good
  <2> QED BY <1>1, <1>2, <1>4, <2>1, AskFacts
<1>6. ~Resetting(ops)
  BY DEF RefreshConfig, ResetDone, Resetting
<1>7. \A t : ~ResetPending(t)
  BY <1>6, UnresetQueued DEF ResetPending
<1>8. OrderInv'
  BY <1>0, <1>1, <1>2, <1>3, <1>4, <1>5 DEF OrderInv, Busy, NoReply
<1>9. ResetInv'
  BY <1>1, <1>6 DEF Good, ResetInv
<1>10. \A t \in Nat : Sent("commit", t) => t <= lastTx
  <2> SUFFICES ASSUME NEW t \in Nat, Sent("commit", t) PROVE t <= lastTx
    OBVIOUS
  <2>1. 4 * t + Rank("commit") <= Limit
    BY <1>0, SentWithin DEF Good, OrderInv, Sent, Controls
  <2> QED BY <1>0, <1>4, <2>1, Ranks
<1>11. SessionInv'
  <2>1. \A t \in adapter.transactions : 0 < t /\ pool.active < t /\ t <= lastTx + 1
    <3>1. adapter.transactions \subseteq Nat
      BY DEF ConfigType
    <3> QED BY <1>0, <3>1 DEF Good, SessionInv
  <2>2. \A t \in Nat : Live(t) => Sent("abort", t)
    BY <1>1 DEF Good, SessionInv
  <2>3. \A t \in Nat : Sent("commit", t) => Sent("abort", t)
    BY <1>1, <1>7 DEF Good, SessionInv
  <2>4. \A d \in Nat : Sent("commit", d) => ~(lastTx + 1 < d)
    BY <1>0, <1>10
  <2> QED BY <1>1, <1>3, <1>5, <1>7, <2>1, <2>2, <2>3, <2>4 DEF Good, SessionInv, Live, Sent, ResetPending, NoReply
<1>12. ActivationInv'
  <2>1. ASSUME NEW t \in DOMAIN adapter.active
        PROVE  0 < t /\ 4 * t + 1 <= 4 * (lastTx + 1) /\ Above(wire', 4 * t + 1)
    <3>1. t \in Nat
      BY ActiveMapFacts DEF ConfigType
    <3>2. 0 < t /\ 4 * t + 1 <= Limit /\ Above(wire, 4 * t + 1)
      BY DEF Good, ActivationInv
    <3>3. 4 * t + 1 < 4 * (lastTx + 1)
      BY <1>0, <1>4, <3>1, <3>2
    <3> QED BY <1>0, <1>5, <3>1, <3>2, <3>3
  <2> QED BY <1>1, <1>3, <1>4, <1>5, <2>1 DEF Good, ActivationInv, Activating, Sent, At, NoReply
<1>13. KnownInv'
  <2>1. \A t \in DOMAIN pool.generations \cup DOMAIN pool.hosts : t \in Nat /\ t <= lastTx + 1 /\ t # lastTx + 1
    BY <1>0 DEF Good, KnownInv
  <2>2. pool.active <= lastTx + 1 /\ pool.active < lastTx + 1 /\ 4 * pool.active + 2 < 4 * (lastTx + 1)
    BY <1>0 DEF Good, KnownInv
  <2> QED BY <1>1, <1>3, <1>5, <1>7, <2>1, <2>2 DEF Good, KnownInv, Sent, ResetPending
<1>14. CommittedInv'
  <2>1. go.committed.tx \in Nat
    BY <1>0 DEF Servers, Catalogs
  <2> QED BY <1>0, <1>1, <1>3, <1>5, <2>1 DEF Good, CommittedInv, Sent, Busy, NoReply
<1>15. ServedInv'
  BY <1>1, <1>3 DEF Good, ServedInv, At, NoReply
<1> QED BY <1>1, <1>8, <1>9, <1>11, <1>12, <1>13, <1>14, <1>15 DEF Good

\* The loaded configs are activated.
LEMMA LoadedGood ==
    ASSUME ConfigType, Good, go.pc = "load", NEW next \in Catalogs, next.tx = lastTx,
           go' = [go EXCEPT !.pc = "activate", !.next = next], Ask("activate", next), UNCHANGED lastTx, ServerOnly
    PROVE  Good'
<1>0. /\ go \in Servers /\ lastTx \in Nat /\ pool.active \in Nat /\ pool.rollback.previous \in Nat
      /\ pool.rollback.previous # None => pool.rollback.previous < pool.active
      /\ wire \in Seq(Requests) /\ ops \in Seq(Operations)
  BY DEF ConfigType, Good, Sound, NoRollback
<1>1. /\ go.up /\ go.next.tx = lastTx /\ lastTx > 0 /\ go.next \in Catalogs /\ Busy
  BY <1>0 DEF Good, OrderInv, Busy, Servers
<1>3. /\ go'.pc = "activate" /\ go'.up /\ go'.next = next /\ go'.committed = go.committed
      /\ reply' = NoReply /\ UNCHANGED <<lastTx, adapter, ops, pool, disposed>>
  BY <1>0, <1>1 DEF Servers, Ask, ServerOnly
<1>4. Limit \in Nat /\ Limit = 4 * lastTx /\ Limit' = 4 * lastTx + 1 /\ Rank("activate") = 1
  BY <1>0, <1>3, Ranks DEF Limit, Busy
<1>5. /\ Ordered(wire', ops') /\ Within(wire', ops', 4 * lastTx + 1) /\ Shaped(ops')
      /\ \A x, t : Wired(wire', x, t) <=> Wired(wire, x, t) \/ (x = "activate" /\ t = lastTx)
      /\ \A m : Above(wire, m) /\ m < 4 * lastTx + 1 => Above(wire', m)
  <2>1. "activate" \in Controls /\ OrderInv
    BY DEF Controls, Good
  <2>2. /\ 4 * lastTx + 1 \in Nat /\ Limit < 4 * next.tx + Rank("activate") /\ 0 < next.tx
        /\ 4 * next.tx + Rank("activate") = 4 * lastTx + 1 /\ 4 * next.tx + Rank("activate") <= 4 * lastTx + 1
    BY <1>0, <1>1, <1>4
  <2>3. UNCHANGED ops
    BY <1>3
  <2> QED BY <1>4, <2>1, <2>2, <2>3, AskFacts
<1>6. ~Resetting(ops)
  BY <1>1 DEF Good, ResetInv
<1>7. \A t : ~ResetPending(t)
  BY <1>6, UnresetQueued DEF ResetPending
<1>8. OrderInv'
  BY <1>1, <1>3, <1>4, <1>5 DEF OrderInv, Busy, NoReply
<1>9. ResetInv'
  BY <1>3, <1>6 DEF Good, ResetInv
<1>10. ASSUME NEW op \in {"activate", "commit"} PROVE ~Sent(op, lastTx)
  <2> SUFFICES ASSUME Sent(op, lastTx) PROVE FALSE
    OBVIOUS
  <2>1. 4 * lastTx + Rank(op) <= Limit
    BY <1>0, SentWithin DEF Good, OrderInv, Sent, Controls
  <2> QED BY <1>0, <1>4, <2>1, Ranks
<1>11. SessionInv'
  BY <1>1, <1>3, <1>5, <1>7 DEF Good, SessionInv, Live, Sent, ResetPending, NoReply
<1>12. ActivationInv'
  <2>1. ASSUME NEW t \in DOMAIN adapter.active
        PROVE  0 < t /\ 4 * t + 1 <= 4 * lastTx + 1 /\ Above(wire', 4 * t + 1) /\ t # lastTx
    <3>1. t \in Nat
      BY ActiveMapFacts DEF ConfigType
    <3>2. 0 < t /\ 4 * t + 1 <= Limit /\ Above(wire, 4 * t + 1)
      BY DEF Good, ActivationInv
    <3>3. 4 * t + 1 < 4 * lastTx + 1
      BY <1>0, <1>4, <3>1, <3>2
    <3> QED BY <1>0, <1>5, <3>1, <3>2, <3>3
  <2>2. \A k \in DOMAIN wire' : wire'[k].op = "activate" /\ wire'[k].tx = lastTx => wire'[k].fingerprint = next.fingerprint
    <3>1. wire' = Append(wire, Request("activate", next)) /\ Request("activate", next).fingerprint = next.fingerprint
      BY DEF Ask, Request
    <3>2. \A k \in DOMAIN wire' : (k \in DOMAIN wire /\ wire'[k] = wire[k]) \/ wire'[k] = Request("activate", next)
      BY <1>0, <3>1
    <3>3. ~Wired(wire, "activate", lastTx)
      BY <1>10 DEF Sent
    <3> QED BY <3>1, <3>2, <3>3 DEF Wired
  <2>3. pool.active # lastTx /\ pool.rollback.previous # lastTx
    <3>1. pool.active < lastTx
      BY DEF Good, KnownInv
    <3> QED BY <1>0, <1>1, <3>1 DEF None
  <2>4. \A t \in Nat : Sent("commit", t) => t # lastTx
    BY <1>10
  <2> QED BY <1>3, <1>4, <1>5, <2>1, <2>2, <2>3, <2>4 DEF Good, ActivationInv, Activating, Sent, At, NoReply
<1>13. KnownInv'
  <2>1. pool.active < lastTx /\ 4 * pool.active + 2 < 4 * lastTx + 1
    BY <1>0 DEF Good, KnownInv
  <2> QED BY <1>3, <1>5, <1>7, <2>1 DEF Good, KnownInv, Sent, ResetPending
<1>14. CommittedInv'
  BY <1>1, <1>3, <1>5 DEF Good, CommittedInv, Sent, Busy, NoReply
<1>15. ServedInv'
  BY <1>3 DEF Good, ServedInv, At, NoReply
<1> QED BY <1>3, <1>8, <1>9, <1>11, <1>12, <1>13, <1>14, <1>15 DEF Good

\* The activated configs are committed.
LEMMA ActivatedGood ==
    ASSUME ConfigType, Good, go.pc = "activate", reply.op = "activate", reply.ok, NEW next \in Catalogs,
           next.tx = lastTx, next.fingerprint = go.next.fingerprint, next.plugins => reply.ready /\ go.next.fingerprint # Plain,
           go' = [go EXCEPT !.pc = "commit", !.next = next], Ask("commit", go.next), UNCHANGED lastTx, ServerOnly
    PROVE  Good'
<1>0. /\ go \in Servers /\ lastTx \in Nat /\ pool.active \in Nat /\ pool.rollback.previous \in Nat
      /\ pool.rollback.previous # None => pool.rollback.previous < pool.active
      /\ wire \in Seq(Requests) /\ ops \in Seq(Operations)
  BY DEF ConfigType, Good, Sound, NoRollback
<1>1. /\ go.up /\ go.next.tx = lastTx /\ lastTx > 0 /\ go.next \in Catalogs /\ Busy
  BY <1>0 DEF Good, OrderInv, Busy, Servers
<1>3. /\ go'.pc = "commit" /\ go'.up /\ go'.next = next /\ go'.committed = go.committed
      /\ reply' = NoReply /\ UNCHANGED <<lastTx, adapter, ops, pool, disposed>>
  BY <1>0, <1>1 DEF Servers, Ask, ServerOnly
<1>4. Limit \in Nat /\ Limit = 4 * lastTx + 1 /\ Limit' = 4 * lastTx + 2 /\ Rank("commit") = 2
  BY <1>0, <1>3, Ranks DEF Limit, Busy
<1>5. /\ Ordered(wire', ops') /\ Within(wire', ops', 4 * lastTx + 2) /\ Shaped(ops')
      /\ \A x, t : Wired(wire', x, t) <=> Wired(wire, x, t) \/ (x = "commit" /\ t = lastTx)
      /\ \A m : Above(wire, m) /\ m < 4 * lastTx + 2 => Above(wire', m)
  <2>1. "commit" \in Controls /\ OrderInv
    BY DEF Controls, Good
  <2>2. /\ 4 * lastTx + 2 \in Nat /\ Limit < 4 * go.next.tx + Rank("commit") /\ 0 < go.next.tx
        /\ 4 * go.next.tx + Rank("commit") = 4 * lastTx + 2 /\ 4 * go.next.tx + Rank("commit") <= 4 * lastTx + 2
    BY <1>0, <1>1, <1>4
  <2>3. UNCHANGED ops
    BY <1>3
  <2> QED BY <1>1, <1>4, <2>1, <2>2, <2>3, AskFacts
<1>6. ~Resetting(ops)
  BY <1>1 DEF Good, ResetInv
<1>7. \A t : ~ResetPending(t)
  BY <1>6, UnresetQueued DEF ResetPending
<1>8. OrderInv'
  BY <1>1, <1>3, <1>4, <1>5 DEF OrderInv, Busy, NoReply
<1>9. ResetInv'
  BY <1>3, <1>6 DEF Good, ResetInv
<1>10. \A t \in Nat : Sent("commit", t) => t < lastTx
  <2> SUFFICES ASSUME NEW t \in Nat, Sent("commit", t) PROVE t < lastTx
    OBVIOUS
  <2>1. 4 * t + Rank("commit") <= Limit
    BY <1>0, SentWithin DEF Good, OrderInv, Sent, Controls
  <2> QED BY <1>0, <1>4, <2>1, Ranks
<1>11. SessionInv'
  <2>1. lastTx \in adapter.transactions
    BY DEF Good, SessionInv
  <2>2. \A t \in Nat : Live(t) /\ t < lastTx => Sent("abort", t)
    BY <1>0, <1>1 DEF Good, SessionInv
  <2>3. \A t \in Nat : Sent("commit", t) => Sent("abort", t)
    BY <1>1, <1>7 DEF Good, SessionInv
  <2>4. \A d \in Nat : Sent("commit", d) => ~(lastTx < d)
    BY <1>0, <1>10
  <2>5. ~(lastTx < lastTx)
    BY <1>0
  <2> QED BY <1>1, <1>3, <1>5, <1>7, <2>1, <2>2, <2>3, <2>4, <2>5 DEF Good, SessionInv, Live, Sent, ResetPending, NoReply
<1>12. ActivationInv'
  <2>1. ASSUME NEW t \in DOMAIN adapter.active
        PROVE  0 < t /\ 4 * t + 1 <= 4 * lastTx + 2 /\ Above(wire', 4 * t + 1)
    <3>1. t \in Nat
      BY ActiveMapFacts DEF ConfigType
    <3>2. 0 < t /\ 4 * t + 1 <= Limit /\ Above(wire, 4 * t + 1)
      BY DEF Good, ActivationInv
    <3>3. 4 * t + 1 < 4 * lastTx + 2
      BY <1>0, <1>4, <3>1, <3>2
    <3> QED BY <1>0, <1>5, <3>1, <3>2, <3>3
  <2>2. ~Activating(lastTx)
    BY DEF Good, ActivationInv
  <2> QED BY <1>3, <1>4, <1>5, <2>1, <2>2 DEF Good, ActivationInv, Activating, Sent, At, NoReply
<1>13. KnownInv'
  <2>1. pool.active < lastTx /\ 4 * pool.active + 2 < 4 * lastTx + 2
    BY <1>0 DEF Good, KnownInv
  <2> QED BY <1>3, <1>5, <1>7, <2>1 DEF Good, KnownInv, Sent, ResetPending
<1>14. CommittedInv'
  BY <1>1, <1>3, <1>5 DEF Good, CommittedInv, Sent, Busy, NoReply
<1>15. ServedInv'
  BY <1>3 DEF Good, ServedInv, At, NoReply
<1> QED BY <1>3, <1>8, <1>9, <1>11, <1>12, <1>13, <1>14, <1>15 DEF Good

\* The refresh is over: its catalog is committed, or nothing is.
LEMMA IdleGood ==
    ASSUME ConfigType, Good, go'.pc = "idle", go'.up = go.up, reply' = NoReply, UNCHANGED <<lastTx, wire>>, ServerOnly,
           \/ go.pc = "abort" /\ go'.committed = go.committed
           \/ go.pc = "commit" /\ reply.op = "commit" /\ reply.ok /\ go'.committed = go.next
    PROVE  Good'
<1>0. /\ go \in Servers /\ lastTx \in Nat /\ pool.active \in Nat /\ pool.rollback.previous \in Nat
      /\ pool.rollback.previous # None => pool.rollback.previous < pool.active
      /\ wire \in Seq(Requests) /\ ops \in Seq(Operations)
  BY DEF ConfigType, Good, Sound, NoRollback
<1>1. /\ go.up /\ go.next.tx = lastTx /\ lastTx > 0 /\ Busy
  BY <1>0 DEF Good, OrderInv, Busy, Servers
<1>2. UNCHANGED <<adapter, ops, pool, disposed>>
  BY DEF ServerOnly
<1>4. Limit \in Nat /\ Limit <= 4 * lastTx + 3 /\ Limit' = 4 * lastTx + 3 /\ Limit' \in Nat
  BY <1>0, Ranks DEF Limit, Busy
<1>6. ~Resetting(ops)
  BY <1>1 DEF Good, ResetInv
<1>7. \A t : ~ResetPending(t)
  BY <1>6, UnresetQueued DEF ResetPending
<1>8. OrderInv'
  <2>1. Within(wire, ops, Limit')
    BY <1>0, <1>4, WithinMore DEF Good, OrderInv
  <2> QED BY <1>2, <2>1 DEF Good, OrderInv, Busy, NoReply
<1>9. ResetInv'
  BY <1>2, <1>6 DEF Good, ResetInv
<1>10. go.pc = "commit" => pool.active = lastTx /\ (\A t : ~Sent("commit", t)) /\ (\A t : ~Sent("abort", t))
  <2> SUFFICES ASSUME go.pc = "commit" PROVE pool.active = lastTx /\ (\A t : ~Sent("commit", t)) /\ (\A t : ~Sent("abort", t))
    OBVIOUS
  <2>1. reply.op = "commit" /\ reply.ok /\ pool.active = lastTx /\ Quiet(wire) /\ Unasked(ops)
    BY DEF Good, OrderInv, CommittedInv
  <2> QED BY <2>1, QuietWired DEF Sent, Controls
<1>11. SessionInv'
  <2>1. go.pc = "commit" => \A t \in adapter.transactions : FALSE
    <3>1. adapter.transactions \subseteq Nat
      BY DEF ConfigType
    <3> QED BY <1>0, <1>10, <3>1 DEF Good, SessionInv
  <2>2. go.pc = "commit" => \A t : ~Wired(wire, "load", t)
    BY QuietWired DEF Good, OrderInv, Controls
  <2> QED BY <1>1, <1>2, <1>7, <1>10, <2>1, <2>2 DEF Good, SessionInv, Live, Sent, ResetPending, NoReply
<1>12. ActivationInv'
  <2>1. ASSUME NEW t \in DOMAIN adapter.active PROVE 0 < t /\ 4 * t + 1 <= 4 * lastTx + 3 /\ Above(wire, 4 * t + 1)
    <3>1. t \in Nat
      BY ActiveMapFacts DEF ConfigType
    <3> QED BY <1>0, <1>4, <3>1 DEF Good, ActivationInv
  <2> QED BY <1>2, <1>4, <2>1 DEF Good, ActivationInv, Activating, Sent, At, NoReply
<1>13. KnownInv'
  BY <1>2 DEF Good, KnownInv, Sent, ResetPending
<1>14. CommittedInv'
  <2>1. CASE go.pc = "abort"
    BY <1>1, <1>2, <2>1 DEF Good, CommittedInv, Sent, Busy, NoReply
  <2>2. CASE go.pc = "commit"
    <3>1. go'.committed.tx = lastTx /\ lastTx <= lastTx
      BY <1>0, <1>1, <2>2
    <3> QED BY <1>1, <1>2, <1>10, <2>2, <3>1 DEF Good, CommittedInv, Sent, Busy, NoReply
  <2> QED BY <2>1, <2>2
<1>15. ServedInv'
  <2>1. lastTx # None
    BY <1>0, <1>1 DEF None
  <2> QED BY <1>1, <1>2, <2>1 DEF Good, ServedInv, At, NoReply
<1> QED BY <1>2, <1>8, <1>9, <1>11, <1>12, <1>13, <1>14, <1>15 DEF Good

-----------------------------------------------------------------------------
(* Lints, the ends of lints and the grace timers.                          *)

\* A generation that is kept is served as before.
LEMMA ServesKept ==
    ASSUME NEW p, NEW q, NEW S, NEW N, NEW t, NEW fp, Keeps(p, q, S, N), Serves(p, t, fp), t \notin S
    PROVE  Serves(q, t, fp)
BY DEF Keeps, Serves, Routed

\* What may be lost by a timer is older than what is committed, and than all that is under way.
LEMMA OlderLost ==
    ASSUME ConfigType, Good, NEW x \in Nat, x < Floor(pool)
    PROVE  /\ x < pool.active /\ x < lastTx /\ x \notin adapter.transactions
           /\ go.committed.tx # None => x # go.committed.tx
<1>0. /\ lastTx \in Nat /\ pool.active \in Nat /\ pool.rollback.previous \in Nat /\ adapter.transactions \subseteq Nat
      /\ pool.active <= lastTx
  BY DEF ConfigType, Good, Sound, KnownInv
<1>1. CASE pool.rollback.generation = None
  <2>1. pool.rollback.previous = None /\ Floor(pool) = pool.active
    BY <1>1 DEF Good, Sound, NoRollback, Floor
  <2>2. go.committed.tx # None => go.committed.tx = pool.active
    BY <2>1 DEF Good, CommittedInv
  <2>3. \A t \in adapter.transactions : pool.active < t
    BY DEF Good, SessionInv
  <2> QED BY <1>0, <2>1, <2>2, <2>3
<1>2. CASE pool.rollback.generation # None
  <2>1. pool.rollback.previous < pool.active /\ Floor(pool) = pool.rollback.previous
    BY <1>2 DEF Good, Sound, Floor
  <2>2. go.committed.tx # None => go.committed.tx \in {pool.active, pool.rollback.previous}
    BY DEF Good, CommittedInv
  <2>3. \A t \in adapter.transactions : pool.active < t
    BY DEF Good, SessionInv
  <2> QED BY <1>0, <2>1, <2>2, <2>3
<1> QED BY <1>1, <1>2

\* Steps on lints and timers keep the order of the control requests and what is served.
LEMMA LintsGood ==
    ASSUME ConfigType, Good, UNCHANGED <<go, lastTx, reply, adapter, ops>>,
           Ordered(wire', ops), \A m : Within(wire, ops, m) => Within(wire', ops, m),
           \A m : Above(wire, m) => Above(wire', m), Quiet(wire) => Quiet(wire'),
           \A op \in Controls : \A t : Wired(wire', op, t) <=> Wired(wire, op, t),
           \A k \in DOMAIN wire' : wire'[k].op = "activate" => \E j \in DOMAIN wire : wire'[k] = wire[j],
           Sound(pool'), pool'.active = pool.active, pool'.rollback = pool.rollback,
           NEW S, Keeps(pool, pool', S, {}), \A x \in S : x \in Nat /\ x < Floor(pool)
    PROVE  Good'
<1>0. "load" \in Controls /\ "activate" \in Controls /\ "commit" \in Controls /\ "abort" \in Controls
  BY DEF Controls
<1>1. /\ \A t : Wired(wire', "load", t) <=> Wired(wire, "load", t)
      /\ \A t : Wired(wire', "activate", t) <=> Wired(wire, "activate", t)
      /\ \A t : Wired(wire', "commit", t) <=> Wired(wire, "commit", t)
      /\ \A t : Wired(wire', "abort", t) <=> Wired(wire, "abort", t)
  BY <1>0
<1>2. OrderInv'
  BY DEF Good, OrderInv, Busy, Limit
<1>3. ResetInv'
  BY DEF Good, ResetInv, Busy
<1>4. SessionInv'
  BY <1>1 DEF Good, SessionInv, Live, Sent, ResetPending
<1>5. ActivationInv'
  <2>1. \A t \in DOMAIN adapter.active : 0 < t /\ 4 * t + 1 <= Limit /\ Above(wire', 4 * t + 1)
    BY DEF Good, ActivationInv
  <2>2. Limit' = Limit
    BY DEF Limit, Busy
  <2>3. go.pc = "activate" => \A k \in DOMAIN wire' : wire'[k].op = "activate" /\ wire'[k].tx = lastTx
                                                     => wire'[k].fingerprint = go.next.fingerprint
    BY DEF Good, ActivationInv
  <2> QED BY <1>1, <2>1, <2>2, <2>3 DEF Good, ActivationInv, Activating, Sent, At
<1>6. KnownInv'
  <2>1. DOMAIN pool'.generations \subseteq DOMAIN pool.generations /\ DOMAIN pool'.hosts \subseteq DOMAIN pool.hosts
    BY DEF Keeps
  <2> QED BY <1>1, <2>1 DEF Good, KnownInv, Sent, ResetPending
<1>7. CommittedInv'
  BY <1>1 DEF Good, CommittedInv, Sent, Busy
<1>8. ServedInv'
  <2>1. /\ \A x \in S : x \notin adapter.transactions /\ (go.committed.tx # None => x # go.committed.tx)
        /\ lastTx \notin S
    <3>1. ASSUME NEW x \in S PROVE x \notin adapter.transactions /\ (go.committed.tx # None => x # go.committed.tx) /\ x # lastTx
      <4>1. x \in Nat /\ x < lastTx /\ x \notin adapter.transactions /\ (go.committed.tx # None => x # go.committed.tx) /\ lastTx \in Nat
        BY OlderLost DEF ConfigType
      <4> QED BY <4>1
    <3> QED BY <3>1
  <2>2. \A t, fp : t \notin S /\ Serves(pool, t, fp) => Serves(pool', t, fp)
    BY ServesKept
  <2> QED BY <2>1, <2>2 DEF Good, ServedInv, At
<1> QED BY <1>2, <1>3, <1>4, <1>5, <1>6, <1>7, <1>8 DEF Good

\* A pool that is left alone keeps everything.
LEMMA KeepsItself == \A p : Keeps(p, p, {}, {})
BY DEF Keeps

\* AskLint, lint, its second look, the end of a lint and the grace timer.
LEMMA LintStepsGood ==
    ASSUME ConfigType, Good, ~disposed, AskLint \/ Lint \/ Recheck \/ Hosts
    PROVE  Good'
<1>0. wire \in Seq(Requests) /\ ops \in Seq(Operations) /\ go \in Servers /\ Ordered(wire, ops) /\ Sound(pool)
  BY DEF ConfigType, Good, OrderInv
<1>1. ASSUME NEW g, LintNow(g)
      PROVE  /\ Sound(pool') /\ pool'.active = pool.active /\ pool'.rollback = pool.rollback
             /\ Keeps(pool, pool', {}, {})
  <2>1. CASE pool' = pool
    BY <1>0, <2>1, KeepsItself
  <2>2. CASE Routed(pool, g) /\ pool' = Lease(pool, g)
    BY <1>0, <2>2, LeaseSound
  <2> QED BY <1>1, <2>1, <2>2 DEF LintNow, Servable
<1>2. CASE Recheck \/ Hosts
  <2>1. UNCHANGED <<go, lastTx, reply, adapter, ops, wire>>
    BY <1>2 DEF Recheck, Hosts, ReleaseLint, Expire, PoolOnly
  <2>2. \E S : /\ Keeps(pool, pool', S, {}) /\ \A x \in S : x \in Nat /\ x < Floor(pool)
               /\ Sound(pool') /\ pool'.active = pool.active /\ pool'.rollback = pool.rollback
    <3>1. CASE Recheck
      <4>1. pool' = pool \/ \E g : LintNow(g)
        BY <3>1 DEF Recheck
      <4>2. /\ Sound(pool') /\ pool'.active = pool.active /\ pool'.rollback = pool.rollback
            /\ Keeps(pool, pool', {}, {})
        BY <1>0, <1>1, <4>1, KeepsItself
      <4> QED BY <4>2
    <3>2. CASE \E h \in DOMAIN pool.hosts : ReleaseLint(h)
      BY <1>0, <3>2, ReleaseSound DEF ReleaseLint
    <3>3. CASE \E g \in 1..MaxTx : Expire(g)
      <4>1. PICK g : g \in DOMAIN pool.timers /\ pool' = CompleteRetirement(pool, g)
        BY <3>3 DEF Expire, Timed
      <4>2. /\ Sound(pool') /\ Keeps(pool, pool', {g}, {})
            /\ pool'.active = pool.active /\ pool'.rollback = pool.rollback
        BY <1>0, <4>1, CompleteRetirementSound
      <4>3. \A x \in {g} : x \in Nat /\ x < Floor(pool)
        BY <1>0, <4>1 DEF Sound
      <4> QED BY <4>2, <4>3
    <3> QED BY <1>2, <3>1, <3>2, <3>3 DEF Hosts
  <2>3. PICK S : /\ Keeps(pool, pool', S, {}) /\ \A x \in S : x \in Nat /\ x < Floor(pool)
                 /\ Sound(pool') /\ pool'.active = pool.active /\ pool'.rollback = pool.rollback
    BY <2>2
  <2> QED BY <1>0, <2>1, <2>3, LintsGood
<1>3. CASE AskLint
  <2>1. PICK g \in go.generations : wire' = Append(wire, [op |-> "lint", tx |-> g, fingerprint |-> Plain])
    BY <1>3 DEF AskLint
  <2> DEFINE e == [op |-> "lint", tx |-> g, fingerprint |-> Plain]
  <2>2. e \in Requests /\ ~Control(e) /\ e.op = "lint"
    BY <1>0 DEF Servers, Requests, Prints, Control
  <2>3. wire' = Append(wire, e) /\ UNCHANGED <<go, lastTx, reply, adapter, ops, pool>>
    BY <1>3, <2>1 DEF AskLint, ServerOnly
  <2> HIDE DEF e
  <2>4. /\ Ordered(wire', ops) /\ \A m : Within(wire, ops, m) => Within(wire', ops, m)
        /\ Quiet(wire) => Quiet(wire')
    BY <1>0, <2>2, <2>3, LintOrdered
  <2>5. /\ \A m : Above(wire, m) => Above(wire', m)
        /\ \A op \in Controls : \A t : Wired(wire', op, t) <=> Wired(wire, op, t)
    BY <1>0, <2>2, <2>3, PushWired DEF Controls
  <2>6. \A k \in DOMAIN wire' : wire'[k].op = "activate" => \E j \in DOMAIN wire : wire'[k] = wire[j]
    <3>1. \A k \in DOMAIN wire' : wire'[k] = e \/ (k \in DOMAIN wire /\ wire'[k] = wire[k])
      BY <1>0, <2>2, <2>3
    <3> QED BY <2>2, <3>1
  <2>7. Keeps(pool, pool', {}, {}) /\ Sound(pool')
    BY <1>0, <2>3, KeepsItself
  <2> QED BY <2>3, <2>4, <2>5, <2>6, <2>7, LintsGood
<1>4. CASE Lint
  <2>1. /\ wire # <<>> /\ Head(wire).op = "lint" /\ wire' = Tail(wire) /\ UNCHANGED <<go, lastTx, reply, adapter, ops>>
    BY <1>4 DEF Lint, OnRequest
  <2>2. /\ Ordered(wire', ops) /\ \A m : Within(wire, ops, m) => Within(wire', ops, m)
        /\ \A m : Above(wire, m) => Above(wire', m)
        /\ Quiet(wire) => Quiet(wire')
        /\ \A op, tx : Wired(wire, op, tx) <=> Wired(wire', op, tx) \/ (op = Head(wire).op /\ tx = Head(wire).tx)
        /\ \A i \in DOMAIN wire' : \E j \in DOMAIN wire : wire'[i] = wire[j]
    BY <1>0, <2>1, PopWire
  <2>3. \A op \in Controls : \A t : Wired(wire', op, t) <=> Wired(wire, op, t)
    BY <2>1, <2>2 DEF Controls
  <2>4. /\ Sound(pool') /\ pool'.active = pool.active /\ pool'.rollback = pool.rollback
        /\ Keeps(pool, pool', {}, {})
    <3>1. pool' = pool \/ \E g : LintNow(g)
      BY <1>4 DEF Lint
    <3> QED BY <1>0, <1>1, <3>1, KeepsItself
  <2> QED BY <2>1, <2>2, <2>3, <2>4, LintsGood
<1> QED BY <1>2, <1>3, <1>4

-----------------------------------------------------------------------------
(* Crash and restart.                                                      *)

\* SetToSeq leaves nothing out.
LEMMA SetToSeqOnto ==
    ASSUME NEW S, IsFiniteSet(S)
    PROVE  \A t \in S : \E k \in 1..Cardinality(S) : SetToSeq(S)[k] = t
<1> DEFINE n == Cardinality(S)
           f == SetToSeq(S)
<1>1. n \in Nat /\ ExistsBijection(1..n, S)
  BY FS_CardinalityType
<1>2. PICK g : g \in Bijection(1..n, S)
  BY <1>1 DEF ExistsBijection
<1>3. g \in [1..n -> S] /\ IsInjective(g)
  BY <1>2 DEF Bijection, Injection
<1>4. f \in [1..n -> S] /\ IsInjective(f)
  BY <1>3 DEF SetToSeq
<1> HIDE DEF n, f
<1>5. Cardinality(1..n) = Cardinality(S)
  BY <1>1, FS_Interval DEF n
<1>6. f \in Injection(1..n, S)
  BY <1>4 DEF Injection
<1>7. f \in Surjection(1..n, S)
  BY <1>5, <1>6, FS_Injection
<1> QED BY <1>7 DEF Surjection, n, f

\* What is in the chain comes before what is on the wire.
LEMMA ChainFirst ==
    ASSUME NEW w, NEW o, Ordered(w, o), NEW op, NEW d, NEW x \in Controls, NEW t,
           Queued(o, op, d, "request"), Wired(w, x, t)
    PROVE  4 * d + Rank(op) < 4 * t + Rank(x)
<1>1. PICK i \in DOMAIN o : o[i] = Operation(op, d, "request")
  BY DEF Queued
<1>2. PICK j \in DOMAIN w : w[j].op = x /\ w[j].tx = t
  BY DEF Wired
<1>3. Requested(o[i]) /\ o[i].op = op /\ o[i].tx = d /\ Control(w[j])
  BY <1>1, <1>2 DEF Requested, Operation, Control, Controls
<1>4. Key(o[i]) < Key(w[j])
  BY <1>3 DEF Ordered
<1> QED BY <1>2, <1>3, <1>4 DEF Key

\* The server crashes: what it has committed is forgotten, what was in the pipe may still be read.
LEMMA CrashGood ==
    ASSUME ConfigType, Good, Crash
    PROVE  Good'
<1>0. /\ go \in Servers /\ lastTx \in Nat /\ pool.active \in Nat /\ pool.rollback.previous \in Nat
      /\ wire \in Seq(Requests) /\ ops \in Seq(Operations)
      /\ Ordered(wire, ops) /\ Within(wire, ops, Limit) /\ adapter.transactions \subseteq Nat
  BY DEF ConfigType, Good, Sound, OrderInv
<1>1. PICK k \in 0..Len(wire) : wire' = SubSeq(wire, 1, k)
  BY DEF Crash
<1>2. /\ ~go'.up /\ go'.pc = "idle" /\ go'.committed = NoCatalog /\ reply' = NoReply
      /\ UNCHANGED <<lastTx, adapter, ops, pool, disposed>>
  BY DEF Crash, NewServer
<1>3. /\ Ordered(wire', ops) /\ \A m : Within(wire, ops, m) => Within(wire', ops, m)
      /\ \A m : Above(wire, m) => Above(wire', m)
      /\ Quiet(wire) => Quiet(wire')
      /\ \A op, tx : Wired(wire', op, tx) => Wired(wire, op, tx)
  BY <1>0, <1>1, PrefixOrdered
<1>4. Limit \in Nat /\ Limit <= 4 * lastTx + 3 /\ Limit' = 4 * lastTx + 3 /\ Limit' \in Nat
  BY <1>0, <1>2, Ranks DEF Limit, Busy, Servers, Controls
<1>5. wire' \in Seq(Requests)
  BY <1>0, <1>1
<1>6. OrderInv'
  <2>1. Within(wire', ops, Limit')
    BY <1>0, <1>3, <1>4, <1>5, WithinMore
  <2> QED BY <1>2, <1>3, <2>1 DEF Good, OrderInv, Busy, NoReply
<1>7. ResetInv'
  BY <1>2, <1>3 DEF Good, ResetInv, Busy, NoCatalog
<1>8. ASSUME NEW t \in Nat, NEW d \in Nat, t < d, Sent("commit", d)', Sent("abort", t)
      PROVE  Sent("abort", t)'
  <2>0. "commit" \in Controls /\ "abort" \in Controls /\ 4 * t + Rank("abort") < 4 * d + Rank("commit")
    BY <1>8, Ranks DEF Controls
  <2>1. CASE Queued(ops, "abort", t, "request")
    BY <1>2, <2>1 DEF Sent
  <2>2. CASE Wired(wire, "abort", t) /\ Wired(wire', "commit", d)
    BY <1>0, <1>1, <2>0, <2>2, PrefixClosed DEF Sent
  <2>3. CASE Wired(wire, "abort", t) /\ Queued(ops, "commit", d, "request")
    <3>1. 4 * d + Rank("commit") < 4 * t + Rank("abort")
      BY <1>0, <2>0, <2>3, ChainFirst
    <3> QED BY <1>8, <3>1, Ranks
  <2> QED BY <1>2, <1>8, <2>1, <2>2, <2>3 DEF Sent
<1>9. SessionInv'
  <2>1. \A t, d \in Nat : Sent("commit", d)' /\ (Live(t) \/ Sent("commit", t))' /\ t < d => Sent("abort", t)'
    <3> SUFFICES ASSUME NEW t \in Nat, NEW d \in Nat, Sent("commit", d)', (Live(t) \/ Sent("commit", t))', t < d
                 PROVE  Sent("abort", t)'
      OBVIOUS
    <3>1. Sent("commit", d) /\ (Live(t) \/ Sent("commit", t))
      BY <1>2, <1>3 DEF Sent, Live
    <3>2. Sent("abort", t)
      BY <3>1 DEF Good, SessionInv
    <3> QED BY <1>8, <3>2
  <2>2. \A t : Sent("commit", t)' => Sent("commit", t)
    BY <1>2, <1>3 DEF Sent
  <2> QED BY <1>2, <2>1, <2>2 DEF Good, SessionInv, ResetPending, NoReply
<1>10. ActivationInv'
  <2>1. ASSUME NEW t \in DOMAIN adapter.active PROVE 0 < t /\ 4 * t + 1 <= 4 * lastTx + 3 /\ Above(wire', 4 * t + 1)
    <3>1. t \in Nat
      BY ActiveMapFacts DEF ConfigType
    <3>2. 0 < t /\ 4 * t + 1 <= Limit /\ Above(wire, 4 * t + 1)
      BY DEF Good, ActivationInv
    <3> QED BY <1>0, <1>3, <1>4, <3>1, <3>2
  <2> QED BY <1>2, <1>3, <1>4, <2>1 DEF Good, ActivationInv, Activating, Sent, At, NoReply
<1>11. KnownInv'
  <2>1. ASSUME NEW a \in Nat, a = pool.active, NEW d \in Nat, Sent("commit", d)', ResetPending(a)
        PROVE  Sent("abort", a)'
    <3>1. Sent("commit", d) /\ a < d
      BY <1>2, <1>3, <2>1 DEF Sent, Good, KnownInv
    <3>2. Sent("abort", a)
      BY <2>1, <3>1 DEF Good, KnownInv
    <3> QED BY <1>8, <2>1, <3>1, <3>2
  <2>2. \A d \in Nat : Sent("commit", d)' /\ ResetPending(pool.active)
            => Wired(wire', "abort", pool.active) \/ Queued(ops', "abort", pool.active, "request")
    BY <1>0, <2>1 DEF Sent
  <2> QED BY <1>2, <1>3, <2>2 DEF Good, KnownInv, Sent, ResetPending
<1>12. CommittedInv'
  BY <1>0, <1>2 DEF CommittedInv, Busy, NoReply, NoCatalog, None
<1>13. ServedInv'
  BY <1>2 DEF Good, ServedInv, At, NoReply, NoCatalog
<1> QED BY <1>2, <1>6, <1>7, <1>9, <1>10, <1>11, <1>12, <1>13 DEF Good

\* resetForServerRestart: an abort for every session the crashed server left.
LEMMA RestartGood ==
    ASSUME ConfigType, Good, Restart
    PROVE  Good'
<1> DEFINE T == adapter.transactions
           r == [k \in 1..Cardinality(Orphans) |-> Operation("abort", SetToSeq(Orphans)[k], "reset")]
<1>0. /\ go \in Servers /\ lastTx \in Nat /\ pool.active \in Nat /\ pool.rollback.previous \in Nat
      /\ pool.rollback.previous # None => pool.rollback.previous < pool.active
      /\ wire \in Seq(Requests) /\ ops \in Seq(Operations)
      /\ Ordered(wire, ops) /\ Within(wire, ops, Limit) /\ Shaped(ops) /\ ResetsLast(ops) /\ T \subseteq Nat
  BY DEF ConfigType, Good, Sound, OrderInv, ResetInv, NoRollback
<1>1. r \in Seq(Operations)
  BY ResetType
<1>2. /\ \A k \in DOMAIN r : r[k] = Operation("abort", r[k].tx, "reset") /\ r[k].tx \in T /\ 0 < r[k].tx
      /\ \A t \in T : \E k \in DOMAIN r : r[k].tx = t
  <2>1. Cardinality(T) \in Nat /\ SetToSeq(T) \in [1..Cardinality(T) -> T] /\ Orphans = T
    BY SetToSeqFacts DEF ConfigType, Orphans
  <2>2. \A k \in 1..Cardinality(T) : r[k] = Operation("abort", SetToSeq(T)[k], "reset") /\ r[k].tx = SetToSeq(T)[k]
    BY <2>1 DEF Operation
  <2>3. DOMAIN r = 1..Cardinality(T)
    BY <2>1
  <2>4. \A t \in T : 0 < t
    BY DEF Good, SessionInv
  <2>5. \A t \in T : \E k \in 1..Cardinality(T) : SetToSeq(T)[k] = t
    BY SetToSeqOnto DEF ConfigType
  <2> HIDE DEF r, T
  <2> QED BY <2>1, <2>2, <2>3, <2>4, <2>5
<1>3. /\ go' = NewServer /\ ~go.up /\ wire = <<>> /\ UNCHANGED <<wire, lastTx, reply, pool, disposed>> /\ ops' = ops \o r
      /\ adapter' = [adapter EXCEPT !.transactions = {}]
  BY DEF Restart
<1>4. adapter'.transactions = {} /\ adapter'.active = adapter.active
  BY <1>3 DEF ConfigType
<1> HIDE DEF r, T
<1>5. /\ Ordered(wire, ops') /\ Shaped(ops') /\ ResetsLast(ops') /\ \A m : Within(wire, ops, m) => Within(wire, ops', m)
      /\ \A x, t, b : b # "reset" => (Queued(ops', x, t, b) <=> Queued(ops, x, t, b))
      /\ \A x, t : Queued(ops', x, t, "reset") <=> Queued(ops, x, t, "reset") \/ (x = "abort" /\ t \in T)
      /\ \A i \in DOMAIN ops' : ops'[i].by # "reset" => i \in DOMAIN ops /\ ops'[i] = ops[i]
  <2>1. /\ DOMAIN ops' = 1..(Len(ops) + Len(r))
        /\ \A i \in DOMAIN ops' : ops'[i] = IF i <= Len(ops) THEN ops[i] ELSE r[i - Len(ops)]
    BY <1>0, <1>1, <1>3
  <2>2. \A k \in DOMAIN r : r[k] = Operation("abort", r[k].tx, "reset") /\ r[k].tx \in T /\ 0 < r[k].tx
    BY <1>2
  <2>3. \A t \in T : \E k \in DOMAIN r : r[k].tx = t
    BY <1>2
  <2>4. ops \in Seq(Operations) /\ Ordered(wire, ops) /\ Shaped(ops) /\ ResetsLast(ops)
    BY <1>0
  <2>5. Ordered(wire, ops \o r) /\ Shaped(ops \o r) /\ ResetsLast(ops \o r)
    BY ONLY <1>1, <2>2, <2>3, <2>4, ResetChain
  <2>6. \A m : Within(wire, ops, m) => Within(wire, ops \o r, m)
    BY ONLY <1>1, <2>2, <2>3, <2>4, ResetChain
  <2>7. \A x, t, b : b # "reset" => (Queued(ops \o r, x, t, b) <=> Queued(ops, x, t, b))
    BY ONLY <1>1, <2>2, <2>3, <2>4, ResetChain
  <2>8. \A x, t : Queued(ops \o r, x, t, "reset") <=> Queued(ops, x, t, "reset") \/ (x = "abort" /\ t \in T)
    BY ONLY <1>1, <2>2, <2>3, <2>4, ResetChain
  <2>9. \A i \in DOMAIN ops' : ops'[i].by # "reset" => i \in DOMAIN ops /\ ops'[i] = ops[i]
    <3>1. \A k \in DOMAIN r : r[k].by = "reset"
      BY <2>2 DEF Operation
    <3>2. DOMAIN ops = 1..Len(ops) /\ DOMAIN r = 1..Len(r) /\ Len(ops) \in Nat /\ Len(r) \in Nat
      BY <1>0, <1>1
    <3> QED BY ONLY <2>1, <3>1, <3>2
  <2>a. ops' = ops \o r
    BY <1>3
  <2> QED BY ONLY <2>5, <2>6, <2>7, <2>8, <2>9, <2>a
<1>6. go'.up /\ go'.pc = "idle" /\ go'.committed = NoCatalog /\ Limit' = 4 * lastTx + 3
  BY <1>0, <1>3 DEF NewServer, Limit, Busy
<1>7. ~Busy /\ Limit = 4 * lastTx + 3 /\ reply.op = "none"
  <2>1. go.pc = "idle"
    BY <1>3 DEF Good, OrderInv, Busy
  <2>2. reply.op # "none" => reply.op = go.pc
    BY DEF Good, OrderInv
  <2>3. reply.op \in Controls \cup {"none"}
    BY DEF ConfigType, Replies
  <2> QED BY <1>0, <2>1, <2>2, <2>3 DEF Busy, Limit, Controls
<1>8. Quiet(wire) /\ (\A x, t : ~Wired(wire, x, t)) /\ \A m : Above(wire, m)
  BY <1>3 DEF Quiet, Wired, Above
<1>9. OrderInv'
  BY <1>0, <1>3, <1>5, <1>6, <1>7 DEF OrderInv, Busy
<1>10. ResetInv'
  BY <1>3, <1>4, <1>5, <1>6, <1>8 DEF ResetInv, Busy, NoCatalog
<1>11. \A t \in T : pool.active < t /\ t \in Nat
  BY <1>0 DEF Good, SessionInv, T
<1>12. SessionInv'
  BY <1>3, <1>4, <1>5, <1>7, <1>8 DEF Good, SessionInv, Live, Sent, ResetPending, T
<1>13. ActivationInv'
  BY <1>3, <1>4, <1>5, <1>6, <1>7, <1>8 DEF Good, ActivationInv, Activating, Sent, At, Mine, StageOf
<1>14. KnownInv'
  <2>1. pool.active \notin T /\ (pool.rollback.previous # None => pool.rollback.previous \notin T)
    BY <1>0, <1>11
  <2> QED BY <1>3, <1>4, <1>5, <1>6, <1>8, <2>1 DEF Good, KnownInv, Sent, ResetPending
<1>15. CommittedInv'
  BY <1>0, <1>3, <1>6, <1>7 DEF CommittedInv, Busy, NoCatalog, None
<1>16. ServedInv'
  BY <1>3, <1>4, <1>6, <1>7 DEF ServedInv, NoCatalog
<1> QED BY <1>3, <1>9, <1>10, <1>12, <1>13, <1>14, <1>15, <1>16 DEF Good

-----------------------------------------------------------------------------
(* The extension's handlers.                                               *)

\* What is known of a control request when its handler starts.
LEMMA HeadFacts ==
    ASSUME ConfigType, Good, NEW op \in Controls, OnRequest(op), NEW t, t = Head(wire).tx
    PROVE  /\ t \in Nat /\ 0 < t /\ t <= lastTx /\ 4 * t + Rank(op) <= Limit /\ Limit \in Nat /\ Limit' = Limit
           /\ wire' \in Seq(Requests) /\ Ordered(wire', ops) /\ Within(wire', ops, Limit)
           /\ \A m : Above(wire, m) => Above(wire', m)
           /\ Above(wire', 4 * t + Rank(op))
           /\ \A x, y : Wired(wire, x, y) <=> Wired(wire', x, y) \/ (x = op /\ y = t)
           /\ \A i \in DOMAIN wire' : \E j \in DOMAIN wire : wire'[i] = wire[j]
           /\ ~Resetting(ops) /\ (\A x : ~ResetPending(x)) /\ reply.op # "commit"
           /\ 4 * pool.active + 2 < 4 * t + Rank(op)
           /\ \A x \in DOMAIN adapter.active : x \in Nat /\ 4 * x + 1 < 4 * t + Rank(op)
           /\ UNCHANGED <<go, lastTx, disposed>>
<1>0. /\ go \in Servers /\ lastTx \in Nat /\ pool.active \in Nat
      /\ wire \in Seq(Requests) /\ ops \in Seq(Operations)
      /\ Ordered(wire, ops) /\ Within(wire, ops, Limit)
  BY DEF ConfigType, Good, Sound, OrderInv
<1>1. wire # <<>> /\ Head(wire).op = op /\ wire' = Tail(wire) /\ UNCHANGED <<go, lastTx, disposed>>
  BY DEF OnRequest
<1>2. /\ wire' \in Seq(Requests) /\ t \in Nat
      /\ Ordered(wire', ops) /\ \A m : Within(wire, ops, m) => Within(wire', ops, m)
      /\ \A m : Above(wire, m) => Above(wire', m)
      /\ Control(Head(wire)) => Above(wire', Key(Head(wire)))
      /\ Quiet(wire) => ~Control(Head(wire))
      /\ \A x, y : Wired(wire, x, y) <=> Wired(wire', x, y) \/ (x = op /\ y = t)
      /\ \A i \in DOMAIN wire' : \E j \in DOMAIN wire : wire'[i] = wire[j]
  BY <1>0, <1>1, PopWire
<1>3. Control(Head(wire)) /\ Key(Head(wire)) = 4 * t + Rank(op)
  BY <1>1 DEF Control, Controls, Key
<1>4. Wired(wire, op, t)
  BY <1>2
<1>5. 0 < t /\ 4 * t + Rank(op) <= Limit
  BY <1>0, <1>4, SentWithin
<1>6. Limit \in Nat /\ Limit <= 4 * lastTx + 3 /\ Limit' = Limit
  BY <1>0, <1>1, Ranks DEF Limit, Busy, Servers, Controls
<1>7. t <= lastTx
  <2>1. Rank(op) \in Nat
    BY Ranks DEF Controls
  <2> QED BY <1>0, <1>2, <1>5, <1>6, <2>1
<1>8. ~Resetting(ops) /\ reply.op # "commit"
  BY <1>2, <1>3 DEF Good, ResetInv, OrderInv
<1>9. \A x : ~ResetPending(x)
  BY <1>8, UnresetQueued DEF ResetPending
<1>10. 4 * pool.active + 2 < 4 * t + Rank(op)
  <2>1. Above(wire, 4 * pool.active + 2)
    BY DEF Good, KnownInv
  <2> QED BY <1>0, <1>4, <2>1, WiredAbove
<1>11. ASSUME NEW x \in DOMAIN adapter.active PROVE x \in Nat /\ 4 * x + 1 < 4 * t + Rank(op)
  <2>1. Above(wire, 4 * x + 1)
    BY DEF Good, ActivationInv
  <2>2. x \in Nat
    BY ActiveMapFacts DEF ConfigType
  <2> QED BY <1>0, <1>4, <2>1, <2>2, WiredAbove
<1> QED BY <1>0, <1>1, <1>2, <1>3, <1>5, <1>6, <1>7, <1>8, <1>9, <1>10, <1>11

\* loadConfigs opens the session of its transaction.
LEMMA LoadConfigsGood ==
    ASSUME ConfigType, Good, LoadConfigs
    PROVE  Good'
<1>0. /\ go \in Servers /\ lastTx \in Nat /\ pool.active \in Nat /\ adapter.transactions \subseteq Nat
      /\ reply \in Replies
  BY DEF ConfigType, Good, Sound
<1>1. PICK t : t = Head(wire).tx
  OBVIOUS
<1>2. /\ t \in Nat /\ 0 < t /\ t <= lastTx /\ 4 * t + Rank("load") <= Limit /\ Limit \in Nat /\ Limit' = Limit
      /\ wire' \in Seq(Requests) /\ Ordered(wire', ops) /\ Within(wire', ops, Limit)
      /\ \A m : Above(wire, m) => Above(wire', m)
      /\ \A x, y : Wired(wire, x, y) <=> Wired(wire', x, y) \/ (x = "load" /\ y = t)
      /\ \A i \in DOMAIN wire' : \E j \in DOMAIN wire : wire'[i] = wire[j]
      /\ ~Resetting(ops) /\ reply.op # "commit"
      /\ 4 * pool.active + 2 < 4 * t + Rank("load")
      /\ \A x \in DOMAIN adapter.active : x \in Nat /\ 4 * x + 1 < 4 * t + Rank("load")
      /\ UNCHANGED <<go, lastTx, disposed>>
  <2>1. "load" \in Controls /\ OnRequest("load")
    BY DEF Controls, LoadConfigs
  <2> QED BY <1>1, <2>1, HeadFacts
<1>3. pool.active < t /\ t \notin DOMAIN adapter.active
  BY <1>0, <1>2, Ranks
<1>4. /\ adapter.transactions \subseteq adapter'.transactions /\ adapter'.transactions \subseteq adapter.transactions \cup {t}
      /\ adapter'.active = adapter.active
  BY <1>1 DEF LoadConfigs, ConfigType
<1>5. UNCHANGED <<ops, pool>>
  BY DEF LoadConfigs
<1>6. reply' = reply \/ (reply'.op = "load" /\ go.pc = "load")
  BY DEF LoadConfigs, Reply
<1>7. /\ reply'.op # "none" => reply'.op = go.pc
      /\ reply'.op # "commit"
      /\ reply'.op = "activate" => reply' = reply
  BY <1>2, <1>6 DEF Good, OrderInv
<1>8. OrderInv'
  BY <1>2, <1>5, <1>7 DEF Good, OrderInv, Busy
<1>9. ResetInv'
  BY <1>2, <1>5 DEF Good, ResetInv
<1>10. /\ \A x : Sent("commit", x)' <=> Sent("commit", x)
       /\ \A x : Sent("abort", x)' <=> Sent("abort", x)
       /\ \A x : ResetPending(x)' <=> ResetPending(x)
       /\ \A x : Wired(wire', "activate", x) <=> Wired(wire, "activate", x)
       /\ \A x : Live(x)' => Live(x)
  BY <1>2, <1>4, <1>5 DEF Sent, ResetPending, Live
<1>11. SessionInv'
  <2>1. \A x \in adapter'.transactions : 0 < x /\ pool.active < x /\ x <= lastTx
    BY <1>2, <1>3, <1>4 DEF Good, SessionInv
  <2> QED BY <1>2, <1>4, <1>5, <1>7, <1>10, <2>1 DEF Good, SessionInv
<1>12. ActivationInv'
  BY <1>2, <1>4, <1>5, <1>7, <1>10 DEF Good, ActivationInv, Activating, At
<1>13. KnownInv'
  BY <1>2, <1>4, <1>5, <1>10 DEF Good, KnownInv, Sent, ResetPending
<1>14. CommittedInv'
  BY <1>2, <1>5, <1>7, <1>10 DEF Good, CommittedInv, Busy, Sent
<1>15. ServedInv'
  BY <1>2, <1>3, <1>4, <1>5, <1>7 DEF Good, ServedInv, At
<1> QED BY <1>5, <1>8, <1>9, <1>11, <1>12, <1>13, <1>14, <1>15 DEF Good

\* An operation joins the chain.
LEMMA EnqueueFacts ==
    ASSUME ops \in Seq(Operations), Shaped(ops), NEW op \in {"prepare", "commit", "abort"}, NEW t \in Nat,
           NEW by \in {"request", "activate", "undo"}, Enqueue(op, t, by), <<op, by>> \in Shapes
    PROVE  /\ \A x, y, b : Queued(ops', x, y, b) <=> Queued(ops, x, y, b) \/ (x = op /\ y = t /\ b = by)
           /\ Shaped(ops') /\ (Resetting(ops') <=> Resetting(ops))
           /\ Unasked(ops) /\ by # "request" => Unasked(ops')
           /\ \A i \in DOMAIN ops' : (i \in DOMAIN ops /\ ops'[i] = ops[i])
                                     \/ (i = Len(ops) + 1 /\ ops'[i] = Operation(op, t, by))
<1> DEFINE e == Operation(op, t, by)
<1>1. /\ DOMAIN ops' = 1..(Len(ops) + 1) /\ DOMAIN ops = 1..Len(ops) /\ Len(ops) \in Nat
      /\ ops'[Len(ops) + 1] = e /\ \A i \in DOMAIN ops : ops'[i] = ops[i]
  BY DEF Enqueue
<1>2. e.op = op /\ e.by = by /\ \A x, y, b : e = Operation(x, y, b) <=> x = op /\ y = t /\ b = by
  BY DEF Operation
<1> HIDE DEF e
<1>3. /\ \A i \in DOMAIN ops' : (i \in DOMAIN ops /\ ops'[i] = ops[i]) \/ (i = Len(ops) + 1 /\ ops'[i] = e)
      /\ DOMAIN ops \subseteq DOMAIN ops' /\ Len(ops) + 1 \in DOMAIN ops'
  BY <1>1
<1>4. \A x, y, b : Queued(ops', x, y, b) <=> Queued(ops, x, y, b) \/ (x = op /\ y = t /\ b = by)
  BY <1>1, <1>2, <1>3 DEF Queued
<1>5. Shaped(ops')
  BY <1>2, <1>3 DEF Shaped
<1>6. Resetting(ops') <=> Resetting(ops)
  BY <1>1, <1>2, <1>3 DEF Resetting
<1>7. Unasked(ops) /\ by # "request" => Unasked(ops')
  BY <1>2, <1>3 DEF Unasked, Requested
<1> QED BY <1>3, <1>4, <1>5, <1>6, <1>7 DEF e

\* commitConfigs and abortConfigs move their request from the wire to the chain.
LEMMA MoveGood ==
    ASSUME ConfigType, Good, ~disposed, CommitConfigs \/ AbortConfigs
    PROVE  Good'
<1>0. /\ go \in Servers /\ lastTx \in Nat /\ pool.active \in Nat
      /\ wire \in Seq(Requests) /\ ops \in Seq(Operations)
      /\ Ordered(wire, ops) /\ Within(wire, ops, Limit) /\ Shaped(ops) /\ ResetsLast(ops)
  BY DEF ConfigType, Good, Sound, OrderInv, ResetInv
<1>1. PICK t : t = Head(wire).tx
  OBVIOUS
<1>2. PICK op \in {"commit", "abort"} :
          OnRequest(op) /\ Enqueue(op, t, "request") /\ UNCHANGED <<reply, adapter, pool>>
  BY <1>1 DEF CommitConfigs, AbortConfigs
<1>3. /\ t \in Nat /\ Limit \in Nat /\ Limit' = Limit
      /\ \A m : Above(wire, m) => Above(wire', m)
      /\ \A x, y : Wired(wire, x, y) <=> Wired(wire', x, y) \/ (x = op /\ y = t)
      /\ \A i \in DOMAIN wire' : \E j \in DOMAIN wire : wire'[i] = wire[j]
      /\ ~Resetting(ops) /\ (\A x : ~ResetPending(x)) /\ reply.op # "commit"
      /\ UNCHANGED <<go, lastTx, disposed>>
  <2>1. op \in Controls
    BY DEF Controls
  <2> QED BY <1>1, <1>2, <2>1, HeadFacts
<1>4. wire # <<>> /\ Head(wire).op = op /\ wire' = Tail(wire) /\ ops' = Append(ops, Operation(op, t, "request"))
  BY <1>2 DEF OnRequest, Enqueue
<1>5. Ordered(wire', ops') /\ ResetsLast(ops') /\ Within(wire', ops', Limit)
  BY <1>0, <1>1, <1>3, <1>4, MoveOrdered
<1>6. /\ \A x, y, b : Queued(ops', x, y, b) <=> Queued(ops, x, y, b) \/ (x = op /\ y = t /\ b = "request")
      /\ Shaped(ops') /\ (Resetting(ops') <=> Resetting(ops))
      /\ \A i \in DOMAIN ops' : (i \in DOMAIN ops /\ ops'[i] = ops[i]) \/ ~Mine(ops'[i])
  <2>1. <<op, "request">> \in Shapes
    BY DEF Shapes
  <2>2. /\ \A x, y, b : Queued(ops', x, y, b) <=> Queued(ops, x, y, b) \/ (x = op /\ y = t /\ b = "request")
        /\ Shaped(ops') /\ (Resetting(ops') <=> Resetting(ops))
        /\ \A i \in DOMAIN ops' : (i \in DOMAIN ops /\ ops'[i] = ops[i]) \/ ops'[i] = Operation(op, t, "request")
    <3>1. ops \in Seq(Operations) /\ Shaped(ops) /\ op \in {"prepare", "commit", "abort"} /\ t \in Nat
          /\ "request" \in {"request", "activate", "undo"} /\ Enqueue(op, t, "request")
      BY <1>0, <1>2, <1>3
    <3> QED BY ONLY <2>1, <3>1, EnqueueFacts
  <2>3. ~Mine(Operation(op, t, "request"))
    BY DEF Mine, Operation
  <2> QED BY <2>2, <2>3
<1>7. /\ \A x : Sent("commit", x)' <=> Sent("commit", x)
      /\ \A x : Sent("abort", x)' <=> Sent("abort", x)
      /\ \A x : ResetPending(x)' <=> ResetPending(x)
      /\ \A x : Wired(wire', "activate", x) <=> Wired(wire, "activate", x)
      /\ \A x : Live(x)' <=> Live(x)
      /\ \A x : Activating(x)' <=> Activating(x)
  BY <1>2, <1>3, <1>6 DEF Sent, ResetPending, Live, Activating
<1>8. OrderInv'
  BY <1>2, <1>3, <1>5, <1>6 DEF Good, OrderInv, Busy
<1>9. ResetInv'
  BY <1>3, <1>5, <1>6 DEF ResetInv
<1>10. SessionInv'
  BY <1>2, <1>3, <1>7 DEF Good, SessionInv
<1>11. ActivationInv'
  BY <1>2, <1>3, <1>6, <1>7 DEF Good, ActivationInv, Activating, At
<1>12. KnownInv'
  BY <1>2, <1>3, <1>7 DEF Good, KnownInv, Sent, ResetPending
<1>13. CommittedInv'
  BY <1>2, <1>3, <1>7 DEF Good, CommittedInv, Busy, Sent
<1>14. ServedInv'
  BY <1>2, <1>3 DEF Good, ServedInv, At
<1> QED BY <1>2, <1>8, <1>9, <1>10, <1>11, <1>12, <1>13, <1>14 DEF Good

\* activateConfigs: the activation is under way from here; without a session its undo is queued.
LEMMA ActivateConfigsGood ==
    ASSUME ConfigType, Good, ~disposed, ActivateConfigs
    PROVE  Good'
<1>0. /\ go \in Servers /\ lastTx \in Nat /\ pool.active \in Nat
      /\ wire \in Seq(Requests) /\ ops \in Seq(Operations) /\ Shaped(ops) /\ ResetsLast(ops)
  BY DEF ConfigType, Good, Sound, OrderInv, ResetInv
<1>1. PICK t : t = Head(wire).tx
  OBVIOUS
<1>2. PICK fresh : /\ fresh.stage \in {"summarize", "undo"} /\ fresh.fingerprint = Head(wire).fingerprint
                   /\ adapter' = [adapter EXCEPT !.active = With(@, t, fresh)]
                   /\ IF fresh.stage = "undo" THEN Enqueue("abort", t, "undo") ELSE UNCHANGED ops
                   /\ UNCHANGED <<reply, pool>>
  <2> DEFINE f == [stage |-> IF Head(wire).tx \in adapter.transactions THEN "summarize" ELSE "undo",
                   fingerprint |-> Head(wire).fingerprint, ready |-> FALSE]
  <2>1. /\ adapter' = [adapter EXCEPT !.active = With(@, t, f)]
        /\ IF f.stage = "undo" THEN Enqueue("abort", t, "undo") ELSE UNCHANGED ops
        /\ UNCHANGED <<reply, pool>>
    BY <1>1 DEF ActivateConfigs
  <2>2. f.stage \in {"summarize", "undo"} /\ f.fingerprint = Head(wire).fingerprint
    OBVIOUS
  <2> HIDE DEF f
  <2> QED BY <2>1, <2>2
<1>3. /\ t \in Nat /\ 0 < t /\ t <= lastTx /\ 4 * t + Rank("activate") <= Limit /\ Limit \in Nat /\ Limit' = Limit
      /\ wire' \in Seq(Requests) /\ Ordered(wire', ops) /\ Within(wire', ops, Limit)
      /\ \A m : Above(wire, m) => Above(wire', m)
      /\ Above(wire', 4 * t + Rank("activate"))
      /\ \A x, y : Wired(wire, x, y) <=> Wired(wire', x, y) \/ (x = "activate" /\ y = t)
      /\ \A i \in DOMAIN wire' : \E j \in DOMAIN wire : wire'[i] = wire[j]
      /\ ~Resetting(ops) /\ reply.op # "commit"
      /\ 4 * pool.active + 2 < 4 * t + Rank("activate")
      /\ \A x \in DOMAIN adapter.active : x \in Nat /\ 4 * x + 1 < 4 * t + Rank("activate")
      /\ UNCHANGED <<go, lastTx, disposed>>
  <2>1. "activate" \in Controls /\ OnRequest("activate")
    BY DEF Controls, ActivateConfigs
  <2> QED BY <1>1, <2>1, HeadFacts
<1>4. t \notin DOMAIN adapter.active /\ 4 * t + 1 <= Limit /\ Above(wire', 4 * t + 1)
  BY <1>3, Ranks
<1>5. /\ adapter'.transactions = adapter.transactions
      /\ DOMAIN adapter'.active = DOMAIN adapter.active \cup {t}
      /\ adapter'.active[t] = fresh /\ \A x \in DOMAIN adapter.active : adapter'.active[x] = adapter.active[x]
  BY <1>2, <1>4 DEF ConfigType, With
<1>6. \A x, y : At(x, y)' <=> At(x, y) \/ (x = t /\ y = fresh.stage)
  BY <1>4, <1>5 DEF At
<1>7. /\ Ordered(wire', ops') /\ ResetsLast(ops') /\ Within(wire', ops', Limit)
      /\ \A x, y, b : b # "undo" => (Queued(ops', x, y, b) <=> Queued(ops, x, y, b))
      /\ Shaped(ops') /\ ~Resetting(ops')
      /\ \A i \in DOMAIN ops' : (i \in DOMAIN ops /\ ops'[i] = ops[i])
                                \/ (i = Len(ops) + 1 /\ ops'[i] = Operation("abort", t, "undo") /\ fresh.stage = "undo")
  <2>1. CASE fresh.stage # "undo"
    BY <1>0, <1>2, <1>3, <2>1
  <2>2. CASE fresh.stage = "undo"
    <3>1. /\ ops \in Seq(Operations) /\ Shaped(ops) /\ "abort" \in {"prepare", "commit", "abort"} /\ t \in Nat
          /\ "undo" \in {"request", "activate", "undo"} /\ Enqueue("abort", t, "undo") /\ <<"abort", "undo">> \in Shapes
      BY <1>0, <1>2, <1>3, <2>2 DEF Shapes
    <3>2. /\ \A x, y, b : b # "undo" => (Queued(ops', x, y, b) <=> Queued(ops, x, y, b))
          /\ Shaped(ops') /\ (Resetting(ops') <=> Resetting(ops))
          /\ \A i \in DOMAIN ops' : (i \in DOMAIN ops /\ ops'[i] = ops[i])
                                    \/ (i = Len(ops) + 1 /\ ops'[i] = Operation("abort", t, "undo"))
      BY ONLY <3>1, EnqueueFacts
    <3>3. Ordered(wire', ops') /\ ResetsLast(ops') /\ Within(wire', ops', Limit)
      <4>1. ops' = Append(ops, Operation("abort", t, "undo"))
        BY <3>1 DEF Enqueue
      <4> QED BY <1>0, <1>3, <4>1, OwnOrdered
    <3> QED BY <1>3, <2>2, <3>2, <3>3
  <2> QED BY <2>1, <2>2
<1>8. /\ \A x : Sent("commit", x)' <=> Sent("commit", x)
      /\ \A x : Sent("abort", x)' <=> Sent("abort", x)
      /\ \A x : ResetPending(x)' <=> ResetPending(x)
      /\ \A x : Wired(wire', "activate", x) => Wired(wire, "activate", x)
      /\ \A x : Live(x)' <=> Live(x)
      /\ \A x : Activating(x)' <=> Activating(x)
  BY <1>3, <1>5, <1>7 DEF Sent, ResetPending, Live, Activating
<1>9. OrderInv'
  BY <1>2, <1>3, <1>7 DEF Good, OrderInv, Busy
<1>10. ResetInv'
  BY <1>7 DEF ResetInv
<1>11. SessionInv'
  BY <1>2, <1>3, <1>5, <1>8 DEF Good, SessionInv
<1>12. ActivationInv'
  <2>1. \A x \in DOMAIN adapter'.active : 0 < x /\ 4 * x + 1 <= Limit /\ Above(wire', 4 * x + 1)
    BY <1>3, <1>4, <1>5 DEF Good, ActivationInv
  <2>2. \A k \in DOMAIN ops : Mine(ops[k]) => At(ops[k].tx, StageOf(ops[k])) /\ ops[k].tx # t
    BY <1>4 DEF Good, ActivationInv, At
  <2>3. (\A k \in DOMAIN ops : Mine(ops[k]) => At(ops[k].tx, StageOf(ops[k])))'
    <3> SUFFICES ASSUME NEW k \in DOMAIN ops', Mine(ops'[k])
                 PROVE  ops'[k].tx \in DOMAIN adapter'.active /\ adapter'.active[ops'[k].tx].stage = StageOf(ops'[k])
      BY DEF At
    <3>1. CASE k \in DOMAIN ops /\ ops'[k] = ops[k]
      <4>1. At(ops[k].tx, StageOf(ops[k]))
        BY <2>2, <3>1
      <4> QED BY <1>5, <2>2, <3>1, <4>1 DEF At
    <3>2. CASE ops'[k] = Operation("abort", t, "undo") /\ fresh.stage = "undo"
      <4>1. ops'[k].tx = t /\ StageOf(ops'[k]) = "undo"
        BY <3>2 DEF Operation, StageOf
      <4> QED BY <1>5, <3>2, <4>1 DEF At
    <3> QED BY <1>7, <3>1, <3>2
  <2>4. \A i, j \in DOMAIN ops' : Mine(ops'[i]) /\ Mine(ops'[j]) /\ i # j => ops'[i].tx # ops'[j].tx
    <3>1. Operation("abort", t, "undo").tx = t
      BY DEF Operation
    <3> QED BY <1>7, <2>2, <3>1 DEF Good, ActivationInv
  <2>5. go.pc = "activate" /\ lastTx = t => fresh.fingerprint = go.next.fingerprint
    <3>1. wire # <<>> /\ Head(wire).op = "activate"
      BY DEF ActivateConfigs, OnRequest
    <3>2. 1 \in DOMAIN wire /\ wire[1] = Head(wire)
      BY <1>0, <3>1
    <3> QED BY <1>1, <1>2, <3>1, <3>2 DEF Good, ActivationInv
  <2>6. go.pc = "activate" =>
          /\ lastTx \in DOMAIN adapter'.active => adapter'.active[lastTx].fingerprint = go.next.fingerprint
          /\ \A k \in DOMAIN wire' : wire'[k].op = "activate" /\ wire'[k].tx = lastTx => wire'[k].fingerprint = go.next.fingerprint
    BY <1>3, <1>5, <2>5 DEF Good, ActivationInv
  <2>7. /\ \A x \in Nat : Sent("commit", x)' => ~Activating(x)'
        /\ go.pc = "commit" \/ reply.op = "activate" => ~Activating(lastTx)'
    BY <1>3, <1>8 DEF Good, ActivationInv
  <2>8. ~Activating(pool.active)' /\ ~Activating(pool.rollback.previous)'
    BY <1>2, <1>3, <1>5 DEF Good, ActivationInv, Activating
  <2> QED BY <1>2, <1>3, <2>1, <2>3, <2>4, <2>6, <2>7, <2>8 DEF ActivationInv
<1>13. KnownInv'
  <2>1. t \notin DOMAIN pool.generations \cup DOMAIN pool.hosts
    BY <1>3 DEF Good, KnownInv
  <2>2. \A x \in DOMAIN pool.generations \cup DOMAIN pool.hosts :
          x \in DOMAIN adapter'.active => adapter'.active[x].stage \in {"verify", "undo"}
    BY <1>5, <2>1 DEF Good, KnownInv
  <2> QED BY <1>2, <1>3, <1>8, <2>2 DEF Good, KnownInv, Sent, ResetPending
<1>14. CommittedInv'
  BY <1>2, <1>3, <1>8 DEF Good, CommittedInv, Busy, Sent
<1>15. ServedInv'
  <2>1. \A x \in adapter.transactions : At(x, "verify")' /\ adapter'.active[x].ready => Serves(pool, x, adapter'.active[x].fingerprint)
    BY <1>2, <1>4, <1>5 DEF Good, ServedInv, At
  <2> QED BY <1>2, <1>3, <1>5, <2>1 DEF Good, ServedInv
<1> QED BY <1>2, <1>9, <1>10, <1>11, <1>12, <1>13, <1>14, <1>15 DEF Good

-----------------------------------------------------------------------------
(* Activations under way.                                                  *)

\* An activation moves on to its prepare or to its undo.
LEMMA StagedGood ==
    ASSUME ConfigType, Good, NEW t, NEW op, NEW by, NEW stage, At(t, "summarize") \/ At(t, "verify"),
           \/ op = "prepare" /\ by = "activate" /\ stage = "prepare" /\ At(t, "summarize")
           \/ op = "abort" /\ by = "undo" /\ stage = "undo",
           adapter' = Staged(t, stage), Enqueue(op, t, by), UNCHANGED <<go, lastTx, wire, reply, pool>>
    PROVE  Good'
<1>0. /\ go \in Servers /\ lastTx \in Nat /\ pool.active \in Nat
      /\ wire \in Seq(Requests) /\ ops \in Seq(Operations) /\ Shaped(ops) /\ ResetsLast(ops)
      /\ Ordered(wire, ops) /\ Within(wire, ops, Limit)
  BY DEF ConfigType, Good, Sound, OrderInv, ResetInv
<1>1. t \in DOMAIN adapter.active /\ t \in Nat /\ ~At(t, "prepare") /\ ~At(t, "undo")
  BY ActiveMapFacts DEF At, ConfigType
<1>2. /\ adapter'.transactions = adapter.transactions
      /\ DOMAIN adapter'.active = DOMAIN adapter.active
      /\ adapter'.active[t].stage = stage /\ adapter'.active[t].fingerprint = adapter.active[t].fingerprint
      /\ \A x \in DOMAIN adapter.active : x # t => adapter'.active[x] = adapter.active[x]
  <2>1. adapter.active[t] \in Activations
    BY <1>1, ActiveMapFacts DEF ConfigType
  <2>2. adapter'.active = [adapter.active EXCEPT ![t] = [adapter.active[t] EXCEPT !.stage = stage]]
    BY DEF Staged, ConfigType
  <2>3. adapter'.transactions = adapter.transactions
    BY DEF Staged, ConfigType
  <2> QED BY <1>1, <2>1, <2>2, <2>3 DEF Activations
<1>3. op \in {"prepare", "commit", "abort"} /\ by \in {"request", "activate", "undo"} /\ <<op, by>> \in Shapes /\ by # "request"
  BY DEF Shapes
<1>4. /\ \A x, y, b : Queued(ops', x, y, b) <=> Queued(ops, x, y, b) \/ (x = op /\ y = t /\ b = by)
      /\ Shaped(ops') /\ (Resetting(ops') <=> Resetting(ops))
      /\ Unasked(ops) => Unasked(ops')
      /\ \A i \in DOMAIN ops' : (i \in DOMAIN ops /\ ops'[i] = ops[i]) \/ (i = Len(ops) + 1 /\ ops'[i] = Operation(op, t, by))
  <2>1. ops \in Seq(Operations) /\ Shaped(ops) /\ t \in Nat /\ Enqueue(op, t, by)
    BY <1>0, <1>1
  <2> QED BY ONLY <1>3, <2>1, EnqueueFacts
<1>5. Ordered(wire, ops') /\ ResetsLast(ops') /\ Within(wire, ops', Limit)
  <2>1. ops' = Append(ops, Operation(op, t, by)) /\ op \in {"prepare", "abort"} /\ by \in {"activate", "undo"}
    BY DEF Enqueue
  <2> QED BY <1>0, <1>1, <2>1, OwnOrdered
<1>6. /\ \A x : Sent("commit", x)' <=> Sent("commit", x)
      /\ \A x : Sent("abort", x)' <=> Sent("abort", x)
      /\ \A x : ResetPending(x)' <=> ResetPending(x)
      /\ \A x : Live(x)' <=> Live(x)
      /\ \A x : Activating(x)' <=> Activating(x)
  BY <1>2, <1>3, <1>4 DEF Sent, ResetPending, Live, Activating
<1>7. Limit' = Limit
  BY DEF Limit, Busy
<1>8. OrderInv'
  BY <1>4, <1>5, <1>7 DEF Good, OrderInv, Busy
<1>9. ResetInv'
  BY <1>2, <1>4, <1>5 DEF Good, ResetInv, Busy
<1>10. SessionInv'
  BY <1>2, <1>6 DEF Good, SessionInv
<1>11. ActivationInv'
  <2>1. \A k \in DOMAIN ops : Mine(ops[k]) => At(ops[k].tx, StageOf(ops[k])) /\ ops[k].tx # t
    BY <1>1 DEF Good, ActivationInv, StageOf
  <2>2. Operation(op, t, by).tx = t /\ StageOf(Operation(op, t, by)) = stage
    BY DEF Operation, StageOf
  <2>3. (\A k \in DOMAIN ops : Mine(ops[k]) => At(ops[k].tx, StageOf(ops[k])))'
    <3> SUFFICES ASSUME NEW k \in DOMAIN ops', Mine(ops'[k])
                 PROVE  ops'[k].tx \in DOMAIN adapter'.active /\ adapter'.active[ops'[k].tx].stage = StageOf(ops'[k])
      BY DEF At
    <3>1. CASE k \in DOMAIN ops /\ ops'[k] = ops[k]
      <4>1. At(ops[k].tx, StageOf(ops[k]))
        BY <2>1, <3>1
      <4> QED BY <1>2, <2>1, <3>1, <4>1 DEF At
    <3>2. CASE ops'[k] = Operation(op, t, by)
      BY <1>1, <1>2, <2>2, <3>2
    <3> QED BY <1>4, <3>1, <3>2
  <2>4. \A i, j \in DOMAIN ops' : Mine(ops'[i]) /\ Mine(ops'[j]) /\ i # j => ops'[i].tx # ops'[j].tx
    BY <1>4, <2>1, <2>2 DEF Good, ActivationInv
  <2>5. \A x \in DOMAIN adapter.active : adapter'.active[x].fingerprint = adapter.active[x].fingerprint
    BY <1>2
  <2>6. ~Activating(pool.active)' /\ ~Activating(pool.rollback.previous)'
    BY <1>2 DEF Good, ActivationInv, Activating
  <2> QED BY <1>2, <1>6, <1>7, <2>3, <2>4, <2>5, <2>6 DEF Good, ActivationInv
<1>12. KnownInv'
  <2>1. \A x \in DOMAIN pool.generations \cup DOMAIN pool.hosts :
          x \in DOMAIN adapter'.active => adapter'.active[x].stage \in {"verify", "undo"}
    BY <1>2 DEF Good, KnownInv, At
  <2> QED BY <1>6, <2>1 DEF Good, KnownInv, Sent, ResetPending
<1>13. CommittedInv'
  BY <1>6 DEF Good, CommittedInv, Busy, Sent
<1>14. ServedInv'
  <2>1. \A x \in adapter.transactions : At(x, "verify")' /\ adapter'.active[x].ready => Serves(pool, x, adapter'.active[x].fingerprint)
    BY <1>1, <1>2 DEF Good, ServedInv, At
  <2> QED BY <1>2, <2>1 DEF Good, ServedInv
<1> QED BY <1>8, <1>9, <1>10, <1>11, <1>12, <1>13, <1>14 DEF Good

\* The activation of a session still open is answered.
LEMMA VerifiedGood ==
    ASSUME ConfigType, Good, NEW t, At(t, "verify"), t \in adapter.transactions,
           adapter' = [adapter EXCEPT !.active = Without(@, {t})],
           Reply("activate", t, TRUE, adapter.active[t].ready), UNCHANGED <<go, lastTx, wire, ops, pool>>
    PROVE  Good'
<1>0. /\ go \in Servers /\ lastTx \in Nat /\ wire \in Seq(Requests)
  BY DEF ConfigType
<1>1. t \in DOMAIN adapter.active /\ t \in Nat /\ ~At(t, "prepare") /\ ~At(t, "undo")
  BY ActiveMapFacts DEF At, ConfigType
<1>2. /\ adapter'.transactions = adapter.transactions
      /\ DOMAIN adapter'.active = DOMAIN adapter.active \ {t}
      /\ \A x \in DOMAIN adapter'.active : adapter'.active[x] = adapter.active[x]
  BY DEF ConfigType, Without, Restrict
<1>3. \/ reply' = reply
      \/ /\ go.pc = "activate" /\ t = lastTx
         /\ reply'.op = "activate" /\ reply'.ok /\ reply'.ready = adapter.active[t].ready
  <2>1. go.pc = "activate" => go.next.tx = lastTx
    BY DEF Good, OrderInv, Busy
  <2> QED BY <2>1 DEF Reply
<1>4. \A x : Activating(x)' => Activating(x)
  BY <1>2 DEF Activating
<1>5. ~Wired(wire, "activate", t)
  <2>1. Above(wire, 4 * t + 1) /\ "activate" \in Controls
    BY <1>1 DEF Good, ActivationInv, Controls
  <2> SUFFICES ASSUME Wired(wire, "activate", t) PROVE FALSE
    OBVIOUS
  <2>2. 4 * t + 1 < 4 * t + Rank("activate")
    BY <1>0, <2>1, WiredAbove
  <2> QED BY <1>1, <2>2, Ranks
<1>6. Limit' = Limit
  BY DEF Limit, Busy
<1>7. OrderInv'
  BY <1>3, <1>6 DEF Good, OrderInv, Busy
<1>8. ResetInv'
  BY <1>2 DEF Good, ResetInv, Busy
<1>9. SessionInv'
  BY <1>2, <1>3 DEF Good, SessionInv, Live, Sent, ResetPending
<1>10. ActivationInv'
  <2>1. (\A k \in DOMAIN ops : Mine(ops[k]) => At(ops[k].tx, StageOf(ops[k])))'
    <3> SUFFICES ASSUME NEW k \in DOMAIN ops, Mine(ops[k])
                 PROVE  ops[k].tx \in DOMAIN adapter'.active /\ adapter'.active[ops[k].tx].stage = StageOf(ops[k])
      BY DEF At
    <3>1. At(ops[k].tx, StageOf(ops[k]))
      BY DEF Good, ActivationInv
    <3>2. ops[k].tx # t
      BY <1>1, <3>1 DEF StageOf
    <3> QED BY <1>2, <3>1, <3>2 DEF At
  <2>2. reply'.op = "activate" => ~Activating(lastTx)'
    <3>1. ~Activating(t)'
      BY <1>2, <1>5 DEF Activating
    <3> QED BY <1>3, <1>4, <3>1 DEF Good, ActivationInv
  <2>3. ~Activating(pool.active)' /\ ~Activating(pool.rollback.previous)'
    BY <1>2 DEF Good, ActivationInv, Activating
  <2>4. \A x \in Nat : Sent("commit", x)' <=> Sent("commit", x)
    BY DEF Sent
  <2> QED BY <1>2, <1>4, <1>6, <2>1, <2>2, <2>3, <2>4 DEF Good, ActivationInv
<1>11. KnownInv'
  BY <1>2 DEF Good, KnownInv, Sent, ResetPending
<1>12. CommittedInv'
  BY <1>3 DEF Good, CommittedInv, Busy, Sent
<1>13. ServedInv'
  <2>1. \A x \in adapter.transactions : At(x, "verify")' /\ adapter'.active[x].ready => Serves(pool, x, adapter'.active[x].fingerprint)
    BY <1>2 DEF Good, ServedInv, At
  <2>2. reply'.op = "activate" /\ reply'.ok /\ reply'.ready => Serves(pool, lastTx, go.next.fingerprint)
    <3>1. go.pc = "activate" /\ t = lastTx => adapter.active[t].fingerprint = go.next.fingerprint
      BY <1>1 DEF Good, ActivationInv
    <3>2. adapter.active[t].ready => Serves(pool, t, adapter.active[t].fingerprint)
      BY DEF Good, ServedInv
    <3> QED BY <1>3, <3>1, <3>2 DEF Good, ServedInv
  <2> QED BY <1>2, <2>1, <2>2 DEF Good, ServedInv
<1> QED BY <1>7, <1>8, <1>9, <1>10, <1>11, <1>12, <1>13 DEF Good

\* The steps of an activation.
LEMMA ActivationStepsGood ==
    ASSUME ConfigType, Good, ~disposed, Activation
    PROVE  Good'
<1>1. PICK t : Summarize(t) \/ Verify(t)
  BY DEF Activation
<1>2. CASE Summarize(t)
  <2>1. /\ At(t, "summarize") /\ UNCHANGED <<go, lastTx, wire, reply, pool>>
        /\ \/ adapter' = Staged(t, "prepare") /\ Enqueue("prepare", t, "activate")
           \/ adapter' = Staged(t, "undo") /\ Enqueue("abort", t, "undo")
    BY <1>2 DEF Summarize, ExtensionOnly
  <2> QED BY <2>1, StagedGood
<1>3. CASE Verify(t)
  <2>1. /\ At(t, "verify") /\ UNCHANGED <<go, lastTx, wire, pool>>
        /\ \/ /\ t \in adapter.transactions /\ adapter' = [adapter EXCEPT !.active = Without(@, {t})]
              /\ Reply("activate", t, TRUE, adapter.active[t].ready) /\ UNCHANGED ops
           \/ adapter' = Staged(t, "undo") /\ Enqueue("abort", t, "undo") /\ UNCHANGED reply
    BY <1>3 DEF Verify, ExtensionOnly, StillOpen
  <2> QED BY <2>1, StagedGood, VerifiedGood
<1> QED BY <1>1, <1>2, <1>3

-----------------------------------------------------------------------------
(* The chain of pool operations.                                           *)

\* What is known of an operation when it runs.
LEMMA SettleFacts ==
    ASSUME ConfigType, Good, NEW op, Settles(op), NEW t, t = Head(ops).tx, NEW by, by = Head(ops).by
    PROVE  /\ t \in Nat /\ ops' \in Seq(Operations) /\ 1 \in DOMAIN ops /\ ops[1].op = op /\ ops[1].tx = t /\ ops[1].by = by
           /\ Ordered(wire, ops') /\ Within(wire, ops', Limit) /\ Shaped(ops') /\ ResetsLast(ops') /\ <<op, by>> \in Shapes
           /\ Unasked(ops) => Unasked(ops') /\ by # "request"
           /\ Resetting(ops') => Resetting(ops)
           /\ by = "reset" => Resetting(ops) /\ Unasked(ops') /\ 0 < t
           /\ \A x, y, b : Queued(ops, x, y, b) <=> Queued(ops', x, y, b) \/ (x = op /\ y = t /\ b = by)
           /\ \A i \in DOMAIN ops' : i \in Nat /\ i + 1 \in DOMAIN ops /\ ops'[i] = ops[i + 1] /\ i + 1 # 1
           /\ Limit \in Nat /\ Limit <= 4 * lastTx + 3 /\ Limit' = Limit /\ UNCHANGED <<go, lastTx, wire, disposed>>
<1>0. /\ go \in Servers /\ lastTx \in Nat /\ wire \in Seq(Requests) /\ ops \in Seq(Operations)
      /\ Ordered(wire, ops) /\ Within(wire, ops, Limit) /\ Shaped(ops) /\ ResetsLast(ops)
  BY DEF ConfigType, Good, OrderInv, ResetInv
<1>1. ops # <<>> /\ Head(ops).op = op /\ ops' = Tail(ops) /\ UNCHANGED <<go, lastTx, wire, disposed>>
  BY DEF Settles, ExtensionOnly
<1>2. /\ ops' \in Seq(Operations) /\ t \in Nat /\ Head(ops) = ops[1] /\ 1 \in DOMAIN ops
      /\ Ordered(wire, ops') /\ Shaped(ops') /\ ResetsLast(ops') /\ <<op, by>> \in Shapes
      /\ \A m : Within(wire, ops, m) => Within(wire, ops', m)
      /\ Unasked(ops) => Unasked(ops') /\ ~Requested(Head(ops))
      /\ Resetting(ops') => Resetting(ops)
      /\ by = "reset" => Resetting(ops) /\ Unasked(ops') /\ 0 < t
      /\ \A i \in DOMAIN ops' : i \in Nat /\ i + 1 \in DOMAIN ops /\ ops'[i] = ops[i + 1] /\ i + 1 # 1
  BY <1>0, <1>1, PopChain
<1>3. \A x, y, b : Queued(ops, x, y, b) <=> Queued(ops', x, y, b) \/ (x = op /\ y = t /\ b = by)
  <2>1. \A x, y, b : Queued(ops, x, y, b) <=> Queued(Tail(ops), x, y, b) \/ (x = Head(ops).op /\ y = Head(ops).tx /\ b = Head(ops).by)
    BY ONLY <1>0, <1>1, PopChain
  <2> QED BY <1>1, <2>1
<1>4. Limit \in Nat /\ Limit <= 4 * lastTx + 3 /\ Limit' = Limit
  BY <1>0, <1>1, Ranks DEF Limit, Busy, Servers, Controls
<1> QED BY <1>0, <1>1, <1>2, <1>3, <1>4 DEF Requested

\* prepare: the generation is installed, and its activation goes on.
LEMMA RunPrepareGood ==
    ASSUME ConfigType, Good, ~disposed, RunPrepare
    PROVE  Good'
<1>1. PICK t, by : t = Head(ops).tx /\ by = Head(ops).by
  OBVIOUS
<1>2. Settles("prepare")
  BY DEF RunPrepare
<1>3. /\ t \in Nat /\ 1 \in DOMAIN ops /\ ops[1].op = "prepare" /\ ops[1].tx = t /\ ops[1].by = by
      /\ Ordered(wire, ops') /\ Within(wire, ops', Limit) /\ Shaped(ops') /\ ResetsLast(ops') /\ <<"prepare", by>> \in Shapes
      /\ Unasked(ops) => Unasked(ops')
      /\ Resetting(ops') => Resetting(ops)
      /\ \A x, y, b : Queued(ops, x, y, b) <=> Queued(ops', x, y, b) \/ (x = "prepare" /\ y = t /\ b = by)
      /\ \A i \in DOMAIN ops' : i \in Nat /\ i + 1 \in DOMAIN ops /\ ops'[i] = ops[i + 1] /\ i + 1 # 1
      /\ Limit \in Nat /\ Limit' = Limit /\ UNCHANGED <<go, lastTx, wire>>
  BY <1>1, <1>2, SettleFacts
<1>4. by = "activate"
  BY <1>3 DEF Shapes
<1>5. At(t, "prepare") /\ \A i \in DOMAIN ops' : Mine(ops'[i]) => ops'[i].tx # t
  <2>1. Mine(ops[1]) /\ StageOf(ops[1]) = "prepare"
    BY <1>3, <1>4 DEF Mine, StageOf
  <2> QED BY <1>3, <2>1 DEF Good, ActivationInv
<1>6. /\ t \in DOMAIN adapter.active /\ adapter.active[t] \in Activations /\ 0 < t /\ 4 * t + 1 <= Limit /\ Above(wire, 4 * t + 1)
      /\ t \notin DOMAIN pool.generations /\ t \notin DOMAIN pool.hosts
  BY <1>5, ActiveMapFacts DEF Good, ActivationInv, KnownInv, At, ConfigType
<1>7. PICK built \in BOOLEAN :
        /\ pool' = Install(t, built)
        /\ adapter' = [adapter EXCEPT !.active[t].stage = "verify", !.active[t].ready = ~disposed /\ Ready(pool', t)]
  BY <1>1 DEF RunPrepare
<1>8. /\ adapter'.transactions = adapter.transactions
      /\ DOMAIN adapter'.active = DOMAIN adapter.active
      /\ adapter'.active[t].stage = "verify" /\ adapter'.active[t].fingerprint = adapter.active[t].fingerprint
      /\ adapter'.active[t].ready <=> Ready(pool', t)
      /\ \A x \in DOMAIN adapter.active : x # t => adapter'.active[x] = adapter.active[x]
  <2>1. /\ adapter'.active = [adapter.active EXCEPT ![t] = [adapter.active[t] EXCEPT !.stage = "verify", !.ready = ~disposed /\ Ready(pool', t)]]
        /\ adapter'.transactions = adapter.transactions
    BY <1>6, <1>7 DEF ConfigType
  <2> QED BY <1>6, <2>1 DEF Activations
<1>9. /\ Sound(pool') /\ Keeps(pool, pool', {}, {t}) /\ pool'.active = pool.active /\ pool'.rollback = pool.rollback
      /\ Ready(pool', t) => Serves(pool', t, adapter.active[t].fingerprint)
  <2>1. Sound(pool) /\ t # None
    BY <1>6 DEF Good, None
  <2>2. Stages(pool, pool', t, adapter.active[t].fingerprint)
    BY <1>3, <1>6, <1>7, <2>1, InstallSound
  <2> QED BY <2>2 DEF Stages
<1>10. UNCHANGED reply
  BY DEF RunPrepare
<1>11. /\ lastTx \in Nat /\ wire \in Seq(Requests) /\ pool.active \in Nat /\ go \in Servers
  BY DEF ConfigType, Good, Sound
<1>12. /\ \A x : Sent("commit", x)' <=> Sent("commit", x)
       /\ \A x : Sent("abort", x)' <=> Sent("abort", x)
       /\ \A x : ResetPending(x)' <=> ResetPending(x)
       /\ \A x : Live(x)' <=> Live(x)
       /\ \A x : Activating(x)' <=> Activating(x)
  BY <1>3, <1>4, <1>8 DEF Sent, ResetPending, Live, Activating
<1>13. OrderInv'
  BY <1>3, <1>10 DEF Good, OrderInv, Busy
<1>14. ResetInv'
  BY <1>3, <1>8 DEF Good, ResetInv, Busy
<1>15. SessionInv'
  BY <1>3, <1>8, <1>9, <1>10, <1>12 DEF Good, SessionInv
<1>16. ActivationInv'
  <2>1. (\A k \in DOMAIN ops : Mine(ops[k]) => At(ops[k].tx, StageOf(ops[k])))'
    <3> SUFFICES ASSUME NEW k \in DOMAIN ops', Mine(ops'[k])
                 PROVE  ops'[k].tx \in DOMAIN adapter'.active /\ adapter'.active[ops'[k].tx].stage = StageOf(ops'[k])
      BY DEF At
    <3>1. At(ops[k + 1].tx, StageOf(ops[k + 1])) /\ ops'[k] = ops[k + 1]
      BY <1>3 DEF Good, ActivationInv
    <3> QED BY <1>5, <1>8, <3>1 DEF At
  <2>2. \A i, j \in DOMAIN ops' : Mine(ops'[i]) /\ Mine(ops'[j]) /\ i # j => ops'[i].tx # ops'[j].tx
    <3> SUFFICES ASSUME NEW i \in DOMAIN ops', NEW j \in DOMAIN ops', Mine(ops'[i]), Mine(ops'[j]), i # j
                 PROVE  ops'[i].tx # ops'[j].tx
      OBVIOUS
    <3>1. i + 1 \in DOMAIN ops /\ j + 1 \in DOMAIN ops /\ ops'[i] = ops[i + 1] /\ ops'[j] = ops[j + 1] /\ i + 1 # j + 1
      BY <1>3
    <3> QED BY <3>1 DEF Good, ActivationInv
  <2>3. \A x \in DOMAIN adapter.active : adapter'.active[x].fingerprint = adapter.active[x].fingerprint
    BY <1>8
  <2>4. ~Activating(pool.active)' /\ ~Activating(pool.rollback.previous)'
    BY <1>3, <1>8, <1>9 DEF Good, ActivationInv, Activating
  <2> QED BY <1>3, <1>8, <1>10, <1>12, <2>1, <2>2, <2>3, <2>4 DEF Good, ActivationInv
<1>17. KnownInv'
  <2>1. t <= lastTx /\ ~(go.pc = "load" /\ t = lastTx)
    BY <1>3, <1>6, <1>11, Ranks DEF Limit, Busy, Servers, Controls
  <2>2. ~Wired(wire, "activate", t)
    <3> SUFFICES ASSUME Wired(wire, "activate", t) PROVE FALSE
      OBVIOUS
    <3>1. 4 * t + 1 < 4 * t + Rank("activate")
      BY <1>6, <1>11, WiredAbove DEF Controls
    <3> QED BY <1>3, <3>1, Ranks
  <2>3. DOMAIN pool'.generations \cup DOMAIN pool'.hosts \subseteq (DOMAIN pool.generations \cup DOMAIN pool.hosts) \cup {t}
    BY <1>9 DEF Keeps
  <2>4. \A x \in DOMAIN pool'.generations \cup DOMAIN pool'.hosts :
          /\ x \in Nat /\ x <= lastTx /\ ~(go.pc = "load" /\ x = lastTx)
          /\ ~Wired(wire, "activate", x)
          /\ x \in DOMAIN adapter'.active => adapter'.active[x].stage \in {"verify", "undo"}
    BY <1>3, <1>8, <2>1, <2>2, <2>3 DEF Good, KnownInv
  <2> QED BY <1>3, <1>9, <1>12, <2>4 DEF Good, KnownInv, Sent, ResetPending
<1>18. CommittedInv'
  BY <1>3, <1>9, <1>10, <1>12 DEF Good, CommittedInv, Busy, Sent
<1>19. ServedInv'
  <2>1. \A x, fp : Serves(pool, x, fp) => Serves(pool', x, fp)
    BY <1>9, ServesKept
  <2>2. \A x \in adapter.transactions : At(x, "verify")' /\ adapter'.active[x].ready => Serves(pool', x, adapter'.active[x].fingerprint)
    BY <1>8, <1>9, <2>1 DEF Good, ServedInv, At
  <2> QED BY <1>3, <1>8, <1>10, <2>1, <2>2 DEF Good, ServedInv
<1> QED BY <1>9, <1>13, <1>14, <1>15, <1>16, <1>17, <1>18, <1>19 DEF Good

\* commit: the generations before it are settled, so that the active one can be its rollback.
LEMMA RunCommitGood ==
    ASSUME ConfigType, Good, ~disposed, RunCommit
    PROVE  Good'
<1>0. /\ go \in Servers /\ lastTx \in Nat /\ pool.active \in Nat /\ pool.rollback.previous \in Nat
      /\ wire \in Seq(Requests) /\ ops \in Seq(Operations) /\ adapter.transactions \subseteq Nat
      /\ Ordered(wire, ops) /\ Within(wire, ops, Limit) /\ Sound(pool)
      /\ "load" \in Controls /\ "activate" \in Controls /\ "commit" \in Controls /\ "abort" \in Controls
  BY DEF ConfigType, Good, Sound, OrderInv, Controls
<1>1. PICK d, by : d = Head(ops).tx /\ by = Head(ops).by
  OBVIOUS
<1>2. Settles("commit")
  BY DEF RunCommit
<1>3. /\ d \in Nat /\ 1 \in DOMAIN ops /\ ops[1].op = "commit" /\ ops[1].tx = d /\ ops[1].by = by
      /\ Ordered(wire, ops') /\ Within(wire, ops', Limit) /\ Shaped(ops') /\ ResetsLast(ops') /\ <<"commit", by>> \in Shapes
      /\ Unasked(ops) => by # "request"
      /\ Resetting(ops') => Resetting(ops)
      /\ \A x, y, b : Queued(ops, x, y, b) <=> Queued(ops', x, y, b) \/ (x = "commit" /\ y = d /\ b = by)
      /\ \A i \in DOMAIN ops' : i \in Nat /\ i + 1 \in DOMAIN ops /\ ops'[i] = ops[i + 1] /\ i + 1 # 1
      /\ Limit \in Nat /\ Limit' = Limit /\ UNCHANGED <<go, lastTx, wire>>
  BY <1>1, <1>2, SettleFacts
<1>4. by = "request"
  BY <1>3 DEF Shapes
<1>5. ops # <<>> /\ ops' = Tail(ops) /\ Head(ops).by = "request" /\ Head(ops).op = "commit"
  BY <1>1, <1>2, <1>4 DEF Settles
<1>6. /\ \A x : Sent("commit", x) <=> Sent("commit", x)' \/ x = d
      /\ \A x : Sent("abort", x)' <=> Sent("abort", x)
      /\ \A x : ResetPending(x)' <=> ResetPending(x)
  BY <1>3, <1>4 DEF Sent, ResetPending
<1>7. Sent("commit", d) /\ 0 < d /\ 4 * d + 2 <= Limit /\ pool.active < d /\ d <= lastTx
  <2>1. Sent("commit", d)
    BY <1>6
  <2>2. 0 < d /\ 4 * d + 2 <= Limit
    BY <1>0, <2>1, SentWithin, Ranks DEF Sent
  <2>3. pool.active < d
    BY <1>3, <2>1 DEF Good, KnownInv
  <2>4. Limit <= 4 * lastTx + 3
    BY <1>0, Ranks DEF Limit, Busy, Servers, Controls
  <2> QED BY <1>0, <1>3, <2>1, <2>2, <2>3, <2>4
<1>8. ASSUME NEW x \in Nat
      PROVE  (Sent("abort", x) => d <= x) /\ (Sent("commit", x)' => d < x)
  <2>1. ASSUME Sent("abort", x) PROVE d <= x
    <3>1. Wired(wire, "abort", x) \/ Queued(Tail(ops), "abort", x, "request")
      BY <1>3, <1>5, <1>6, <2>1 DEF Sent
    <3>2. 4 * d + Rank("commit") < 4 * x + Rank("abort")
      BY <1>0, <1>1, <1>5, <3>1, HeadLeast
    <3> QED BY <1>3, <3>2, Ranks
  <2>2. ASSUME Sent("commit", x)' PROVE d < x
    <3>1. Wired(wire, "commit", x) \/ Queued(Tail(ops), "commit", x, "request")
      BY <1>3, <1>5, <2>2 DEF Sent
    <3>2. 4 * d + Rank("commit") < 4 * x + Rank("commit")
      BY <1>0, <1>1, <1>5, <3>1, HeadLeast
    <3> QED BY <1>3, <3>2, Ranks
  <2> QED BY <2>1, <2>2
<1>9. \A x \in adapter.transactions : d <= x
  <2> SUFFICES ASSUME NEW x \in adapter.transactions, x < d PROVE FALSE
    BY <1>0, <1>3
  <2>1. x \in Nat /\ Live(x)
    BY <1>0 DEF Live
  <2>2. Sent("abort", x)
    BY <1>3, <1>7, <2>1 DEF Good, SessionInv
  <2> QED BY <1>3, <1>8, <2>1, <2>2
<1>10. Above(wire, 4 * d + 2)
  <2> SUFFICES ASSUME NEW i \in DOMAIN wire, Control(wire[i]) PROVE 4 * d + 2 < Key(wire[i])
    BY DEF Above
  <2>1. Key(ops[1]) < Key(wire[i])
    BY <1>0, <1>3, <1>4 DEF Ordered, Requested
  <2>2. Key(ops[1]) = 4 * d + 2
    BY <1>3, Ranks DEF Key
  <2> QED BY <2>1, <2>2
<1>11. go.pc = "commit" /\ d = lastTx => Quiet(wire) /\ Unasked(ops')
  <2> SUFFICES ASSUME go.pc = "commit", d = lastTx PROVE Quiet(wire) /\ Unasked(ops')
    OBVIOUS
  <2>1. Limit = 4 * d + 2
    BY Ranks DEF Limit, Busy
  <2>2. ASSUME NEW i \in DOMAIN wire, Control(wire[i]) PROVE FALSE
    <3>1. 4 * d + 2 < Key(wire[i]) /\ Key(wire[i]) <= 4 * d + 2 /\ Key(wire[i]) \in Nat
      BY <1>0, <1>10, <2>1, <2>2, WireKeys DEF Above, Within
    <3> QED BY <1>3, <3>1
  <2>3. ASSUME NEW i \in DOMAIN ops', Requested(ops'[i]) PROVE FALSE
    <3>1. i + 1 \in DOMAIN ops /\ ops'[i] = ops[i + 1] /\ i \in DOMAIN ops' /\ 1 < i + 1 /\ i + 1 \in Nat
      <4>1. DOMAIN ops' = 1..Len(ops') /\ Len(ops') \in Nat
        BY <1>0, <1>5
      <4> QED BY <1>3, <4>1
    <3>2. Key(ops[1]) < Key(ops[i + 1]) /\ Key(ops[i + 1]) <= Limit
      BY <1>0, <1>3, <1>4, <2>3, <3>1 DEF Ordered, Within, Requested
    <3>3. Key(ops[1]) = 4 * d + 2 /\ Key(ops[i + 1]) \in Nat
      BY <1>0, <1>3, <3>1, Ranks, ChainKeys DEF Key
    <3> QED BY <1>3, <2>1, <3>2, <3>3
  <2> QED BY <2>2, <2>3 DEF Quiet, Unasked
<1>12. PICK ok \in BOOLEAN : ok <=> Routed(pool, d)
  OBVIOUS
<1>13. /\ pool' = IF ok THEN Commit(pool, d) ELSE pool
       /\ adapter' = IF ok THEN Cleaned(d) ELSE adapter
  BY <1>1, <1>12 DEF RunCommit
<1>14. /\ reply' = reply \/ (reply'.op = "commit" /\ (reply'.ok <=> ok) /\ go.pc = "commit" /\ d = lastTx)
       /\ reply.op # "commit"
  <2>1. go.pc = "commit" => go.next.tx = lastTx
    BY DEF Good, OrderInv, Busy
  <2>2. reply.op # "commit"
    BY <1>3, <1>4 DEF Good, OrderInv
  <2>3. Reply("commit", d, ~disposed /\ Routed(pool, d), FALSE)
    BY <1>1 DEF RunCommit
  <2> QED BY <1>12, <2>1, <2>2, <2>3 DEF Reply
<1>15. adapter'.active = adapter.active /\ adapter'.transactions = IF ok THEN adapter.transactions \ {d} ELSE adapter.transactions
  BY <1>13 DEF Cleaned, ConfigType
<1>16. \E S : /\ \A o \in S : o \in Nat /\ o < pool.active
              /\ Sound(pool') /\ Keeps(pool, pool', S, {})
              /\ ok => pool'.active = d /\ pool'.rollback.previous = pool.active /\ pool'.rollback.generation = d
              /\ ~ok => pool' = pool
  <2>1. CASE ok
    <3> DEFINE q == Commit(pool, d)
    <3>1. Routed(pool, d)
      BY <1>12, <2>1
    <3>2. /\ Sound(q) /\ \E S : (\A o \in S : o \in Nat /\ o < pool.active) /\ Keeps(pool, q, S, {})
          /\ q.active = d /\ q.rollback.previous = pool.active /\ q.rollback.generation = d
      BY <1>0, <1>3, <1>7, <3>1, CommitSound
    <3>3. pool' = q
      BY <1>13, <2>1
    <3> HIDE DEF q
    <3> QED BY <2>1, <3>2, <3>3
  <2>2. CASE ~ok
    <3>1. pool' = pool /\ Keeps(pool, pool', {}, {}) /\ Sound(pool')
      BY <1>0, <1>13, <2>2, KeepsItself
    <3> QED BY <2>2, <3>1
  <2> QED BY <1>12, <2>1, <2>2
<1>17. PICK S : /\ \A o \in S : o \in Nat /\ o < pool.active
                /\ Sound(pool') /\ Keeps(pool, pool', S, {})
                /\ ok => pool'.active = d /\ pool'.rollback.previous = pool.active /\ pool'.rollback.generation = d
                /\ ~ok => pool' = pool
  BY <1>16
<1>18. OrderInv'
  BY <1>3, <1>11, <1>14 DEF Good, OrderInv, Busy
<1>19. ResetInv'
  BY <1>3, <1>15 DEF Good, ResetInv, Busy
<1>20. \A x : Live(x)' => Live(x)
  BY <1>3, <1>15 DEF Live
<1>21. reply'.op = "activate" => reply' = reply /\ lastTx # d /\ go.pc = "activate"
  <2>1. reply.op = "activate" => go.pc = "activate"
    BY DEF Good, OrderInv
  <2>2. go.pc = "activate" => Limit = 4 * lastTx + 1
    BY Ranks DEF Limit, Busy
  <2> QED BY <1>0, <1>3, <1>7, <1>14, <2>1, <2>2
<1>22. SessionInv'
  <2>1. \A x \in adapter'.transactions : 0 < x /\ pool'.active < x /\ x <= lastTx
    BY <1>0, <1>3, <1>9, <1>15, <1>17 DEF Good, SessionInv
  <2>2. \A x \in Nat : Sent("commit", x)' => x \in adapter'.transactions \/ ResetPending(x)
    BY <1>3, <1>6, <1>8, <1>15 DEF Good, SessionInv
  <2>3. reply'.op = "activate" /\ reply'.ok => lastTx \in adapter'.transactions
    BY <1>15, <1>21 DEF Good, SessionInv
  <2> QED BY <1>3, <1>6, <1>20, <2>1, <2>2, <2>3 DEF Good, SessionInv
<1>23. ActivationInv'
  <2>1. \A x : Activating(x)' <=> Activating(x)
    BY <1>3, <1>15 DEF Activating
  <2>2. (\A k \in DOMAIN ops : Mine(ops[k]) => At(ops[k].tx, StageOf(ops[k])))'
    <3> SUFFICES ASSUME NEW k \in DOMAIN ops', Mine(ops'[k])
                 PROVE  ops'[k].tx \in DOMAIN adapter'.active /\ adapter'.active[ops'[k].tx].stage = StageOf(ops'[k])
      BY DEF At
    <3>1. At(ops[k + 1].tx, StageOf(ops[k + 1])) /\ ops'[k] = ops[k + 1]
      BY <1>3 DEF Good, ActivationInv
    <3> QED BY <1>15, <3>1 DEF At
  <2>3. \A i, j \in DOMAIN ops' : Mine(ops'[i]) /\ Mine(ops'[j]) /\ i # j => ops'[i].tx # ops'[j].tx
    <3> SUFFICES ASSUME NEW i \in DOMAIN ops', NEW j \in DOMAIN ops', Mine(ops'[i]), Mine(ops'[j]), i # j
                 PROVE  ops'[i].tx # ops'[j].tx
      OBVIOUS
    <3>1. i + 1 \in DOMAIN ops /\ j + 1 \in DOMAIN ops /\ ops'[i] = ops[i + 1] /\ ops'[j] = ops[j + 1] /\ i + 1 # j + 1
      BY <1>3
    <3> QED BY <3>1 DEF Good, ActivationInv
  <2>4. ~Activating(d)
    BY <1>3, <1>7 DEF Good, ActivationInv
  <2>5. ~Activating(pool.active)' /\ ~Activating(pool.rollback.previous)'
    <3>1. ~Activating(pool.active) /\ ~Activating(pool.rollback.previous)
      BY DEF Good, ActivationInv
    <3>2. pool'.active \in {pool.active, d} /\ pool'.rollback.previous \in {pool.active, pool.rollback.previous}
      BY <1>12, <1>17
    <3> QED BY <1>3, <1>15, <2>4, <3>1, <3>2 DEF Activating
  <2> QED BY <1>3, <1>6, <1>15, <1>21, <2>1, <2>2, <2>3, <2>5 DEF Good, ActivationInv
<1>24. ~Sent("abort", pool.active) /\ ~ResetPending(pool.active)
  <2>1. ~Sent("abort", pool.active)
    BY <1>0, <1>3, <1>7, <1>8
  <2>2. ResetPending(pool.active) => Sent("abort", pool.active)
    BY <1>3, <1>7 DEF Good, KnownInv
  <2> QED BY <2>1, <2>2
<1>25. KnownInv'
  <2>1. DOMAIN pool'.generations \cup DOMAIN pool'.hosts \subseteq DOMAIN pool.generations \cup DOMAIN pool.hosts
    BY <1>17 DEF Keeps
  <2>2. CASE ~ok
    BY <1>3, <1>6, <1>15, <1>17, <2>2 DEF Good, KnownInv, Sent, ResetPending
  <2>3. CASE ok
    <3>1. go.pc \in {"load", "activate"} => d < lastTx
      <4>1. go.pc \in {"load", "activate"} => Limit <= 4 * lastTx + 1
        BY <1>0, Ranks DEF Limit, Busy
      <4> QED BY <1>0, <1>3, <1>7, <4>1
    <3>2. \A x \in Nat : Sent("commit", x)' /\ ResetPending(d) => Sent("abort", d)
      BY <1>3, <1>6, <1>7, <1>8 DEF Good, SessionInv
    <3>3. (\A x \in Nat : Sent("commit", x) /\ ResetPending(pool.active) => Sent("abort", pool.active))'
      BY <1>6, <1>17, <2>3, <3>2 DEF Sent, ResetPending
    <3>4. (pool.rollback.previous # None =>
            ~Sent("abort", pool.rollback.previous) /\ ~ResetPending(pool.rollback.previous))'
      BY <1>3, <1>4, <1>17, <1>24, <2>3 DEF Sent, ResetPending
    <3>5. pool'.rollback.generation # None
      BY <1>7, <1>17, <2>3 DEF None
    <3>6. \A x \in DOMAIN pool'.generations \cup DOMAIN pool'.hosts :
            /\ x \in Nat /\ x <= lastTx /\ ~(go.pc = "load" /\ x = lastTx)
            /\ ~Wired(wire, "activate", x)
            /\ x \in DOMAIN adapter'.active => adapter'.active[x].stage \in {"verify", "undo"}
      BY <1>15, <2>1 DEF Good, KnownInv
    <3>7. \A x \in Nat : Sent("commit", x)' => pool'.active < x
      BY <1>8, <1>17, <2>3
    <3>8. pool'.active = d
      BY <1>17, <2>3
    <3> QED BY <1>3, <1>7, <1>10, <3>1, <3>3, <3>4, <3>5, <3>6, <3>7, <3>8 DEF KnownInv
  <2> QED BY <1>12, <2>2, <2>3
<1>26. go.committed.tx # None => go.up /\ go.committed.tx = pool.active
  <2>1. pool.active # lastTx
    BY <1>0, <1>3, <1>7
  <2> QED BY <1>24, <2>1 DEF Good, CommittedInv
<1>27. CommittedInv'
  <2>1. ok /\ go.committed.tx # None => (go.pc = "commit" /\ d = lastTx) \/ Sent("abort", d)
    <3> SUFFICES ASSUME go.committed.tx # None PROVE (go.pc = "commit" /\ d = lastTx) \/ Sent("abort", d)
      OBVIOUS
    <3>1. ~Resetting(ops)
      BY DEF Good, ResetInv
    <3>2. ~ResetPending(d)
      BY <3>1, UnresetQueued DEF ResetPending
    <3> QED BY <1>3, <1>7, <1>26, <3>2 DEF Good, SessionInv
  <2>2. CASE ok
    <3>1. pool'.active = d /\ pool'.rollback.previous = pool.active
      BY <1>17, <2>2
    <3>2. reply'.op = "commit" => d = lastTx
      BY <1>14
    <3>3. go.committed.tx # None =>
            /\ go.up /\ go.committed.tx \in {d, pool.active} /\ ~Sent("abort", go.committed.tx)'
            /\ (go.pc = "commit" /\ d = lastTx) \/ Sent("abort", d)'
      <4>1. Sent("abort", go.committed.tx)' <=> Sent("abort", go.committed.tx)
        BY <1>3, <1>4 DEF Sent
      <4> QED BY <1>6, <1>24, <1>26, <2>1, <2>2, <4>1
    <3>4. Sent("abort", d)' => Sent("abort", pool.active)'
      BY <3>1 DEF Sent
    <3> QED BY <1>3, <3>1, <3>2, <3>3, <3>4 DEF Good, CommittedInv, Busy
  <2>3. CASE ~ok
    <3>1. pool' = pool /\ ~(reply'.op = "commit" /\ reply'.ok)
      BY <1>14, <1>17, <2>3
    <3>2. /\ Sent("abort", go.committed.tx)' <=> Sent("abort", go.committed.tx)
          /\ Sent("abort", pool.active)' <=> Sent("abort", pool.active)
      BY <1>3, <1>4, <3>1 DEF Sent
    <3> QED BY <1>3, <3>1, <3>2 DEF Good, CommittedInv, Busy
  <2> QED BY <1>12, <2>2, <2>3
<1>28. ServedInv'
  <2>1. \A x \in Nat : \A fp : pool.active <= x /\ Serves(pool, x, fp) => Serves(pool', x, fp)
    BY <1>0, <1>17, ServesKept
  <2>2. \A x \in adapter'.transactions : At(x, "verify")' /\ adapter'.active[x].ready => Serves(pool', x, adapter'.active[x].fingerprint)
    <3> SUFFICES ASSUME NEW x \in adapter'.transactions, At(x, "verify")', adapter'.active[x].ready
                 PROVE  Serves(pool', x, adapter'.active[x].fingerprint)
      OBVIOUS
    <3>1. x \in adapter.transactions /\ At(x, "verify") /\ adapter.active[x].ready /\ x \in Nat /\ pool.active <= x
      BY <1>0, <1>3, <1>7, <1>9, <1>15 DEF At
    <3> QED BY <1>15, <2>1, <3>1 DEF Good, ServedInv
  <2>3. pool.active <= lastTx
    BY <1>0, <1>3, <1>7
  <2>4. go.committed.plugins => go.committed.tx # None /\ go.committed.fingerprint # Plain /\ Serves(pool', go.committed.tx, go.committed.fingerprint)
    BY <1>0, <1>26, <2>1 DEF Good, ServedInv
  <2> QED BY <1>0, <1>3, <1>21, <2>1, <2>2, <2>3, <2>4 DEF Good, ServedInv
<1> QED BY <1>17, <1>18, <1>19, <1>22, <1>23, <1>25, <1>27, <1>28 DEF Good

\* abort, the undo of an activation or of a session the crashed server left: what the server
\* has committed and what it is about to commit stay.
LEMMA RunAbortGood ==
    ASSUME ConfigType, Good, ~disposed, RunAbort
    PROVE  Good'
<1>0. /\ go \in Servers /\ lastTx \in Nat /\ pool.active \in Nat /\ pool.rollback.previous \in Nat
      /\ wire \in Seq(Requests) /\ ops \in Seq(Operations) /\ adapter.transactions \subseteq Nat
      /\ Ordered(wire, ops) /\ Within(wire, ops, Limit) /\ Sound(pool) /\ ResetsLast(ops)
      /\ "load" \in Controls /\ "activate" \in Controls /\ "commit" \in Controls /\ "abort" \in Controls
      /\ pool.rollback.previous # None => pool.rollback.previous < pool.active
      /\ pool.rollback.generation # None => pool.rollback.generation = pool.active /\ pool.rollback.previous < pool.active
  BY DEF ConfigType, Good, Sound, OrderInv, ResetInv, Controls, NoRollback
<1>1. PICK g, by : g = Head(ops).tx /\ by = Head(ops).by
  OBVIOUS
<1>2. Settles("abort")
  BY DEF RunAbort
<1>3. /\ g \in Nat /\ 1 \in DOMAIN ops /\ ops[1].op = "abort" /\ ops[1].tx = g /\ ops[1].by = by
      /\ Ordered(wire, ops') /\ Within(wire, ops', Limit) /\ Shaped(ops') /\ ResetsLast(ops') /\ <<"abort", by>> \in Shapes
      /\ Unasked(ops) => Unasked(ops') /\ by # "request"
      /\ Resetting(ops') => Resetting(ops)
      /\ by = "reset" => Resetting(ops) /\ Unasked(ops') /\ 0 < g
      /\ \A x, y, b : Queued(ops, x, y, b) <=> Queued(ops', x, y, b) \/ (x = "abort" /\ y = g /\ b = by)
      /\ \A i \in DOMAIN ops' : i \in Nat /\ i + 1 \in DOMAIN ops /\ ops'[i] = ops[i + 1] /\ i + 1 # 1
      /\ Limit \in Nat /\ Limit' = Limit /\ UNCHANGED <<go, lastTx, wire>>
  BY <1>1, <1>2, SettleFacts
<1>4. by \in {"request", "undo", "reset"}
  BY <1>3 DEF Shapes
<1>5. ops # <<>> /\ ops' = Tail(ops) /\ Head(ops).op = "abort"
  BY <1>2 DEF Settles
<1>6. /\ \A x : Sent("abort", x) <=> Sent("abort", x)' \/ (by = "request" /\ x = g)
      /\ \A x : Sent("commit", x)' <=> Sent("commit", x)
      /\ \A x : ResetPending(x) <=> ResetPending(x)' \/ (by = "reset" /\ x = g)
  BY <1>3 DEF Sent, ResetPending
<1>7. by = "request" => /\ Sent("abort", g) /\ 0 < g /\ 4 * g + 3 <= Limit
                        /\ \A x \in Nat : Sent("commit", x) \/ Wired(wire, "load", x) => g < x
  <2> SUFFICES ASSUME by = "request"
               PROVE  /\ Sent("abort", g) /\ 0 < g /\ 4 * g + 3 <= Limit
                      /\ \A x \in Nat : Sent("commit", x) \/ Wired(wire, "load", x) => g < x
    OBVIOUS
  <2>1. Sent("abort", g)
    BY <1>6
  <2>2. 0 < g /\ 4 * g + 3 <= Limit
    BY <1>0, <2>1, SentWithin, Ranks DEF Sent
  <2>3. ASSUME NEW x \in Nat, Sent("commit", x) PROVE g < x
    <3>1. Wired(wire, "commit", x) \/ Queued(Tail(ops), "commit", x, "request")
      BY <1>3, <1>5, <2>3 DEF Sent
    <3>2. 4 * g + Rank("abort") < 4 * x + Rank("commit")
      BY <1>0, <1>1, <1>5, <3>1, HeadLeast
    <3> QED BY <1>3, <3>2, Ranks
  <2>4. ASSUME NEW x \in Nat, Wired(wire, "load", x) PROVE g < x
    <3>1. 4 * g + Rank("abort") < 4 * x + Rank("load")
      BY <1>0, <1>1, <1>5, <2>4, HeadLeast
    <3> QED BY <1>3, <3>1, Ranks
  <2> QED BY <2>1, <2>2, <2>3, <2>4
<1>8. by = "undo" => /\ At(g, "undo") /\ Activating(g) /\ 0 < g /\ ~Wired(wire, "activate", g)
                     /\ \A i \in DOMAIN ops' : Mine(ops'[i]) => ops'[i].tx # g
  <2> SUFFICES ASSUME by = "undo"
               PROVE  /\ At(g, "undo") /\ Activating(g) /\ 0 < g /\ ~Wired(wire, "activate", g)
                      /\ \A i \in DOMAIN ops' : Mine(ops'[i]) => ops'[i].tx # g
    OBVIOUS
  <2>1. Mine(ops[1]) /\ StageOf(ops[1]) = "undo"
    BY <1>3 DEF Mine, StageOf
  <2>2. At(g, "undo") /\ \A i \in DOMAIN ops' : Mine(ops'[i]) => ops'[i].tx # g
    BY <1>3, <2>1 DEF Good, ActivationInv
  <2>3. g \in DOMAIN adapter.active /\ 0 < g /\ Above(wire, 4 * g + 1)
    BY <2>2 DEF Good, ActivationInv, At
  <2>4. ~Wired(wire, "activate", g)
    <3> SUFFICES ASSUME Wired(wire, "activate", g) PROVE FALSE
      OBVIOUS
    <3>1. 4 * g + 1 < 4 * g + Rank("activate")
      BY <1>0, <2>3, WiredAbove
    <3> QED BY <1>3, <3>1, Ranks
  <2> QED BY <2>2, <2>3, <2>4 DEF Activating
<1>9. by = "reset" => /\ ResetPending(g) /\ 0 < g /\ ~Busy /\ go.committed.tx = None /\ adapter.transactions = {}
                      /\ \A x : ~Sent("commit", x) /\ ~Wired(wire, "load", x)
  <2> SUFFICES ASSUME by = "reset"
               PROVE  /\ ResetPending(g) /\ 0 < g /\ ~Busy /\ go.committed.tx = None /\ adapter.transactions = {}
                      /\ \A x : ~Sent("commit", x) /\ ~Wired(wire, "load", x)
    OBVIOUS
  <2>1. ResetPending(g) /\ 0 < g /\ Unasked(ops')
    BY <1>3, <1>6
  <2>2. ~Busy /\ go.committed.tx = None /\ adapter.transactions = {} /\ Quiet(wire)
    BY <1>3 DEF Good, ResetInv
  <2>3. \A x : ~Wired(wire, "commit", x) /\ ~Queued(ops', "commit", x, "request") /\ ~Wired(wire, "load", x)
    BY <1>0, <2>1, <2>2, QuietWired
  <2>4. \A x : ~Sent("commit", x)
    BY <1>3, <2>3 DEF Sent
  <2> QED BY <2>1, <2>2, <2>3, <2>4
<1>10. g # None /\ 0 < g
  BY <1>3, <1>4, <1>7, <1>8, <1>9 DEF None
<1>11. ~Activating(pool.active) /\ ~Activating(pool.rollback.previous)
  BY DEF Good, ActivationInv
<1>12. g # pool.rollback.previous
  BY <1>4, <1>7, <1>8, <1>9, <1>10, <1>11 DEF Good, KnownInv
<1>13. go.committed.tx # None => g # go.committed.tx
  BY <1>4, <1>7, <1>8, <1>9, <1>11 DEF Good, CommittedInv
<1>14. go.pc = "commit" \/ reply.op = "activate" => g # lastTx
  <2>1. reply.op = "activate" => go.pc = "activate"
    BY DEF Good, OrderInv
  <2>2. go.pc \in {"activate", "commit"} => Limit <= 4 * lastTx + 2 /\ Busy
    BY <1>0, Ranks DEF Limit, Busy
  <2>3. go.pc = "commit" \/ reply.op = "activate" => ~Activating(lastTx)
    BY DEF Good, ActivationInv
  <2> QED BY <1>0, <1>3, <1>4, <1>7, <1>8, <1>9, <2>1, <2>2, <2>3
<1>15. g = pool.active => pool.rollback.generation = g /\ by # "undo"
  BY <1>0, <1>4, <1>7, <1>8, <1>9, <1>10, <1>11 DEF Good, KnownInv
<1>16. /\ Sound(pool') /\ Keeps(pool, pool', {g}, {})
       /\ g = pool.active => pool'.active = pool.rollback.previous /\ pool'.rollback = NoRollback
       /\ g # pool.active => pool'.active = pool.active /\ pool'.rollback = pool.rollback
  <2> DEFINE q == Abort(pool, g)
  <2>1. /\ Sound(q) /\ Keeps(pool, q, {g}, {})
        /\ g = pool.active /\ pool.rollback.generation = g => q.active = pool.rollback.previous /\ q.rollback = NoRollback
        /\ ~(g = pool.active /\ pool.rollback.generation = g) => q.active = pool.active /\ q.rollback = pool.rollback
    BY <1>0, <1>10, <1>12, AbortSound
  <2>2. pool' = q
    BY <1>1 DEF RunAbort
  <2> HIDE DEF q
  <2> QED BY <1>15, <2>1, <2>2
<1>17. /\ adapter'.transactions = adapter.transactions \ {g}
       /\ DOMAIN adapter'.active \subseteq DOMAIN adapter.active
       /\ \A x \in DOMAIN adapter'.active : adapter'.active[x] = adapter.active[x]
       /\ \A x \in DOMAIN adapter.active : x \in DOMAIN adapter'.active \/ (by = "undo" /\ x = g)
       /\ by = "undo" => g \notin DOMAIN adapter'.active
  <2>1. CASE by = "request"
    <3>1. adapter' = Cleaned(g)
      BY <1>1, <2>1 DEF RunAbort
    <3> QED BY <2>1, <3>1 DEF Cleaned, ConfigType
  <2>2. CASE by = "undo"
    <3>1. adapter' = [Cleaned(g) EXCEPT !.active = Without(@, {g})]
      BY <1>1, <2>2 DEF RunAbort
    <3>2. adapter'.transactions = adapter.transactions \ {g} /\ adapter'.active = Without(adapter.active, {g})
      BY <3>1 DEF Cleaned, ConfigType
    <3>3. DOMAIN adapter'.active = DOMAIN adapter.active \ {g} /\ \A x \in DOMAIN adapter'.active : adapter'.active[x] = adapter.active[x]
      BY <3>2 DEF Without, Restrict
    <3> QED BY <2>2, <3>2, <3>3
  <2>3. CASE by = "reset"
    <3>1. adapter' = adapter
      BY <1>1, <2>3 DEF RunAbort
    <3> QED BY <1>9, <2>3, <3>1
  <2> QED BY <1>4, <2>1, <2>2, <2>3
<1>18. /\ reply'.op # "none" => reply'.op = go.pc
       /\ reply'.op = "commit" => reply' = reply
       /\ reply'.op = "activate" /\ reply'.ok => reply' = reply
       /\ reply'.op = "activate" => reply' = reply \/ (by = "undo" /\ g = lastTx)
  <2>1. go.pc = "activate" => go.next.tx = lastTx
    BY DEF Good, OrderInv, Busy
  <2>2. reply.op # "none" => reply.op = go.pc
    BY DEF Good, OrderInv
  <2>3. CASE by = "request"
    <3>1. Reply("abort", g, TRUE, FALSE)
      BY <1>1, <2>3 DEF RunAbort
    <3> QED BY <2>2, <3>1 DEF Reply
  <2>4. CASE by = "undo"
    <3>1. Reply("activate", g, FALSE, FALSE)
      BY <1>1, <2>4 DEF RunAbort, Undone
    <3> QED BY <2>1, <2>2, <2>4, <3>1 DEF Reply
  <2>5. CASE by = "reset"
    <3>1. reply' = reply
      BY <1>1, <2>5 DEF RunAbort
    <3> QED BY <2>2, <3>1
  <2> QED BY <1>4, <2>3, <2>4, <2>5
<1>19. pool'.active \in Nat /\ pool'.active <= pool.active
  BY <1>0, <1>10, <1>15, <1>16
<1>20. OrderInv'
  BY <1>3, <1>18 DEF Good, OrderInv, Busy
<1>21. ResetInv'
  BY <1>3, <1>17 DEF Good, ResetInv, Busy
<1>22. \A x \in Nat : /\ Live(x)' => Live(x) /\ (Sent("abort", x) => Sent("abort", x)')
                      /\ Sent("commit", x) => (Sent("abort", x) => Sent("abort", x)') /\ (ResetPending(x) => ResetPending(x)')
                      /\ Sent("commit", x) => ~(by \in {"request", "undo"} /\ x = g)
  <2> SUFFICES ASSUME NEW x \in Nat
               PROVE  /\ Live(x)' => Live(x) /\ (Sent("abort", x) => Sent("abort", x)')
                      /\ Sent("commit", x) => (Sent("abort", x) => Sent("abort", x)') /\ (ResetPending(x) => ResetPending(x)')
                      /\ Sent("commit", x) => ~(by \in {"request", "undo"} /\ x = g)
    OBVIOUS
  <2>1. Live(x)' => Live(x) /\ ~(by = "request" /\ x = g)
    BY <1>3, <1>7, <1>17 DEF Live
  <2>2. Sent("commit", x) => ~(by \in {"request", "undo"} /\ x = g) /\ by # "reset"
    BY <1>3, <1>7, <1>8, <1>9 DEF Good, ActivationInv
  <2> QED BY <1>6, <2>1, <2>2
<1>23. SessionInv'
  <2>1. \A x \in adapter'.transactions : 0 < x /\ pool'.active < x /\ x <= lastTx
    BY <1>0, <1>17, <1>19 DEF Good, SessionInv
  <2>2. go.up => \A x \in Nat : Live(x)' => (x = lastTx /\ go.pc \in {"load", "activate", "commit"}) \/ Sent("abort", x)'
    BY <1>22 DEF Good, SessionInv
  <2>3. go.up => \A x \in Nat : Sent("commit", x)' => (x = lastTx /\ go.pc = "commit") \/ Sent("abort", x)' \/ ResetPending(x)'
    BY <1>6, <1>22 DEF Good, SessionInv
  <2>4. \A x, e \in Nat : Sent("commit", e)' /\ (Live(x)' \/ Sent("commit", x)') /\ x < e => Sent("abort", x)'
    BY <1>6, <1>22 DEF Good, SessionInv
  <2>5. \A x \in Nat : Sent("commit", x)' => x \in adapter'.transactions \/ ResetPending(x)'
    BY <1>4, <1>6, <1>9, <1>17, <1>22 DEF Good, SessionInv
  <2>6. reply'.op = "activate" /\ reply'.ok => lastTx \in adapter'.transactions
    BY <1>14, <1>17, <1>18 DEF Good, SessionInv
  <2> QED BY <1>3, <2>1, <2>2, <2>3, <2>4, <2>5, <2>6 DEF SessionInv
<1>24. ActivationInv'
  <2>1. \A x : Activating(x)' => Activating(x)
    BY <1>3, <1>17 DEF Activating
  <2>2. (\A k \in DOMAIN ops : Mine(ops[k]) => At(ops[k].tx, StageOf(ops[k])))'
    <3> SUFFICES ASSUME NEW k \in DOMAIN ops', Mine(ops'[k])
                 PROVE  ops'[k].tx \in DOMAIN adapter'.active /\ adapter'.active[ops'[k].tx].stage = StageOf(ops'[k])
      BY DEF At
    <3>1. At(ops[k + 1].tx, StageOf(ops[k + 1])) /\ ops'[k] = ops[k + 1]
      BY <1>3 DEF Good, ActivationInv
    <3> QED BY <1>8, <1>17, <3>1 DEF At
  <2>3. \A i, j \in DOMAIN ops' : Mine(ops'[i]) /\ Mine(ops'[j]) /\ i # j => ops'[i].tx # ops'[j].tx
    <3> SUFFICES ASSUME NEW i \in DOMAIN ops', NEW j \in DOMAIN ops', Mine(ops'[i]), Mine(ops'[j]), i # j
                 PROVE  ops'[i].tx # ops'[j].tx
      OBVIOUS
    <3>1. i + 1 \in DOMAIN ops /\ j + 1 \in DOMAIN ops /\ ops'[i] = ops[i + 1] /\ ops'[j] = ops[j + 1] /\ i + 1 # j + 1
      BY <1>3
    <3> QED BY <3>1 DEF Good, ActivationInv
  <2>4. ~Activating(None)
    <3>1. ~Wired(wire, "activate", None)
      <4> SUFFICES ASSUME Wired(wire, "activate", None) PROVE FALSE
        OBVIOUS
      <4>1. 0 < None
        BY <1>0, SentWithin
      <4> QED BY <4>1 DEF None
    <3>2. None \notin DOMAIN adapter.active
      BY DEF Good, ActivationInv, None
    <3> QED BY <3>1, <3>2 DEF Activating
  <2>5. ~Activating(pool.active)' /\ ~Activating(pool.rollback.previous)'
    <3>1. pool'.active \in {pool.active, pool.rollback.previous} /\ pool'.rollback.previous \in {pool.rollback.previous, None}
      BY <1>16 DEF NoRollback
    <3> QED BY <1>3, <1>11, <1>17, <2>4, <3>1 DEF Activating
  <2>6. reply'.op = "activate" => ~Activating(lastTx)'
    <3>1. by = "undo" => ~Activating(g)'
      BY <1>3, <1>8, <1>17 DEF Activating
    <3>2. reply.op = "activate" => ~Activating(lastTx)
      BY DEF Good, ActivationInv
    <3>3. ~Activating(lastTx) => ~Activating(lastTx)'
      BY <1>3, <1>17 DEF Activating
    <3>4. g = lastTx /\ ~Activating(g)' => ~Activating(lastTx)'
      BY <1>3 DEF Activating
    <3> QED BY <1>18, <3>1, <3>2, <3>3, <3>4
  <2>7. go.pc = "commit" => ~Activating(lastTx)'
    BY <1>3, <1>17 DEF Good, ActivationInv, Activating
  <2>8. \A x \in Nat : Sent("commit", x)' => ~Activating(x)'
    BY <1>6, <2>1 DEF Good, ActivationInv
  <2>9. go.pc = "activate" /\ lastTx \in DOMAIN adapter'.active => adapter'.active[lastTx].fingerprint = go.next.fingerprint
    BY <1>17 DEF Good, ActivationInv
  <2> QED BY <1>3, <1>17, <2>2, <2>3, <2>5, <2>6, <2>7, <2>8, <2>9 DEF Good, ActivationInv
<1>25. KnownInv'
  <2>1. DOMAIN pool'.generations \cup DOMAIN pool'.hosts \subseteq DOMAIN pool.generations \cup DOMAIN pool.hosts
    BY <1>16 DEF Keeps
  <2>2. \A x \in DOMAIN pool'.generations \cup DOMAIN pool'.hosts :
          /\ x \in Nat /\ x <= lastTx /\ ~(go.pc = "load" /\ x = lastTx)
          /\ ~Wired(wire, "activate", x)
          /\ x \in DOMAIN adapter'.active => adapter'.active[x].stage \in {"verify", "undo"}
    BY <1>17, <2>1 DEF Good, KnownInv
  <2>3. pool'.active <= lastTx /\ (go.pc \in {"load", "activate"} => pool'.active < lastTx)
    BY <1>0, <1>19 DEF Good, KnownInv
  <2>4. Above(wire, 4 * pool'.active + 2)
    <3>1. \A i \in DOMAIN wire : Key(wire[i]) \in Nat
      BY <1>0, WireKeys
    <3>2. Above(wire, 4 * pool.active + 2)
      BY DEF Good, KnownInv
    <3> QED BY <1>0, <1>19, <3>1, <3>2 DEF Above
  <2>5. \A x \in Nat : Sent("commit", x)' => pool'.active < x
    BY <1>0, <1>6, <1>19 DEF Good, KnownInv
  <2>6. (\A x \in Nat : ~Sent("abort", x) => ~Sent("abort", x)') /\ (\A x \in Nat : ~ResetPending(x) => ~ResetPending(x)')
    BY <1>6
  <2>7. pool.rollback.previous # None => ~Sent("abort", pool.rollback.previous) /\ ~ResetPending(pool.rollback.previous)
    BY DEF Good, KnownInv
  <2>8. PICK a, v : a = pool'.active /\ v = pool'.rollback.previous
    OBVIOUS
  <2>9. v # None => ~Sent("abort", v)' /\ ~ResetPending(v)'
    BY <1>0, <1>16, <2>6, <2>7, <2>8 DEF NoRollback
  <2>10. pool'.rollback.generation = None /\ a # None => a < lastTx /\ ~Sent("abort", a)' /\ ~ResetPending(a)'
    <3>1. CASE g = pool.active
      <4>1. a = pool.rollback.previous
        BY <1>16, <2>8, <3>1
      <4>2. a # None => a < lastTx
        BY <1>0, <4>1 DEF Good, KnownInv
      <4> QED BY <1>0, <2>6, <2>7, <4>1, <4>2
    <3>2. CASE g # pool.active
      BY <1>0, <1>16, <2>6, <2>8, <3>2 DEF Good, KnownInv
    <3> QED BY <3>1, <3>2
  <2>11. \A x \in Nat : Sent("commit", x)' /\ ResetPending(a)' => Sent("abort", a)'
    <3>1. CASE g = pool.active
      <4>1. a = pool.rollback.previous
        BY <1>16, <2>8, <3>1
      <4>2. ~ResetPending(None)
        <5> SUFFICES ASSUME NEW k \in DOMAIN ops, ops[k] = Operation("abort", None, "reset") PROVE FALSE
          BY DEF ResetPending, Queued
        <5>1. ops[k].by = "reset" /\ ops[k].tx = 0
          BY DEF Operation, None
        <5> QED BY <1>0, <5>1 DEF ResetsLast
      <4>3. ~ResetPending(a)
        BY <2>7, <4>1, <4>2
      <4> QED BY <1>6, <4>3
    <3>2. CASE g # pool.active
      <4>1. a = pool.active
        BY <1>16, <2>8, <3>2
      <4>2. \A x \in Nat : Sent("commit", x) /\ ResetPending(a) => Sent("abort", a)
        BY <4>1 DEF Good, KnownInv
      <4> QED BY <1>6, <3>2, <4>1, <4>2
    <3> QED BY <3>1, <3>2
  <2>12. (pool.rollback.previous # None => ~Sent("abort", pool.rollback.previous) /\ ~ResetPending(pool.rollback.previous))'
    BY <2>8, <2>9 DEF Sent, ResetPending
  <2>13. (pool.rollback.generation = None /\ pool.active # None =>
            pool.active < lastTx /\ ~Sent("abort", pool.active) /\ ~ResetPending(pool.active))'
    BY <1>3, <2>8, <2>10 DEF Sent, ResetPending
  <2>14. (\A x \in Nat : Sent("commit", x) /\ ResetPending(pool.active) => Sent("abort", pool.active))'
    BY <2>8, <2>11 DEF Sent, ResetPending
  <2> QED BY <1>3, <2>2, <2>3, <2>4, <2>5, <2>12, <2>13, <2>14 DEF KnownInv
<1>26. CommittedInv'
  <2>1. reply'.op = "commit" /\ reply'.ok => pool'.active = lastTx
    <3> SUFFICES ASSUME reply'.op = "commit", reply'.ok PROVE pool'.active = lastTx
      OBVIOUS
    <3>1. reply' = reply
      BY <1>18
    <3>2. pool.active = lastTx /\ Unasked(ops) /\ go.pc = "commit"
      BY <3>1 DEF Good, CommittedInv, OrderInv
    <3>3. by = "undo"
      BY <1>3, <1>4, <1>9, <3>2 DEF Busy
    <3> QED BY <1>15, <1>16, <3>2, <3>3
  <2>2. ASSUME NEW c, c = go.committed.tx, c # None
        PROVE  /\ go.up /\ c \in {pool'.active, pool'.rollback.previous} /\ ~Sent("abort", c)'
               /\ pool'.active # c => (go.pc = "commit" /\ pool'.active = lastTx)
                                      \/ (g # pool.active /\ Sent("abort", pool.active))
    <3>1. /\ go.up /\ c \in {pool.active, pool.rollback.previous} /\ ~Sent("abort", c)
          /\ pool.active # c => (go.pc = "commit" /\ pool.active = lastTx) \/ Sent("abort", pool.active)
      BY <2>2 DEF Good, CommittedInv
    <3>2. ~Sent("abort", c)'
      BY <1>6, <3>1
    <3>3. c # g
      BY <1>13, <2>2
    <3> QED BY <1>16, <3>1, <3>2, <3>3
  <2>3. ASSUME g # pool.active, Sent("abort", pool.active) PROVE Sent("abort", pool.active)'
    BY <1>3, <1>16, <2>3 DEF Sent
  <2>4. ASSUME NEW c, c = go.committed.tx, ~Sent("abort", c)' PROVE ~Sent("abort", go.committed.tx)'
    BY <1>3, <2>4 DEF Sent
  <2> QED BY <1>3, <2>1, <2>2, <2>3, <2>4 DEF Good, CommittedInv, Busy
<1>27. ServedInv'
  <2>1. \A x, fp : x # g /\ Serves(pool, x, fp) => Serves(pool', x, fp)
    BY <1>16, ServesKept
  <2>2. \A x \in adapter'.transactions : At(x, "verify")' /\ adapter'.active[x].ready => Serves(pool', x, adapter'.active[x].fingerprint)
    <3> SUFFICES ASSUME NEW x \in adapter'.transactions, At(x, "verify")', adapter'.active[x].ready
                 PROVE  Serves(pool', x, adapter'.active[x].fingerprint)
      OBVIOUS
    <3>1. x \in adapter.transactions /\ At(x, "verify") /\ adapter.active[x].ready /\ x # g /\ adapter'.active[x] = adapter.active[x]
      BY <1>17 DEF At
    <3> QED BY <2>1, <3>1 DEF Good, ServedInv
  <2>3. reply'.op = "activate" /\ reply'.ok /\ reply'.ready => Serves(pool', lastTx, go.next.fingerprint)
    BY <1>14, <1>18, <2>1 DEF Good, ServedInv
  <2>4. go.committed.plugins => go.committed.tx # None /\ go.committed.fingerprint # Plain /\ Serves(pool', go.committed.tx, go.committed.fingerprint)
    BY <1>13, <2>1 DEF Good, ServedInv
  <2>5. go.pc = "commit" /\ go.next.plugins => go.next.fingerprint # Plain /\ Serves(pool', lastTx, go.next.fingerprint)
    BY <1>14, <2>1 DEF Good, ServedInv
  <2> QED BY <1>3, <2>2, <2>3, <2>4, <2>5 DEF ServedInv
<1> QED BY <1>16, <1>20, <1>21, <1>23, <1>24, <1>25, <1>26, <1>27 DEF Good

-----------------------------------------------------------------------------
(* The invariant.                                                          *)

\* Nothing is under way at first.
LEMMA AgreementInit == Init => AgreementInv
<1> SUFFICES ASSUME Init PROVE Good
  BY DEF AgreementInv, Good
<1>1. /\ go.up /\ go.pc = "idle" /\ go.committed = NoCatalog /\ lastTx = 0 /\ wire = <<>> /\ ops = <<>>
      /\ reply.op = "none" /\ adapter.transactions = {} /\ adapter.active = <<>> /\ pool = NewPool
  BY DEF Init, NewServer, NoReply, None
<1>2. /\ DOMAIN wire = {} /\ DOMAIN ops = {} /\ DOMAIN adapter.active = {}
      /\ pool.active = 0 /\ pool.activeState = 0 /\ pool.rollback = NoRollback /\ pool.generations = <<>> /\ pool.hosts = <<>>
      /\ pool.timers = <<>> /\ DOMAIN pool.generations = {} /\ DOMAIN pool.hosts = {} /\ DOMAIN pool.timers = {} /\ None = 0
      /\ pool.rollback.generation = 0 /\ pool.rollback.previous = 0 /\ pool.rollback.state = 0
  BY <1>1 DEF NewPool, NoRollback, None
<1>3. (\A x, y : ~Wired(wire, x, y)) /\ (\A x, y, b : ~Queued(ops, x, y, b))
  BY <1>2 DEF Wired, Queued
<1>4. (\A x, y : ~Sent(x, y)) /\ (\A x : ~ResetPending(x)) /\ (\A x : ~Live(x)) /\ (\A x : ~Activating(x)) /\ ~Busy
  BY <1>1, <1>2, <1>3 DEF Sent, ResetPending, Live, Activating, Busy
<1>5. OrderInv
  BY <1>1, <1>2, <1>4 DEF OrderInv, Ordered, Within, Shaped
<1>6. ResetInv
  BY <1>2 DEF ResetInv, ResetsLast, Resetting
<1>7. SessionInv
  BY <1>1, <1>4 DEF SessionInv
<1>8. ActivationInv
  BY <1>1, <1>2, <1>4 DEF ActivationInv
<1>9. Sound(pool)
  <2>1. IsPool(pool)
    BY <1>1 DEF NewPool, IsPool, PoolFields
  <2>2. IsFiniteSet(DOMAIN pool.timers)
    BY <1>2, FS_EmptySet
  <2> QED BY <1>2, <2>1, <2>2 DEF Sound, Calm
<1>10. KnownInv
  BY <1>1, <1>2, <1>4 DEF KnownInv, Above
<1>11. CommittedInv
  BY <1>1, <1>2, <1>4 DEF CommittedInv, NoCatalog
<1>12. ServedInv
  BY <1>1, <1>2 DEF ServedInv, NoCatalog
<1> QED BY <1>5, <1>6, <1>7, <1>8, <1>9, <1>10, <1>11, <1>12 DEF Good

\* Every step before disposal keeps the invariant.
LEMMA AgreementStep == ConfigType /\ AgreementInv /\ [Next]_vars => AgreementInv'
<1> SUFFICES ASSUME ConfigType, AgreementInv, [Next]_vars, ~disposed' PROVE Good'
  BY DEF AgreementInv, Good
<1>1. ~disposed
  <2>1. CASE UNCHANGED vars
    BY <2>1 DEF vars
  <2>2. CASE Next
    BY <2>2 DEF Next, RefreshConfig, Refresh, OnLoaded, OnActivated, OnCommitted, OnAborted, ControlTimeout, CancelRefresh,
                AskLint, Crash, Restart, Extension, HandleRequest, LoadConfigs, ActivateConfigs, CommitConfigs, AbortConfigs, Lint,
                OnRequest, Activation, Summarize, Verify, ExtensionOnly, RunOperation, RunPrepare, RunCommit, RunAbort, RunDispose,
                Settles, Recheck, Hosts, ReleaseLint, Expire, PoolOnly, DisposeRuntime, ServerOnly
  <2> QED BY <2>1, <2>2
<1>2. Good
  BY <1>1 DEF AgreementInv, Good
<1>3. CASE UNCHANGED vars
  <2>1. UNCHANGED <<go, lastTx, reply, adapter, ops, wire, pool>>
    BY <1>3 DEF vars
  <2> QED BY <1>2, <2>1 DEF Good, OrderInv, ResetInv, SessionInv, ActivationInv, KnownInv, CommittedInv, ServedInv,
                            Busy, Limit, Sent, ResetPending, Live, Activating, At
<1>4. CASE RefreshConfig
  BY <1>2, <1>4, RefreshGood
<1>5. CASE OnLoaded
  <2>1. CASE AbortFailedRefresh
    BY <1>2, <1>5, <2>1, AbortRefreshGood DEF OnLoaded
  <2>2. CASE ~AbortFailedRefresh
    <3>1. PICK fp \in Fingerprints \cup {Plain}, usable \in BOOLEAN :
            LET next == [go.next EXCEPT !.fingerprint = fp, !.usable = usable]
            IN go' = [go EXCEPT !.pc = "activate", !.next = next] /\ Ask("activate", next)
      BY <1>5, <2>2 DEF OnLoaded
    <3> DEFINE next == [go.next EXCEPT !.fingerprint = fp, !.usable = usable]
    <3>2. go.next.tx = lastTx /\ go.next \in Catalogs
      BY <1>2, <1>5 DEF OnLoaded, Good, OrderInv, Busy, ConfigType, Servers
    <3>3. next \in Catalogs /\ next.tx = lastTx
      BY <3>2 DEF Catalogs, Prints
    <3>4. go' = [go EXCEPT !.pc = "activate", !.next = next] /\ Ask("activate", next)
      BY <3>1
    <3> HIDE DEF next
    <3>5. go.pc = "load" /\ UNCHANGED lastTx /\ ServerOnly
      BY <1>5 DEF OnLoaded
    <3> QED BY <1>2, <3>3, <3>4, <3>5, LoadedGood
  <2> QED BY <2>1, <2>2
<1>6. CASE OnActivated
  <2>1. CASE AbortFailedRefresh
    BY <1>2, <1>6, <2>1, AbortRefreshGood DEF OnActivated
  <2>2. CASE ~AbortFailedRefresh
    <3> DEFINE next == [go.next EXCEPT !.plugins = reply.ready /\ go.next.fingerprint # Plain]
    <3>1. go' = [go EXCEPT !.pc = "commit", !.next = next] /\ Ask("commit", go.next) /\ reply.ok
      BY <1>6, <2>2 DEF OnActivated, Accepted
    <3>2. go.next.tx = lastTx /\ go.next \in Catalogs
      BY <1>2, <1>6 DEF OnActivated, Good, OrderInv, Busy, ConfigType, Servers
    <3>3. next \in Catalogs /\ next.tx = lastTx /\ next.fingerprint = go.next.fingerprint
          /\ (next.plugins => reply.ready /\ go.next.fingerprint # Plain)
      BY <3>2 DEF Catalogs
    <3> HIDE DEF next
    <3>4. go.pc = "activate" /\ reply.op = "activate" /\ UNCHANGED lastTx /\ ServerOnly
      BY <1>6 DEF OnActivated
    <3> QED BY <1>2, <3>1, <3>3, <3>4, ActivatedGood
  <2> QED BY <2>1, <2>2
<1>7. CASE CancelRefresh
  BY <1>2, <1>7, AbortRefreshGood DEF CancelRefresh
<1>a. /\ Idle.pc = "idle" /\ Idle.up = go.up /\ Idle.committed = go.committed
      /\ CommitSnapshot.pc = "idle" /\ CommitSnapshot.up = go.up /\ CommitSnapshot.committed = go.next
  BY DEF ConfigType, Servers, Idle, CommitSnapshot
<1>8. CASE OnCommitted
  <2>1. CASE AbortFailedRefresh
    BY <1>2, <1>8, <2>1, AbortRefreshGood DEF OnCommitted
  <2>2. CASE ~AbortFailedRefresh
    <3>1. /\ go.pc = "commit" /\ reply.op = "commit" /\ reply.ok /\ go' = CommitSnapshot /\ reply' = NoReply
          /\ UNCHANGED <<lastTx, wire>> /\ ServerOnly
      BY <1>8, <2>2 DEF OnCommitted
    <3>2. go'.pc = "idle" /\ go'.up = go.up /\ go'.committed = go.next
      BY <1>a, <3>1
    <3> QED BY <1>2, <3>1, <3>2, IdleGood
  <2> QED BY <2>1, <2>2
<1>9. CASE OnAborted
  <2>1. go.pc = "abort" /\ go' = Idle /\ reply' = NoReply /\ UNCHANGED <<lastTx, wire>> /\ ServerOnly
    BY <1>9 DEF OnAborted
  <2>2. go'.pc = "idle" /\ go'.up = go.up /\ go'.committed = go.committed
    BY <1>a, <2>1
  <2> QED BY <1>2, <2>1, <2>2, IdleGood
<1>10. CASE ControlTimeout
  <2>1. CASE AbortFailedRefresh /\ go.pc = "commit"
    BY <1>2, <1>10, <2>1, AbortRefreshGood DEF ControlTimeout
  <2>2. CASE ~(AbortFailedRefresh /\ go.pc = "commit")
    <3>1. go.pc = "abort" /\ go' = Idle /\ reply' = NoReply /\ UNCHANGED <<lastTx, wire>> /\ ServerOnly
      BY <1>10, <2>2 DEF ControlTimeout
    <3>2. go'.pc = "idle" /\ go'.up = go.up /\ go'.committed = go.committed
      BY <1>a, <3>1
    <3> QED BY <1>2, <3>1, <3>2, IdleGood
  <2> QED BY <2>1, <2>2
<1>11. CASE AskLint \/ Lint \/ Recheck \/ Hosts
  BY <1>1, <1>2, <1>11, LintStepsGood
<1>12. CASE Crash
  BY <1>2, <1>12, CrashGood
<1>13. CASE Restart
  BY <1>2, <1>13, RestartGood
<1>14. CASE LoadConfigs
  BY <1>2, <1>14, LoadConfigsGood
<1>15. CASE ActivateConfigs
  BY <1>1, <1>2, <1>15, ActivateConfigsGood
<1>16. CASE CommitConfigs \/ AbortConfigs
  BY <1>1, <1>2, <1>16, MoveGood
<1>17. CASE Activation
  BY <1>1, <1>2, <1>17, ActivationStepsGood
<1>18. CASE RunPrepare
  BY <1>1, <1>2, <1>18, RunPrepareGood
<1>19. CASE RunCommit
  BY <1>1, <1>2, <1>19, RunCommitGood
<1>20. CASE RunAbort
  BY <1>1, <1>2, <1>20, RunAbortGood
<1>21. CASE RunDispose
  <2>1. PICK t, by : t = Head(ops).tx /\ by = Head(ops).by
    OBVIOUS
  <2>2. Settles("dispose")
    BY <1>21 DEF RunDispose
  <2>3. <<"dispose", by>> \in Shapes
    BY <1>2, <2>1, <2>2, SettleFacts
  <2> QED BY <2>3 DEF Shapes
<1>22. CASE DisposeRuntime
  BY <1>22 DEF DisposeRuntime
<1> QED BY <1>3, <1>4, <1>5, <1>6, <1>7, <1>8, <1>9, <1>10, <1>11, <1>12, <1>13, <1>14, <1>15, <1>16, <1>17, <1>18, <1>19,
           <1>20, <1>21, <1>22 DEF Next, Refresh, Extension, HandleRequest, RunOperation

\* Once nothing of the active and of the committed generation is under way, they are the same.
LEMMA AgreementHolds == ConfigType /\ AgreementInv => Agreement
<1> SUFFICES ASSUME ConfigType, Good, go.committed.tx # None, ~Open(pool.active), pool.active # go.committed.tx PROVE FALSE
  BY DEF AgreementInv, Good, Agreement
<1>1. (go.pc = "commit" /\ pool.active = lastTx) \/ Sent("abort", pool.active)
  BY DEF Good, CommittedInv
<1>2. CASE go.pc = "commit" /\ pool.active = lastTx
  BY <1>2 DEF Good, OrderInv, Busy, Open
<1>3. CASE Wired(wire, "abort", pool.active)
  BY <1>3 DEF Wired, Open, Pending
<1>4. CASE Queued(ops, "abort", pool.active, "request")
  <2>1. PICK k \in DOMAIN ops : ops[k] = Operation("abort", pool.active, "request")
    BY <1>4 DEF Queued
  <2>2. ops[k].tx = pool.active
    BY <2>1 DEF Operation
  <2> QED BY <2>2 DEF Open, Pending
<1> QED BY <1>1, <1>2, <1>3, <1>4 DEF Sent

\* The catalog the server has committed is served.
LEMMA RoutableHolds == AgreementInv => CommittedIsRoutable
<1> SUFFICES ASSUME Good, go.committed.plugins
             PROVE  /\ Servable(go.committed.tx)
                    /\ LET host == pool.hosts[pool.generations[go.committed.tx]]
                       IN ~host.shutdown /\ ~host.retiring /\ host.fingerprint = go.committed.fingerprint
  BY DEF AgreementInv, Good, CommittedIsRoutable
<1>1. go.committed.fingerprint # Plain /\ Serves(pool, go.committed.tx, go.committed.fingerprint)
  BY DEF Good, ServedInv
<1>2. Sound(pool)
  BY DEF Good
<1> QED BY <1>1, <1>2 DEF Sound, Calm, Serves, Servable, Routed

\* The catalog the server has committed with plugins leads to a live host of exactly those
\* plugins, whatever commits were lost, aborted late or overtaken: for any number of
\* transactions, lints, crashes and timeouts, and any size of the grace history.
THEOREM CommittedServed == Spec => []CommittedIsRoutable
<1>1. Init => AgreementInv
  BY AgreementInit
<1>2. ConfigType /\ AgreementInv /\ [Next]_vars => AgreementInv'
  BY AgreementStep
<1>3. AgreementInv => CommittedIsRoutable
  BY RoutableHolds
<1> QED BY <1>1, <1>2, <1>3, TypeCorrect, PTL DEF Spec

\* Server and extension agree on the committed generation once nothing of it and of the active
\* one is under way: a commit whose answer was lost has been undone by its abort.
THEOREM AgreementReached == Spec => []Agreement
<1>1. Init => AgreementInv
  BY AgreementInit
<1>2. ConfigType /\ AgreementInv /\ [Next]_vars => AgreementInv'
  BY AgreementStep
<1>3. ConfigType /\ AgreementInv => Agreement
  BY AgreementHolds
<1> QED BY <1>1, <1>2, <1>3, TypeCorrect, PTL DEF Spec
-----------------------------------------------------------------------------
(* Nothing leaks.                                                          *)

\* A transaction the extension still has something to do for.
Owned(t) ==
    \/ t \in DOMAIN adapter.active
    \/ t \in adapter.transactions
    \/ \E k \in DOMAIN ops : ops[k].tx = t

\* What may still be aborted is a transaction, and not the one to roll back to.
Abortable(t) == t # None /\ t # pool.rollback.previous

AbortsInv ==
    /\ \A k \in DOMAIN ops : ops[k].op = "abort" => Abortable(ops[k].tx)
    /\ \A k \in DOMAIN wire : wire[k].op = "abort" => Abortable(wire[k].tx)
    /\ \A t \in DOMAIN adapter.active : Abortable(t)
    /\ Busy => Abortable(go.next.tx)

\* The disposal has run.
Closed == disposed /\ Emptied(pool)

\* Before disposal what is routed has a use or an owner; until the disposal has run no host is
\* left behind and the grace history is bounded.  Between the two, late aborts still run on a
\* pool whose agreement with the server is no longer kept: AbortsInv is what they need of it.
LeakInv ==
    /\ ~disposed => \A g \in DOMAIN pool.generations : g \in Kept(pool) \/ Owned(g)
    /\ Closed \/ (Sound(pool) /\ Led(pool) /\ Brief(pool))
    /\ disposed => Closed \/ AbortsInv

\* The order of the requests gives it as long as the two sides agree.
LEMMA AbortsOrdered == ASSUME ConfigType, Good PROVE AbortsInv
<1>0. /\ go \in Servers /\ wire \in Seq(Requests) /\ ops \in Seq(Operations) /\ lastTx \in Nat
  BY DEF ConfigType
<1>1. /\ Sound(pool) /\ KnownInv /\ Shaped(ops) /\ Within(wire, ops, Limit) /\ ResetsLast(ops)
  BY DEF Good, OrderInv, ResetInv
<1>2. /\ pool.active \in Nat /\ pool.rollback.previous \in Nat /\ pool.active <= lastTx
      /\ pool.rollback.previous # None => pool.rollback.previous < pool.active
  BY <1>1 DEF Sound, KnownInv, NoRollback, None
<1>3. ASSUME NEW t \in DOMAIN adapter.active PROVE Abortable(t)
  <2>1. 0 < t /\ ~Activating(pool.rollback.previous)
    BY DEF Good, ActivationInv
  <2> QED BY <2>1 DEF Abortable, Activating, None
<1>4. ASSUME NEW k \in DOMAIN wire, wire[k].op = "abort" PROVE Abortable(wire[k].tx)
  <2>1. wire[k] \in Requests
    BY <1>0
  <2>2. Control(wire[k])
    BY <1>4 DEF Control
  <2>3. 0 < wire[k].tx /\ wire[k].tx \in Nat
    BY <1>1, <2>1, <2>2 DEF Within, Requests
  <2>4. Sent("abort", wire[k].tx)
    BY <1>4 DEF Sent, Wired
  <2>5. pool.rollback.previous # None => ~Sent("abort", pool.rollback.previous)
    BY <1>1 DEF KnownInv
  <2> QED BY <2>3, <2>4, <2>5 DEF Abortable, None
<1>5. ASSUME NEW k \in DOMAIN ops, ops[k].op = "abort" PROVE Abortable(ops[k].tx)
  <2>1. ops[k] \in Operations /\ <<ops[k].op, ops[k].by>> \in Shapes
    BY <1>0, <1>1 DEF Shaped
  <2>2. ops[k].by \in {"request", "undo", "reset"} /\ ops[k].tx \in Nat
    BY <1>5, <2>1 DEF Shapes, Operations
  <2>3. ops[k] = Operation("abort", ops[k].tx, ops[k].by)
    BY <1>5, <2>1 DEF Operations, Operation
  <2>4. CASE ops[k].by = "undo"
    <3>1. At(ops[k].tx, StageOf(ops[k]))
      BY <2>4 DEF Good, ActivationInv, Mine
    <3> QED BY <1>3, <3>1 DEF At
  <2>5. CASE ops[k].by = "request"
    <3>1. 0 < ops[k].tx
      BY <1>1, <2>5 DEF Within, Requested
    <3>2. Sent("abort", ops[k].tx)
      BY <2>3, <2>5 DEF Sent, Queued
    <3>3. pool.rollback.previous # None => ~Sent("abort", pool.rollback.previous)
      BY <1>1 DEF KnownInv
    <3> QED BY <2>2, <3>1, <3>2, <3>3 DEF Abortable, None
  <2>6. CASE ops[k].by = "reset"
    <3>1. 0 < ops[k].tx
      BY <1>1, <2>6 DEF ResetsLast
    <3>2. ResetPending(ops[k].tx)
      BY <2>3, <2>6 DEF ResetPending, Queued
    <3>3. pool.rollback.previous # None => ~ResetPending(pool.rollback.previous)
      BY <1>1 DEF KnownInv
    <3> QED BY <2>2, <3>1, <3>2, <3>3 DEF Abortable, None
  <2> QED BY <2>2, <2>4, <2>5, <2>6
<1>6. Busy => Abortable(go.next.tx)
  <2>1. Busy => go.next.tx = lastTx /\ lastTx > 0
    BY DEF Good, OrderInv
  <2> QED BY <1>0, <1>2, <2>1 DEF Abortable, None
<1> QED BY <1>3, <1>4, <1>5, <1>6 DEF AbortsInv

\* What the chain holds after an operation has joined or left it.
LEMMA ChainHolds ==
    ASSUME NEW s \in Seq(Operations)
    PROVE  /\ \A e : LET a == Append(s, e) IN
                /\ \A k \in DOMAIN a : (k \in DOMAIN s /\ a[k] = s[k]) \/ a[k] = e
                /\ \A k \in DOMAIN s : k \in DOMAIN a /\ a[k] = s[k]
                /\ \E k \in DOMAIN a : a[k] = e
           /\ s # <<>> => /\ \A k \in DOMAIN Tail(s) : k + 1 \in DOMAIN s /\ Tail(s)[k] = s[k + 1]
                          /\ \A k \in DOMAIN s : s[k] = Head(s) \/ (k - 1 \in DOMAIN Tail(s) /\ Tail(s)[k - 1] = s[k])
                          /\ 1 \in DOMAIN s /\ s[1] = Head(s)
<1>1. ASSUME NEW e
      PROVE  LET a == Append(s, e) IN
             /\ \A k \in DOMAIN a : (k \in DOMAIN s /\ a[k] = s[k]) \/ a[k] = e
             /\ \A k \in DOMAIN s : k \in DOMAIN a /\ a[k] = s[k]
             /\ \E k \in DOMAIN a : a[k] = e
  <2> DEFINE a == Append(s, e)
  <2>1. Len(s) \in Nat /\ DOMAIN s = 1..Len(s) /\ DOMAIN a = 1..(Len(s) + 1)
    OBVIOUS
  <2>2. a[Len(s) + 1] = e /\ \A k \in 1..Len(s) : a[k] = s[k]
    OBVIOUS
  <2> HIDE DEF a
  <2>3. \A k \in 1..(Len(s) + 1) : k \in 1..Len(s) \/ k = Len(s) + 1
    BY <2>1
  <2>4. Len(s) + 1 \in 1..(Len(s) + 1) /\ \A k \in 1..Len(s) : k \in 1..(Len(s) + 1)
    BY <2>1
  <2> QED BY <2>1, <2>2, <2>3, <2>4 DEF a
<1>2. ASSUME s # <<>>
      PROVE  /\ \A k \in DOMAIN Tail(s) : k + 1 \in DOMAIN s /\ Tail(s)[k] = s[k + 1]
             /\ \A k \in DOMAIN s : s[k] = Head(s) \/ (k - 1 \in DOMAIN Tail(s) /\ Tail(s)[k - 1] = s[k])
             /\ 1 \in DOMAIN s /\ s[1] = Head(s)
  BY <1>2
<1> QED BY <1>1, <1>2

\* A transaction that an abort, present or to come, is about.
Aimed(t) ==
    \/ \E k \in DOMAIN ops : ops[k].op = "abort" /\ ops[k].tx = t
    \/ \E k \in DOMAIN wire : wire[k].op = "abort" /\ wire[k].tx = t
    \/ t \in DOMAIN adapter.active
    \/ Busy /\ go.next.tx = t

\* The invariant after a step, from what the step does to the pool, to the owners of its
\* generations, and to the aborts that are due once disposal has begun.
LEMMA LeakFrom ==
    ASSUME ConfigType, AgreementInv, LeakInv,
           Closed => Closed',
           ~disposed' => \A g \in DOMAIN pool'.generations : g \in Kept(pool') \/ Owned(g)',
           disposed' => \A t : Aimed(t)' => Aimed(t),
           Sound(pool) /\ Led(pool) /\ Brief(pool) /\ AbortsInv =>
               \/ Closed'
               \/ /\ Sound(pool') /\ Led(pool') /\ Brief(pool')
                  /\ disposed' => pool'.rollback.previous \in {pool.rollback.previous, None}
    PROVE  LeakInv'
<1>1. ASSUME ~Closed'
      PROVE  Sound(pool) /\ Led(pool) /\ Brief(pool) /\ AbortsInv
  <2>1. ~Closed
    BY <1>1
  <2>2. Sound(pool) /\ Led(pool) /\ Brief(pool) /\ (disposed => AbortsInv)
    BY <2>1 DEF LeakInv
  <2>3. ~disposed => AbortsInv
    BY AbortsOrdered DEF AgreementInv, Good
  <2> QED BY <2>2, <2>3
<1>2. \/ Closed'
      \/ /\ Sound(pool') /\ Led(pool') /\ Brief(pool')
         /\ disposed' => pool'.rollback.previous \in {pool.rollback.previous, None}
  BY <1>1
<1>3. ASSUME disposed', ~Closed' PROVE AbortsInv'
  <2>1. \A t : Aimed(t) => Abortable(t)
    BY <1>1, <1>3 DEF AbortsInv, Aimed
  <2>2. \A t : Abortable(t) => Abortable(t)'
    BY <1>2, <1>3 DEF Abortable
  <2>3. \A t : Aimed(t)' => Abortable(t)'
    BY <1>3, <2>1, <2>2
  <2> QED BY <2>3 DEF AbortsInv, Aimed
<1> QED BY <1>2, <1>3 DEF LeakInv

\* The same when the pool stays as it is.
LEMMA LeakSame ==
    ASSUME ConfigType, AgreementInv, LeakInv, pool' = pool, disposed => disposed',
           ~disposed' => \A t : Owned(t) => Owned(t)',
           disposed' => \A t : Aimed(t)' => Aimed(t)
    PROVE  LeakInv'
<1>1. ~disposed' => \A g \in DOMAIN pool'.generations : g \in Kept(pool') \/ Owned(g)'
  BY DEF LeakInv
<1>2. Closed => Closed'
  BY DEF Closed
<1> QED BY <1>1, <1>2, LeakFrom

\* A request of the server concerns its own transaction, and it has a new one only before disposal.
LEMMA ServerLeak ==
    ASSUME ConfigType, AgreementInv, LeakInv,
           RefreshConfig \/ Refresh \/ CancelRefresh \/ AskLint \/ Crash
    PROVE  LeakInv'
<1>0. go \in Servers /\ wire \in Seq(Requests)
  BY DEF ConfigType
<1>1. UNCHANGED <<adapter, ops, pool, disposed>>
  <2>1. CASE RefreshConfig
    BY <2>1 DEF RefreshConfig, ServerOnly
  <2>2. CASE Refresh
    BY <2>2 DEF Refresh, OnLoaded, OnActivated, OnCommitted, OnAborted, ControlTimeout, ServerOnly
  <2>3. CASE CancelRefresh \/ AskLint \/ Crash
    BY <2>3 DEF CancelRefresh, AskLint, Crash, ServerOnly
  <2> QED BY <2>1, <2>2, <2>3
<1>2. ASSUME NEW r, wire' = Append(wire, r)
      PROVE  \A k \in DOMAIN wire' : (k \in DOMAIN wire /\ wire'[k] = wire[k]) \/ wire'[k] = r
  <2>1. Len(wire) \in Nat /\ DOMAIN wire = 1..Len(wire) /\ DOMAIN wire' = 1..(Len(wire) + 1)
    BY <1>0, <1>2
  <2>2. wire'[Len(wire) + 1] = r /\ \A k \in 1..Len(wire) : wire'[k] = wire[k]
    BY <1>0, <1>2
  <2>3. \A k \in 1..(Len(wire) + 1) : k \in 1..Len(wire) \/ k = Len(wire) + 1
    BY <2>1
  <2> QED BY <2>1, <2>2, <2>3
<1>3. ASSUME Busy, AbortFailedRefresh, NEW t, Aimed(t)' PROVE Aimed(t)
  <2> DEFINE r == Request("abort", go.next)
  <2>1. wire' = Append(wire, r) /\ go' = [go EXCEPT !.pc = "abort"] /\ r.tx = go.next.tx
    BY <1>3 DEF AbortFailedRefresh, Ask, Request
  <2>2. go'.next = go.next
    BY <1>0, <2>1 DEF Servers
  <2> HIDE DEF r
  <2>3. \A k \in DOMAIN wire' : (k \in DOMAIN wire /\ wire'[k] = wire[k]) \/ wire'[k] = r
    BY <1>2, <2>1
  <2> QED BY <1>1, <1>3, <2>1, <2>2, <2>3 DEF Aimed
<1>4. ASSUME NEW op, op # "abort", NEW c, Ask(op, c), Busy, go'.next.tx = go.next.tx, NEW t, Aimed(t)' PROVE Aimed(t)
  <2> DEFINE r == Request(op, c)
  <2>1. wire' = Append(wire, r) /\ r.op # "abort"
    BY <1>4 DEF Ask, Request
  <2> HIDE DEF r
  <2>2. \A k \in DOMAIN wire' : (k \in DOMAIN wire /\ wire'[k] = wire[k]) \/ wire'[k] = r
    BY <1>2, <2>1
  <2> QED BY <1>1, <1>4, <2>1, <2>2 DEF Aimed
<1>5. ASSUME go'.pc = "idle", \A k \in DOMAIN wire' : k \in DOMAIN wire /\ wire'[k] = wire[k], NEW t, Aimed(t)' PROVE Aimed(t)
  BY <1>1, <1>5 DEF Aimed, Busy
<1>6. Idle.pc = "idle" /\ CommitSnapshot.pc = "idle" /\ NewServer.pc = "idle"
  BY <1>0 DEF Idle, CommitSnapshot, Servers, NewServer
<1>7. ASSUME disposed, NEW t, Aimed(t)' PROVE Aimed(t)
  <2>1. CASE RefreshConfig
    BY <1>7, <2>1 DEF RefreshConfig
  <2>2. CASE OnLoaded
    <3>1. CASE AbortFailedRefresh
      BY <1>3, <1>7, <2>2, <3>1 DEF OnLoaded, Busy
    <3>2. CASE ~AbortFailedRefresh
      <4>1. PICK fp \in Fingerprints \cup {Plain}, usable \in BOOLEAN :
              LET next == [go.next EXCEPT !.fingerprint = fp, !.usable = usable]
              IN go' = [go EXCEPT !.pc = "activate", !.next = next] /\ Ask("activate", next)
        BY <2>2, <3>2 DEF OnLoaded
      <4> DEFINE next == [go.next EXCEPT !.fingerprint = fp, !.usable = usable]
      <4>2. next.tx = go.next.tx
        BY <1>0 DEF Servers, Catalogs
      <4>3. go' = [go EXCEPT !.pc = "activate", !.next = next] /\ Ask("activate", next)
        BY <4>1
      <4> HIDE DEF next
      <4>4. go'.next.tx = go.next.tx
        BY <1>0, <4>2, <4>3 DEF Servers
      <4>5. Busy
        BY <2>2 DEF OnLoaded, Busy
      <4> QED BY <1>4, <1>7, <4>3, <4>4, <4>5
    <3> QED BY <3>1, <3>2
  <2>3. CASE OnActivated
    <3>1. CASE AbortFailedRefresh
      BY <1>3, <1>7, <2>3, <3>1 DEF OnActivated, Busy
    <3>2. CASE ~AbortFailedRefresh
      <4> DEFINE next == [go.next EXCEPT !.plugins = reply.ready /\ go.next.fingerprint # Plain]
      <4>1. go' = [go EXCEPT !.pc = "commit", !.next = next] /\ Ask("commit", go.next)
        BY <2>3, <3>2 DEF OnActivated
      <4>2. next.tx = go.next.tx
        BY <1>0 DEF Servers, Catalogs
      <4> HIDE DEF next
      <4>3. go'.next.tx = go.next.tx
        BY <1>0, <4>1, <4>2 DEF Servers
      <4>4. Busy
        BY <2>3 DEF OnActivated, Busy
      <4> QED BY <1>4, <1>7, <4>1, <4>3, <4>4
    <3> QED BY <3>1, <3>2
  <2>4. CASE OnCommitted \/ OnAborted \/ ControlTimeout
    <3>1. CASE AbortFailedRefresh /\ go.pc = "commit"
      BY <1>3, <1>7, <3>1 DEF Busy
    <3>2. CASE ~(AbortFailedRefresh /\ go.pc = "commit")
      BY <1>5, <1>6, <1>7, <2>4, <3>2 DEF OnCommitted, OnAborted, ControlTimeout
    <3> QED BY <3>1, <3>2
  <2>5. CASE CancelRefresh
    BY <1>3, <1>7, <2>5 DEF CancelRefresh, Busy
  <2>6. CASE AskLint
    <3>1. PICK g : wire' = Append(wire, [op |-> "lint", tx |-> g, fingerprint |-> Plain]) /\ go' = go
      BY <2>6 DEF AskLint
    <3> DEFINE r == [op |-> "lint", tx |-> g, fingerprint |-> Plain]
    <3>2. r.op # "abort" /\ wire' = Append(wire, r)
      BY <3>1
    <3> HIDE DEF r
    <3>3. \A k \in DOMAIN wire' : (k \in DOMAIN wire /\ wire'[k] = wire[k]) \/ wire'[k] = r
      BY <1>2, <3>2
    <3> QED BY <1>1, <1>7, <3>1, <3>2, <3>3 DEF Aimed, Busy
  <2>7. CASE Crash
    <3>1. PICK n \in 0..Len(wire) : wire' = SubSeq(wire, 1, n)
      BY <2>7 DEF Crash
    <3>2. \A k \in DOMAIN wire' : k \in DOMAIN wire /\ wire'[k] = wire[k]
      BY <1>0, <3>1
    <3>3. go'.pc = "idle"
      BY <2>7 DEF Crash, NewServer
    <3> QED BY <1>5, <1>7, <3>2, <3>3
  <2> QED BY <2>1, <2>2, <2>3, <2>4, <2>5, <2>6, <2>7 DEF Refresh
<1>8. \A t : Owned(t) => Owned(t)'
  BY <1>1 DEF Owned
<1> QED BY <1>1, <1>7, <1>8, LeakSame

\* What the wire still holds when a request has been taken from it.
LEMMA WireHolds ==
    ASSUME ConfigType, NEW op, OnRequest(op)
    PROVE  /\ \A k \in DOMAIN wire' : k + 1 \in DOMAIN wire /\ wire'[k] = wire[k + 1]
           /\ 1 \in DOMAIN wire /\ wire[1] = Head(wire) /\ Head(wire).op = op
           /\ UNCHANGED <<go, disposed>>
<1>1. wire \in Seq(Requests) /\ wire # <<>> /\ Head(wire).op = op /\ wire' = Tail(wire) /\ UNCHANGED <<go, disposed>>
  BY DEF ConfigType, OnRequest
<1> QED BY <1>1

\* What an operation that joins the chain does to owners and aborts.
LEMMA EnqueueLeak ==
    ASSUME ConfigType, NEW op, NEW tx, NEW by, Enqueue(op, tx, by)
    PROVE  /\ \A k \in DOMAIN ops : k \in DOMAIN ops' /\ ops'[k] = ops[k]
           /\ \E k \in DOMAIN ops' : ops'[k].tx = tx
           /\ \A k \in DOMAIN ops' : (k \in DOMAIN ops /\ ops'[k] = ops[k]) \/ (ops'[k].op = op /\ ops'[k].tx = tx)
<1> DEFINE e == Operation(op, tx, by)
<1>1. ops \in Seq(Operations) /\ ops' = Append(ops, e) /\ e.op = op /\ e.tx = tx
  BY DEF ConfigType, Enqueue, Operation
<1> HIDE DEF e
<1>2. LET a == Append(ops, e) IN
      /\ \A k \in DOMAIN a : (k \in DOMAIN ops /\ a[k] = ops[k]) \/ a[k] = e
      /\ \A k \in DOMAIN ops : k \in DOMAIN a /\ a[k] = ops[k]
      /\ \E k \in DOMAIN a : a[k] = e
  BY <1>1, ChainHolds
<1> QED BY <1>1, <1>2

\* Loading, activating, committing and aborting only hand the transaction on.
LEMMA HandleLeak ==
    ASSUME ConfigType, AgreementInv, LeakInv, LoadConfigs \/ ActivateConfigs \/ CommitConfigs \/ AbortConfigs
    PROVE  LeakInv'
<1>1. CASE LoadConfigs
  <2>1. PICK ok \in {TRUE, FALSE} :
          /\ ok => ~disposed
          /\ adapter' = IF ok THEN [adapter EXCEPT !.transactions = @ \cup {Head(wire).tx}] ELSE adapter
    BY <1>1 DEF LoadConfigs
  <2>2. /\ adapter'.active = adapter.active /\ adapter.transactions \subseteq adapter'.transactions
        /\ UNCHANGED <<ops, pool>>
    BY <1>1, <2>1 DEF ConfigType, LoadConfigs
  <2>3. OnRequest("load")
    BY <1>1 DEF LoadConfigs
  <2>4. \A t : Owned(t) => Owned(t)'
    BY <2>2 DEF Owned
  <2>5. /\ \A k \in DOMAIN wire' : k + 1 \in DOMAIN wire /\ wire'[k] = wire[k + 1]
        /\ UNCHANGED <<go, disposed>>
    BY <2>3, WireHolds
  <2>6. \A t : Aimed(t)' => Aimed(t)
    BY <2>2, <2>5 DEF Aimed, Busy
  <2> QED BY <2>2, <2>4, <2>5, <2>6, LeakSame
<1>2. CASE ActivateConfigs
  <2>1. OnRequest("activate") /\ pool' = pool
    BY <1>2 DEF ActivateConfigs
  <2>2. /\ \A k \in DOMAIN wire' : k + 1 \in DOMAIN wire /\ wire'[k] = wire[k + 1]
        /\ UNCHANGED <<go, disposed>>
    BY <2>1, WireHolds
  <2>3. CASE disposed
    <3>1. UNCHANGED <<adapter, ops>>
      BY <1>2, <2>3 DEF ActivateConfigs
    <3>2. \A t : Aimed(t)' => Aimed(t)
      BY <2>2, <3>1 DEF Aimed, Busy
    <3> QED BY <2>1, <2>2, <2>3, <3>2, LeakSame
  <2>4. CASE ~disposed
    <3>1. PICK tx, fresh : /\ adapter' = [adapter EXCEPT !.active = With(@, tx, fresh)]
                           /\ ops' = ops \/ Enqueue("abort", tx, "undo")
      BY <1>2, <2>4 DEF ActivateConfigs
    <3>2. adapter'.transactions = adapter.transactions /\ DOMAIN adapter.active \subseteq DOMAIN adapter'.active
      BY <3>1 DEF ConfigType, With
    <3>3. \A k \in DOMAIN ops : k \in DOMAIN ops' /\ ops'[k] = ops[k]
      BY <3>1, EnqueueLeak
    <3>4. \A t : Owned(t) => Owned(t)'
      BY <3>2, <3>3 DEF Owned
    <3> QED BY <2>1, <2>2, <2>4, <3>4, LeakSame
  <2> QED BY <2>3, <2>4
<1>3. CASE CommitConfigs \/ AbortConfigs
  <2>0. PICK op, tx : op \in {"commit", "abort"} /\ OnRequest(op) /\ tx = Head(wire).tx
                      /\ (ops' = ops \/ Enqueue(op, tx, "request")) /\ UNCHANGED <<adapter, pool>>
    <3>1. CASE CommitConfigs
      BY <3>1 DEF CommitConfigs
    <3>2. CASE AbortConfigs
      BY <3>2 DEF AbortConfigs
    <3> QED BY <1>3, <3>1, <3>2
  <2>1. /\ \A k \in DOMAIN wire' : k + 1 \in DOMAIN wire /\ wire'[k] = wire[k + 1]
        /\ 1 \in DOMAIN wire /\ wire[1].tx = tx /\ wire[1].op = op
        /\ UNCHANGED <<go, disposed>>
    BY <2>0, WireHolds
  <2>2. /\ \A k \in DOMAIN ops : k \in DOMAIN ops' /\ ops'[k] = ops[k]
        /\ \A k \in DOMAIN ops' : (k \in DOMAIN ops /\ ops'[k] = ops[k]) \/ (ops'[k].op = op /\ ops'[k].tx = tx)
    BY <2>0, EnqueueLeak
  <2>3. \A t : Owned(t) => Owned(t)'
    BY <2>0, <2>2 DEF Owned
  <2>4. \A t : Aimed(t)' => Aimed(t)
    BY <2>0, <2>1, <2>2 DEF Aimed, Busy
  <2> QED BY <2>0, <2>1, <2>3, <2>4, LeakSame
<1> QED BY <1>1, <1>2, <1>3

\* An activation undoes itself, and gives its session up only to the server that waits for it.
LEMMA ActivationLeak ==
    ASSUME ConfigType, AgreementInv, LeakInv, Activation
    PROVE  LeakInv'
<1>1. PICK tx \in 1..MaxTx : Summarize(tx) \/ Verify(tx)
  BY DEF Activation
<1>2. tx \in DOMAIN adapter.active /\ UNCHANGED <<go, wire, disposed, pool>>
  BY <1>1 DEF Summarize, Verify, At, ExtensionOnly
<1>3. ASSUME NEW stage, NEW op, NEW by, adapter' = Staged(tx, stage), Enqueue(op, tx, by) PROVE LeakInv'
  <2>1. adapter'.transactions = adapter.transactions /\ DOMAIN adapter'.active = DOMAIN adapter.active
    BY <1>3 DEF Staged, ConfigType
  <2>2. /\ \A k \in DOMAIN ops : k \in DOMAIN ops' /\ ops'[k] = ops[k]
        /\ \A k \in DOMAIN ops' : (k \in DOMAIN ops /\ ops'[k] = ops[k]) \/ (ops'[k].op = op /\ ops'[k].tx = tx)
    BY <1>3, EnqueueLeak
  <2>3. \A t : Owned(t) => Owned(t)'
    BY <2>1, <2>2 DEF Owned
  <2>4. \A t : Aimed(t)' => Aimed(t)
    BY <1>2, <2>1, <2>2 DEF Aimed, Busy
  <2> QED BY <1>2, <2>3, <2>4, LeakSame
<1>4. CASE StillOpen(tx) /\ adapter' = [adapter EXCEPT !.active = Without(@, {tx})] /\ ops' = ops
  <2>1. adapter'.transactions = adapter.transactions /\ DOMAIN adapter'.active = DOMAIN adapter.active \ {tx}
    BY <1>4 DEF ConfigType, Without, Restrict
  <2>2. tx \in adapter.transactions
    BY <1>4 DEF StillOpen
  <2>3. \A t : Owned(t) => Owned(t)'
    BY <1>4, <2>1, <2>2 DEF Owned
  <2>4. \A t : Aimed(t)' => Aimed(t)
    BY <1>2, <1>4, <2>1 DEF Aimed, Busy
  <2> QED BY <1>2, <2>3, <2>4, LeakSame
<1>5. CASE Summarize(tx)
  BY <1>3, <1>5 DEF Summarize
<1>6. CASE Verify(tx)
  BY <1>3, <1>4, <1>6 DEF Verify
<1> QED BY <1>1, <1>5, <1>6

\* The restart aborts every session of the crashed server; disposal leaves the aborts as they are.
LEMMA RestartLeak ==
    ASSUME ConfigType, AgreementInv, LeakInv, Restart \/ DisposeRuntime
    PROVE  LeakInv'
<1>1. CASE Restart
  <2> DEFINE T == adapter.transactions
             r == [k \in 1..Cardinality(Orphans) |-> Operation("abort", SetToSeq(Orphans)[k], "reset")]
  <2>1. /\ r \in Seq(Operations) /\ ops \in Seq(Operations) /\ ops' = ops \o r /\ UNCHANGED <<pool, disposed>> /\ ~disposed
        /\ adapter'.active = adapter.active
    BY <1>1, ResetType DEF Restart, ConfigType
  <2>2. \A t \in T : \E k \in DOMAIN r : r[k].tx = t
    <3>1. Cardinality(T) \in Nat /\ SetToSeq(T) \in [1..Cardinality(T) -> T] /\ Orphans = T
      BY SetToSeqFacts DEF ConfigType, Orphans
    <3>2. \A k \in 1..Cardinality(T) : r[k].tx = SetToSeq(T)[k]
      BY <3>1 DEF Operation
    <3>3. DOMAIN r = 1..Cardinality(T)
      BY <3>1
    <3>4. \A t \in T : \E k \in 1..Cardinality(T) : SetToSeq(T)[k] = t
      BY SetToSeqOnto DEF ConfigType
    <3> HIDE DEF r, T
    <3> QED BY <3>2, <3>3, <3>4
  <2> HIDE DEF r
  <2>3. \A k \in DOMAIN ops : k \in DOMAIN ops' /\ ops'[k] = ops[k]
    BY <2>1
  <2>4. \A k \in DOMAIN r : Len(ops) + k \in DOMAIN ops' /\ ops'[Len(ops) + k] = r[k]
    BY <2>1
  <2>5. \A t \in T : \E k \in DOMAIN ops' : ops'[k].tx = t
    <3> HIDE DEF T
    <3> SUFFICES ASSUME NEW t \in T PROVE \E k \in DOMAIN ops' : ops'[k].tx = t
      OBVIOUS
    <3>1. PICK k \in DOMAIN r : r[k].tx = t
      BY <2>2
    <3>2. Len(ops) + k \in DOMAIN ops' /\ ops'[Len(ops) + k] = r[k]
      BY <2>4
    <3> QED BY <3>1, <3>2
  <2>6. adapter'.active = adapter.active
    BY <2>1
  <2>7. \A t : Owned(t) => Owned(t)'
    BY <2>3, <2>5, <2>6 DEF Owned
  <2> QED BY <2>1, <2>7, LeakSame
<1>2. CASE DisposeRuntime
  <2>1. /\ ~disposed /\ disposed' /\ Enqueue("dispose", None, "close") /\ UNCHANGED <<pool, wire, go>>
        /\ adapter'.active = adapter.active
    BY <1>2 DEF DisposeRuntime, ConfigType
  <2>2. \A k \in DOMAIN ops' : (k \in DOMAIN ops /\ ops'[k] = ops[k]) \/ (ops'[k].op = "dispose" /\ ops'[k].tx = None)
    BY <2>1, EnqueueLeak
  <2>3. \A t : Aimed(t)' => Aimed(t)
    BY <2>1, <2>2 DEF Aimed, Busy
  <2> QED BY <2>1, <2>3, LeakSame
<1> QED BY <1>1, <1>2

\* The same when only the pool changes, in a way that drops what it has no use for.
LEMMA LeakDrops ==
    ASSUME ConfigType, AgreementInv, LeakInv, UNCHANGED <<adapter, ops, disposed>>, \A t : Aimed(t)' => Aimed(t),
           Closed => Closed',
           Sound(pool) => /\ Sound(pool') /\ (Led(pool) => Led(pool')) /\ (Brief(pool) => Brief(pool'))
                          /\ Drops(pool, pool') /\ pool'.rollback = pool.rollback
    PROVE  LeakInv'
<1>1. ASSUME ~disposed', NEW g \in DOMAIN pool'.generations PROVE g \in Kept(pool') \/ Owned(g)'
  <2>1. Drops(pool, pool')
    BY <1>1 DEF AgreementInv
  <2>2. g \in Kept(pool) \/ Owned(g)
    BY <1>1, <2>1 DEF LeakInv, Drops
  <2>3. Owned(g) => Owned(g)'
    BY DEF Owned
  <2> QED BY <2>1, <2>2, <2>3 DEF Drops
<1> QED BY <1>1, LeakFrom

\* Lints and the grace timer.
LEMMA LintLeak ==
    ASSUME ConfigType, AgreementInv, LeakInv, Lint \/ Recheck \/ Hosts
    PROVE  LeakInv'
<1>1. UNCHANGED <<go, adapter, ops, disposed>> /\ \A k \in DOMAIN wire' : \E j \in DOMAIN wire : wire'[k] = wire[j]
  <2>1. CASE Lint
    <3>1. OnRequest("lint") /\ UNCHANGED <<adapter, ops>>
      BY <2>1 DEF Lint
    <3> QED BY <3>1, WireHolds
  <2>2. CASE Recheck \/ Hosts
    BY <2>2 DEF Recheck, Hosts, ReleaseLint, Expire, PoolOnly
  <2> QED BY <2>1, <2>2
<1>2. \A t : Aimed(t)' => Aimed(t)
  BY <1>1 DEF Aimed, Busy
<1>3. CASE pool' = pool
  <2>1. \A t : Owned(t) => Owned(t)'
    BY <1>1 DEF Owned
  <2> QED BY <1>1, <1>2, <1>3, <2>1, LeakSame
<1>4. ASSUME NEW g, LintNow(g), pool' # pool PROVE LeakInv'
  <2>1. Routed(pool, g) /\ ~disposed /\ pool' = Lease(pool, g)
    BY <1>4 DEF LintNow, Servable
  <2>2. ~Closed
    BY <2>1 DEF Closed
  <2>3. ASSUME Sound(pool)
        PROVE  /\ Sound(pool') /\ (Led(pool) => Led(pool')) /\ (Brief(pool) => Brief(pool'))
               /\ Drops(pool, pool') /\ pool'.rollback = pool.rollback
    <3>1. /\ Sound(pool') /\ Keeps(pool, pool', {}, {}) /\ pool'.active = pool.active /\ pool'.rollback = pool.rollback
          /\ (Led(pool) => Led(pool')) /\ pool'.timers = pool.timers
      BY <2>1, <2>3, LeaseSound
    <3> QED BY <3>1 DEF Brief, Drops, Kept, Keeps
  <2> QED BY <1>1, <1>2, <2>2, <2>3, LeakDrops
<1>5. CASE Lint \/ Recheck
  BY <1>3, <1>4, <1>5 DEF Lint, Recheck
<1>6. CASE \E h \in DOMAIN pool.hosts : ReleaseLint(h)
  <2>1. PICK h \in DOMAIN pool.hosts : pool.hosts[h].activeLints > 0 /\ pool' = Release(pool, h)
    BY <1>6 DEF ReleaseLint
  <2>2. Closed => Closed'
    BY <1>1, <2>1, ReleaseEmptied DEF Closed
  <2>3. ASSUME Sound(pool)
        PROVE  /\ Sound(pool') /\ (Led(pool) => Led(pool')) /\ (Brief(pool) => Brief(pool'))
               /\ Drops(pool, pool') /\ pool'.rollback = pool.rollback
    <3>1. /\ Sound(pool') /\ Keeps(pool, pool', {}, {}) /\ pool'.active = pool.active /\ pool'.rollback = pool.rollback
          /\ (Led(pool) => Led(pool')) /\ DOMAIN pool'.timers = DOMAIN pool.timers
      BY <2>1, <2>3, ReleaseSound
    <3> QED BY <3>1 DEF Brief, Drops, Kept, Keeps
  <2> QED BY <1>1, <1>2, <2>2, <2>3, LeakDrops
<1>7. CASE \E g \in 1..MaxTx : Expire(g)
  <2>1. PICK g : g \in DOMAIN pool.timers /\ pool' = CompleteRetirement(pool, g)
    BY <1>7 DEF Expire, Timed
  <2>2. ~Closed
    BY <2>1 DEF Closed, Emptied
  <2>3. ASSUME Sound(pool)
        PROVE  /\ Sound(pool') /\ (Led(pool) => Led(pool')) /\ (Brief(pool) => Brief(pool'))
               /\ Drops(pool, pool') /\ pool'.rollback = pool.rollback
    <3>1. /\ Sound(pool') /\ DOMAIN pool'.generations = DOMAIN pool.generations \ {g}
          /\ DOMAIN pool'.timers = DOMAIN pool.timers \ {g} /\ (Led(pool) => Led(pool'))
          /\ pool'.active = pool.active /\ pool'.rollback = pool.rollback
      BY <2>1, <2>3, CompleteRetirementSound
    <3>2. Brief(pool) => Brief(pool')
      BY <2>3, <3>1, BriefLess DEF Sound
    <3>3. Drops(pool, pool')
      BY <3>1 DEF Drops, Kept
    <3> QED BY <3>1, <3>2, <3>3
  <2> QED BY <1>1, <1>2, <2>2, <2>3, LeakDrops
<1> QED BY <1>5, <1>6, <1>7 DEF Hosts

\* What the chain still holds when an operation has run.
LEMMA SettledLeak ==
    ASSUME ConfigType, NEW op, Settles(op)
    PROVE  /\ 1 \in DOMAIN ops /\ ops[1] = Head(ops) /\ Head(ops).op = op /\ Head(ops) \in Operations
           /\ \A k \in DOMAIN ops' : k + 1 \in DOMAIN ops /\ ops'[k] = ops[k + 1]
           /\ \A k \in DOMAIN ops : ops[k] = Head(ops) \/ \E j \in DOMAIN ops' : ops'[j] = ops[k]
           /\ UNCHANGED <<go, wire, disposed>>
<1>1. ops \in Seq(Operations) /\ ops # <<>> /\ Head(ops).op = op /\ ops' = Tail(ops) /\ UNCHANGED <<go, wire, disposed>>
  BY DEF ConfigType, Settles, ExtensionOnly
<1>2. /\ \A k \in DOMAIN Tail(ops) : k + 1 \in DOMAIN ops /\ Tail(ops)[k] = ops[k + 1]
      /\ \A k \in DOMAIN ops : ops[k] = Head(ops) \/ (k - 1 \in DOMAIN Tail(ops) /\ Tail(ops)[k - 1] = ops[k])
      /\ 1 \in DOMAIN ops /\ ops[1] = Head(ops)
  BY <1>1, ChainHolds
<1>3. ops[1] \in Operations
  BY <1>1, <1>2
<1>4. \A k \in DOMAIN ops : ops[k] = Head(ops) \/ \E j \in DOMAIN ops' : ops'[j] = ops[k]
  <2> SUFFICES ASSUME NEW k \in DOMAIN ops, ops[k] # Head(ops) PROVE \E j \in DOMAIN ops' : ops'[j] = ops[k]
    OBVIOUS
  <2>1. k - 1 \in DOMAIN Tail(ops) /\ Tail(ops)[k - 1] = ops[k]
    BY <1>2
  <2> QED BY <1>1, <2>1
<1> QED BY <1>1, <1>2, <1>3, <1>4

\* An operation of a transaction that stays owned, or is not routed any more.
LEMMA RunOwned ==
    ASSUME ConfigType, NEW op, Settles(op), NEW t, Owned(t), t # Head(ops).tx,
           t \in DOMAIN adapter.active => t \in DOMAIN adapter'.active,
           t \in adapter.transactions => t \in adapter'.transactions
    PROVE  Owned(t)'
<1>1. \A k \in DOMAIN ops : ops[k] = Head(ops) \/ \E j \in DOMAIN ops' : ops'[j] = ops[k]
  BY SettledLeak
<1>2. ASSUME NEW k \in DOMAIN ops, ops[k].tx = t PROVE \E j \in DOMAIN ops' : ops'[j].tx = t
  BY <1>1, <1>2
<1> QED BY <1>2 DEF Owned

\* No abort is added by an operation.
LEMMA RunAimed ==
    ASSUME ConfigType, NEW op, Settles(op), DOMAIN adapter'.active \subseteq DOMAIN adapter.active
    PROVE  \A t : Aimed(t)' => Aimed(t)
<1>1. (\A k \in DOMAIN ops' : k + 1 \in DOMAIN ops /\ ops'[k] = ops[k + 1]) /\ UNCHANGED <<go, wire>>
  BY SettledLeak
<1> QED BY <1>1 DEF Aimed, Busy

\* prepare: the new generation is that of an activation under way.
LEMMA RunPrepareLeak ==
    ASSUME ConfigType, AgreementInv, LeakInv, RunPrepare
    PROVE  LeakInv'
<1> DEFINE tx == Head(ops).tx
<1>0. Settles("prepare")
  BY DEF RunPrepare
<1>1. 1 \in DOMAIN ops /\ ops[1] = Head(ops) /\ ops[1].op = "prepare" /\ ops[1] \in Operations /\ UNCHANGED disposed
  BY <1>0, SettledLeak
<1>2. PICK built \in BOOLEAN : pool' = Install(tx, built)
  BY DEF RunPrepare
<1>3. DOMAIN adapter'.active = DOMAIN adapter.active /\ adapter'.transactions = adapter.transactions
  BY DEF RunPrepare, ConfigType
<1>4. \A t : Aimed(t)' => Aimed(t)
  BY <1>0, <1>3, RunAimed
<1>5. \A t : Owned(t) /\ t # tx => Owned(t)'
  BY <1>0, <1>3, RunOwned
<1>6. CASE disposed
  <2>1. pool' = pool
    BY <1>2, <1>6 DEF Install
  <2> QED BY <1>1, <1>4, <1>6, <2>1, LeakSame
<1>7. CASE ~disposed
  <2>0. Good
    BY <1>7 DEF AgreementInv, Good
  <2>1. ops[1].by = "activate" /\ ops[1].tx = tx /\ tx \in Nat
    BY <1>1, <2>0 DEF Good, OrderInv, Shaped, Shapes, Operations
  <2>2. At(tx, "prepare")
    BY <1>1, <2>0, <2>1 DEF Good, ActivationInv, Mine, StageOf
  <2> HIDE DEF tx
  <2>3. tx \in DOMAIN adapter.active /\ tx # None /\ tx \notin DOMAIN pool.generations /\ tx \notin DOMAIN pool.hosts /\ Sound(pool)
    BY <2>0, <2>1, <2>2 DEF Good, ActivationInv, KnownInv, At, None
  <2>4. Stages(pool, pool', tx, adapter.active[tx].fingerprint)
    BY <1>2, <1>7, <2>1, <2>3, InstallSound
  <2>5. ASSUME NEW g \in DOMAIN pool'.generations PROVE g \in Kept(pool') \/ Owned(g)'
    <3>1. CASE g = tx
      BY <1>3, <2>3, <3>1 DEF Owned
    <3>2. CASE g # tx
      <4>1. g \in DOMAIN pool.generations /\ Kept(pool') = Kept(pool)
        BY <2>4, <3>2 DEF Stages, Keeps, Kept
      <4>2. g \in Kept(pool) \/ Owned(g)
        BY <1>7, <4>1 DEF LeakInv
      <4> QED BY <1>5, <3>2, <4>1, <4>2
    <3> QED BY <3>1, <3>2
  <2>6. Led(pool) /\ Brief(pool) => Sound(pool') /\ Led(pool') /\ Brief(pool')
    BY <2>4 DEF Stages, Brief
  <2>7. ~Closed /\ ~disposed'
    BY <1>1, <1>7 DEF Closed
  <2> QED BY <2>5, <2>6, <2>7, LeakFrom
<1> QED BY <1>6, <1>7

\* commit: the session ends, and its generation is the active one.
LEMMA RunCommitLeak ==
    ASSUME ConfigType, AgreementInv, LeakInv, RunCommit
    PROVE  LeakInv'
<1> DEFINE tx == Head(ops).tx
<1>0. Settles("commit")
  BY DEF RunCommit
<1>1. 1 \in DOMAIN ops /\ ops[1] = Head(ops) /\ ops[1].op = "commit" /\ ops[1] \in Operations /\ UNCHANGED disposed
  BY <1>0, SettledLeak
<1>2. CASE ~disposed /\ Routed(pool, tx)
  <2>0. Good
    BY <1>2 DEF AgreementInv, Good
  <2>1. ops[1].by = "request" /\ ops[1].tx = tx /\ tx \in Nat
    BY <1>1, <2>0 DEF Good, OrderInv, Shaped, Shapes, Operations
  <2>2. ops[1] = Operation("commit", tx, "request")
    BY <1>1, <2>1 DEF Operations, Operation
  <2>3. pool' = Commit(pool, tx) /\ adapter' = Cleaned(tx)
    BY <1>2 DEF RunCommit
  <2> HIDE DEF tx
  <2>4. adapter'.active = adapter.active /\ adapter'.transactions = adapter.transactions \ {tx}
    BY <2>3 DEF Cleaned, ConfigType
  <2>5. Sent("commit", tx)
    BY <1>1, <2>2 DEF Sent, Queued
  <2>6. Sound(pool) /\ pool.active < tx
    BY <2>0, <2>1, <2>5 DEF Good, KnownInv
  <2>7. /\ Sound(pool') /\ pool'.active = tx
        /\ (Led(pool) => Led(pool')) /\ (Brief(pool) => Brief(pool')) /\ Drops(pool, pool')
    BY <1>2, <2>1, <2>3, <2>6, CommitSound
  <2>8. ASSUME NEW g \in DOMAIN pool'.generations PROVE g \in Kept(pool') \/ Owned(g)'
    <3>1. CASE g = tx
      BY <2>7, <3>1 DEF Kept
    <3>2. CASE g # tx
      <4>1. g \in DOMAIN pool.generations /\ (g \in Kept(pool) => g \in Kept(pool'))
        BY <2>7 DEF Drops
      <4>2. g \in Kept(pool) \/ Owned(g)
        BY <1>2, <4>1 DEF LeakInv
      <4>3. Owned(g) => Owned(g)'
        BY <1>0, <2>4, <3>2, RunOwned DEF tx
      <4> QED BY <4>1, <4>2, <4>3
    <3> QED BY <3>1, <3>2
  <2>9. ~Closed /\ ~disposed'
    BY <1>1, <1>2 DEF Closed
  <2> QED BY <2>7, <2>8, <2>9, LeakFrom
<1>3. CASE ~(~disposed /\ Routed(pool, tx))
  <2>1. pool' = pool /\ adapter' = adapter
    BY <1>3 DEF RunCommit
  <2>2. \A t : Aimed(t)' => Aimed(t)
    BY <1>0, <2>1, RunAimed
  <2>3. ASSUME ~disposed', NEW g \in DOMAIN pool'.generations PROVE g \in Kept(pool') \/ Owned(g)'
    <3>1. g # tx /\ ~disposed
      BY <1>1, <1>3, <2>1, <2>3 DEF Routed
    <3>2. g \in Kept(pool) \/ Owned(g)
      BY <2>1, <2>3, <3>1 DEF LeakInv
    <3> QED BY <1>0, <2>1, <3>1, <3>2, RunOwned
  <2>4. Closed => Closed'
    BY <1>1, <2>1 DEF Closed
  <2> QED BY <2>1, <2>2, <2>3, <2>4, LeakFrom
<1> QED BY <1>2, <1>3

\* abort: what it is about is gone, or has stayed active; late ones are as harmless after disposal.
LEMMA RunAbortLeak ==
    ASSUME ConfigType, AgreementInv, LeakInv, RunAbort
    PROVE  LeakInv'
<1> DEFINE tx == Head(ops).tx
<1>0. Settles("abort")
  BY DEF RunAbort
<1>1. 1 \in DOMAIN ops /\ ops[1] = Head(ops) /\ ops[1].op = "abort" /\ UNCHANGED disposed
  BY <1>0, SettledLeak
<1>2. pool' = Abort(pool, tx) /\ ops[1].tx = tx
  BY <1>1 DEF RunAbort
<1>3. /\ DOMAIN adapter'.active \subseteq DOMAIN adapter.active
      /\ \A t : t # tx => /\ t \in DOMAIN adapter.active => t \in DOMAIN adapter'.active
                          /\ t \in adapter.transactions => t \in adapter'.transactions
  <2>1. adapter' \in {adapter, Cleaned(tx), [Cleaned(tx) EXCEPT !.active = Without(@, {tx})]}
    BY DEF RunAbort
  <2>2. Cleaned(tx).active = adapter.active /\ Cleaned(tx).transactions = adapter.transactions \ {tx}
        /\ DOMAIN Cleaned(tx) = {"transactions", "active"}
    BY DEF Cleaned, ConfigType
  <2> DEFINE a == [Cleaned(tx) EXCEPT !.active = Without(@, {tx})]
  <2>3. a.active = Without(adapter.active, {tx}) /\ a.transactions = adapter.transactions \ {tx}
    BY <2>2
  <2>4. DOMAIN Without(adapter.active, {tx}) = DOMAIN adapter.active \ {tx}
    BY DEF Without, Restrict
  <2> HIDE DEF a, tx
  <2>5. adapter' \in {adapter, Cleaned(tx), a}
    BY <2>1 DEF a
  <2>6. CASE adapter' = a
    BY <2>3, <2>4, <2>6
  <2>7. CASE adapter' \in {adapter, Cleaned(tx)}
    BY <2>2, <2>7
  <2> QED BY <2>5, <2>6, <2>7
<1>4. \A t : Aimed(t)' => Aimed(t)
  BY <1>0, <1>3, RunAimed
<1>5. \A t : Owned(t) /\ t # tx => Owned(t)'
  BY <1>0, <1>3, RunOwned
<1> HIDE DEF tx
<1>6. ASSUME Sound(pool), AbortsInv
      PROVE  /\ Sound(pool') /\ (Led(pool) => Led(pool')) /\ (Brief(pool) => Brief(pool')) /\ Drops(pool, pool')
             /\ tx \in DOMAIN pool'.generations => tx = pool'.active
             /\ pool'.rollback.previous \in {pool.rollback.previous, None}
  <2>1. tx # None /\ tx # pool.rollback.previous
    BY <1>1, <1>2, <1>6 DEF AbortsInv, Abortable
  <2>2. /\ Sound(pool') /\ (Led(pool) => Led(pool')) /\ (Brief(pool) => Brief(pool')) /\ Drops(pool, pool')
        /\ tx \in DOMAIN pool'.generations => tx = pool'.active
        /\ tx = pool.active /\ pool.rollback.generation = tx => pool'.rollback = NoRollback
        /\ ~(tx = pool.active /\ pool.rollback.generation = tx) => pool'.rollback = pool.rollback
    BY <1>2, <1>6, <2>1, AbortSound
  <2> QED BY <2>2 DEF NoRollback
<1>7. Closed => Closed'
  BY <1>1, <1>2, AbortEmptied DEF Closed
<1>8. ASSUME ~disposed', NEW g \in DOMAIN pool'.generations PROVE g \in Kept(pool') \/ Owned(g)'
  <2>1. ~disposed /\ Good
    BY <1>1, <1>8 DEF AgreementInv, Good
  <2>2. Sound(pool) /\ AbortsInv
    BY <2>1, AbortsOrdered DEF Good
  <2>3. Drops(pool, pool') /\ (tx \in DOMAIN pool'.generations => tx = pool'.active)
    BY <1>6, <2>2
  <2>4. CASE g = tx
    BY <1>8, <2>3, <2>4 DEF Kept
  <2>5. CASE g # tx
    <3>1. g \in Kept(pool) \/ Owned(g)
      BY <1>8, <2>1, <2>3 DEF LeakInv, Drops
    <3> QED BY <1>5, <1>8, <2>3, <2>5, <3>1 DEF Drops
  <2> QED BY <2>4, <2>5
<1> QED BY <1>4, <1>6, <1>7, <1>8, LeakFrom

\* dispose empties the pool.
LEMMA RunDisposeLeak ==
    ASSUME ConfigType, AgreementInv, LeakInv, RunDispose
    PROVE  LeakInv'
<1>1. Settles("dispose") /\ pool' = Dispose(pool)
  BY DEF RunDispose
<1>2. 1 \in DOMAIN ops /\ ops[1].op = "dispose" /\ UNCHANGED disposed
  BY <1>1, SettledLeak
<1>3. disposed
  BY <1>2 DEF AgreementInv, OrderInv, Shaped, Shapes
<1>4. Emptied(pool')
  <2>1. CASE Closed
    BY <1>1, <2>1, DisposeEmpties DEF Closed
  <2>2. CASE ~Closed
    <3>1. Calm(pool)
      BY <2>2 DEF LeakInv, Sound
    <3> QED BY <1>1, <3>1, DisposeEmpties
  <2> QED BY <2>1, <2>2
<1> QED BY <1>2, <1>3, <1>4 DEF LeakInv, Closed

\* Every step keeps it.
LEMMA LeakStep == ConfigType /\ AgreementInv /\ LeakInv /\ [Next]_vars => LeakInv'
<1> SUFFICES ASSUME ConfigType, AgreementInv, LeakInv, [Next]_vars PROVE LeakInv'
  OBVIOUS
<1>1. CASE UNCHANGED vars
  <2>1. UNCHANGED <<go, wire, adapter, ops, pool, disposed>>
    BY <1>1 DEF vars
  <2>2. (\A t : Owned(t) => Owned(t)') /\ (\A t : Aimed(t)' => Aimed(t))
    BY <2>1 DEF Owned, Aimed, Busy
  <2> QED BY <2>1, <2>2, LeakSame
<1>2. CASE RefreshConfig \/ Refresh \/ CancelRefresh \/ AskLint \/ Crash
  BY <1>2, ServerLeak
<1>3. CASE Restart \/ DisposeRuntime
  BY <1>3, RestartLeak
<1>4. CASE LoadConfigs \/ ActivateConfigs \/ CommitConfigs \/ AbortConfigs
  BY <1>4, HandleLeak
<1>5. CASE Activation
  BY <1>5, ActivationLeak
<1>6. CASE Lint \/ Recheck \/ Hosts
  BY <1>6, LintLeak
<1>7. CASE RunOperation
  BY <1>7, RunPrepareLeak, RunCommitLeak, RunAbortLeak, RunDisposeLeak DEF RunOperation
<1> QED BY <1>1, <1>2, <1>3, <1>4, <1>5, <1>6, <1>7 DEF Next, Extension, HandleRequest

\* It says that nothing leaks.
LEMMA LeakHolds == ConfigType /\ LeakInv => NothingLeaks
<1> SUFFICES ASSUME ConfigType, LeakInv PROVE NothingLeaks
  OBVIOUS
<1>1. ASSUME NEW g \in DOMAIN pool.generations
      PROVE  \/ g \in {pool.active, pool.rollback.previous} \/ Timed(pool, g)
             \/ Open(g) \/ g \in adapter.transactions \/ disposed
  BY <1>1 DEF LeakInv, Kept, Owned, Timed, Open, Pending
<1>2. CASE Closed
  <2>1. \A h \in DOMAIN pool.hosts : pool.hosts[h].shutdown
    BY <1>2 DEF Closed, Emptied
  <2>2. DOMAIN pool.timers = {}
    BY <1>2 DEF Closed, Emptied
  <2>3. Cardinality(DOMAIN pool.timers) <= MaxGrace
    BY <2>2, FS_EmptySet, GraceAssumption
  <2> QED BY <1>1, <2>1, <2>3 DEF NothingLeaks
<1>3. CASE ~Closed
  <2>1. Sound(pool) /\ Led(pool) /\ Brief(pool)
    BY <1>3 DEF LeakInv
  <2>2. \A h \in DOMAIN pool.hosts : Referenced(pool, h) \/ pool.hosts[h].activeLints > 0
    BY <2>1 DEF Led, Wanted
  <2> QED BY <1>1, <2>1, <2>2 DEF NothingLeaks, Brief
<1> QED BY <1>2, <1>3

\* No failed, cancelled or crashed transaction leaves a generation or a host behind, and no
\* number of commits keeps more than MaxGrace superseded generations: for any number of
\* transactions, lints and faults, before, during and after disposal.
THEOREM NothingIsLeaked == Spec => []NothingLeaks
<1>1. Init => AgreementInv
  BY AgreementInit
<1>2. Init => LeakInv
  <2> SUFFICES ASSUME Init PROVE LeakInv
    OBVIOUS
  <2>1. Sound(pool)
    BY AgreementInit DEF AgreementInv, Init
  <2>2. DOMAIN pool.timers = {} /\ DOMAIN pool.hosts = {} /\ DOMAIN pool.generations = {} /\ ~disposed
    BY DEF Init, NewPool
  <2>3. Brief(pool)
    BY <2>2, FS_EmptySet, GraceAssumption DEF Brief
  <2> QED BY <2>1, <2>2, <2>3 DEF LeakInv, Led
<1>3. ConfigType /\ AgreementInv /\ [Next]_vars => AgreementInv'
  BY AgreementStep
<1>4. ConfigType /\ AgreementInv /\ LeakInv /\ [Next]_vars => LeakInv'
  BY LeakStep
<1>5. ConfigType /\ LeakInv => NothingLeaks
  BY LeakHolds
<1> QED BY <1>1, <1>2, <1>3, <1>4, <1>5, TypeCorrect, PTL DEF Spec

=============================================================================
