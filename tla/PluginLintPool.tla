--------------------------- MODULE PluginLintPool ---------------------------
(***************************************************************************)
(* The plugin host generations of the VS Code extension                    *)
(* (PluginLintPool.ts): which generation routes to which host, the active  *)
(* one with the record that can undo its commit, the generations in their  *)
(* grace period, and the leases of running lints.  The pool is a value;    *)
(* ConfigTransaction keeps it and passes it through these operations.      *)
(*                                                                         *)
(* A host is named after the generation that was staged with it.           *)
(***************************************************************************)
EXTENDS Naturals, Sequences, SequencesExt, Functions, FiniteSets

CONSTANT MaxGrace   \* MAX_GRACE_GENERATIONS

ASSUME GraceAssumption == MaxGrace \in Nat

None == 0
NoRollback == [generation |-> None, previous |-> None, state |-> None]

NewPool == [generations |-> <<>>, timers |-> <<>>, active |-> None, activeState |-> None,
            rollback |-> NoRollback, hosts |-> <<>>]

\* hasGenerationReference
Referenced(p, h) == \E g \in DOMAIN p.generations : p.generations[g] = h

Routed(p, g) == g \in DOMAIN p.generations

Without(f, S) == Restrict(f, DOMAIN f \ S)
With(f, x, v) == [y \in DOMAIN f \cup {x} |-> IF y = x THEN v ELSE f[y]]

\* generationRetirementTimers is a Map: timers gives each of its keys the place it was inserted at.
Timed(p, g) == g \in DOMAIN p.timers
Untimed(p, S) == [p EXCEPT !.timers = Without(@, S)]
Oldest(p) == CHOOSE g \in DOMAIN p.timers : \A h \in DOMAIN p.timers : p.timers[g] <= p.timers[h]
Place(p) == 1 + Max({0} \cup Range(p.timers))

\* startShutdown: no generation and no timer leads to the host any more, and liveStates
\* drops it; it is kept here as long as it has leases.
StartShutdown(p, h) ==
    LET named == {g \in DOMAIN p.generations : p.generations[g] = h}
        hosts == IF p.hosts[h].activeLints = 0 THEN Without(p.hosts, {h})
                 ELSE [p.hosts EXCEPT ![h].shutdown = TRUE]
    IN [Untimed(p, named) EXCEPT !.generations = Without(@, named), !.hosts = hosts]

\* Mutant: leases do not keep a host.
RetireNow(p, h) == StartShutdown(p, h)

\* retire: a host with leases shuts down when the last one is released.
Retire(p, h) ==
    LET q == [p EXCEPT !.hosts[h].retiring = TRUE]
    IN IF q.hosts[h].activeLints = 0 THEN StartShutdown(q, h) ELSE q

\* Mutant: the host of another generation, or the active one, is retired with its name.
RetireAlways(p, h) == IF h = None THEN p ELSE Retire(p, h)

RetireIfUnreferenced(p, h) ==
    IF h # None /\ h # p.activeState /\ ~Referenced(p, h) THEN Retire(p, h) ELSE p

Forget(p, g) ==
    LET h == p.generations[g]
    IN RetireIfUnreferenced([p EXCEPT !.generations = Without(@, {g})], h)

\* completeGenerationRetirement: the grace timer, or a full history.
CompleteRetirement(p, g) ==
    LET q == Untimed(p, {g})
    IN IF g = p.active \/ ~Routed(p, g) THEN q ELSE Forget(q, g)

\* scheduleGenerationRetirement: the oldest generation goes at once when there are too many.
ScheduleRetirement(p, g) ==
    LET q == IF Timed(p, g) THEN p ELSE [p EXCEPT !.timers = With(@, g, Place(p))]
    IN IF Cardinality(DOMAIN q.timers) > MaxGrace THEN CompleteRetirement(q, Oldest(q)) ELSE q

FinalizeRollback(p) ==
    LET q == [p EXCEPT !.rollback = NoRollback]
    IN IF p.rollback.previous = None THEN q ELSE ScheduleRetirement(q, p.rollback.previous)

Host(fp, withHost, ready) ==
    [fingerprint |-> fp, host |-> withHost, ready |-> ready, activeLints |-> 0,
     retiring |-> FALSE, shutdown |-> FALSE]

Stage(p, g, host) == [p EXCEPT !.generations = With(@, g, g), !.hosts = With(@, g, host)]

\* prepare: known, shared with the active host, without plugins, built, or failed to build.
Prepare(p, g, fp, plugins, built) ==
    IF Routed(p, g) THEN p
    ELSE IF p.activeState # None /\ p.hosts[p.activeState].ready /\ p.hosts[p.activeState].fingerprint = fp
    THEN [p EXCEPT !.generations = With(@, g, p.activeState)]
    ELSE IF ~plugins THEN Stage(p, g, Host(fp, FALSE, TRUE))
    ELSE Stage(p, g, Host(fp, built, built))

Ready(p, g) == Routed(p, g) /\ p.hosts[p.generations[g]].ready

Commit(p, g) ==
    IF g = p.active \/ ~Routed(p, g) THEN p
    ELSE [Untimed(FinalizeRollback(p), {p.active} \ {None}) EXCEPT
              !.active = g, !.activeState = p.generations[g],
              !.rollback = [generation |-> g, previous |-> p.active, state |-> p.activeState]]

\* Mutant: only a staged generation is discarded, a committed one stays.
AbortStagedOnly(p, g) == IF g # p.active /\ Routed(p, g) THEN Forget(p, g) ELSE p

\* abort: undo the commit of the active generation, or discard a staged one.
Abort(p, g) ==
    IF g = p.active
    THEN IF p.rollback.generation # g THEN p
         ELSE LET q == [Untimed(p, {p.rollback.previous} \ {None}) EXCEPT
                            !.active = p.rollback.previous, !.activeState = p.rollback.state,
                            !.rollback = NoRollback, !.generations = Without(@, {g})]
              IN RetireIfUnreferenced(q, p.activeState)
    ELSE IF Routed(p, g) THEN Forget(p, g) ELSE p

\* lint: the lease is taken before anything is awaited, and released when the host has answered.
Lease(p, g) == [p EXCEPT !.hosts[p.generations[g]].activeLints = @ + 1]

Release(p, h) ==
    LET q == [p EXCEPT !.hosts[h].activeLints = @ - 1]
        host == q.hosts[h]
    IN IF (host.retiring \/ host.shutdown) /\ host.activeLints = 0 THEN StartShutdown(q, h) ELSE q

\* Mutant: a running lint keeps its host over disposal.
DisposeUnleased(p) ==
    [NewPool EXCEPT !.hosts = Without(p.hosts, {h \in DOMAIN p.hosts : p.hosts[h].activeLints = 0})]

\* dispose: every live host is shut down, leased or not.
Dispose(p) ==
    LET leased == {h \in DOMAIN p.hosts : p.hosts[h].activeLints > 0}
    IN [NewPool EXCEPT !.hosts = [h \in leased |-> [p.hosts[h] EXCEPT !.shutdown = TRUE]]]
=============================================================================
