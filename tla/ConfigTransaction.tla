-------------------------- MODULE ConfigTransaction --------------------------
(***************************************************************************)
(* The config transactions between the language server                     *)
(* (internal/lsp/config_discovery.go) and the VS Code extension            *)
(* (ConfigTransactionAdapter.ts, config-module-host.ts, PluginLintPool.ts):*)
(* load, activate, then commit or abort, each a reverse request of the     *)
(* server; the two control requests give up after a timeout, the server    *)
(* may crash and be restarted, and the extension may be disposed.          *)
(*                                                                         *)
(* A config is the fingerprint of the plugins it mounts; Plain mounts none *)
(* and needs no host.                                                      *)
(***************************************************************************)
EXTENDS PluginLintPool

CONSTANTS
    Fingerprints,   \* plugin sets the user's configs may mount
    Plain,          \* the fingerprint of configs without plugins
    MaxTx,          \* bound: transactions
    MaxLints,       \* bound: plugin lints asked for
    MaxFaults       \* bound: crashes, cancelled refreshes and control timeouts together

ASSUME BoundsAssumption ==
    /\ {MaxTx, MaxLints, MaxFaults} \subseteq Nat
    /\ Plain \notin Fingerprints

VARIABLES
    go,        \* the server: its refresh, and the catalog it has committed
    lastTx, lints, faults,
    wire,      \* server -> extension, in order
    reply,     \* the answer the server is waiting for, on its way
    adapter,   \* transactions with a session, and the activations under way
    ops,       \* opChain: the pool's serialized operations
    pool,
    waiting,   \* lints of a generation that is not installed, and the operations they wait for
    disposed

vars == <<go, lastTx, lints, faults, wire, reply, adapter, ops, pool, waiting, disposed>>

NoCatalog == [tx |-> None, fingerprint |-> Plain, plugins |-> FALSE, usable |-> FALSE]
NewServer == [up |-> TRUE, pc |-> "idle", next |-> NoCatalog, committed |-> NoCatalog, generations |-> {}]
NoReply == [op |-> "none", ok |-> FALSE, ready |-> FALSE]

Init ==
    /\ go = NewServer /\ lastTx = None /\ lints = 0 /\ faults = 0
    /\ wire = <<>> /\ reply = NoReply
    /\ adapter = [transactions |-> {}, active |-> <<>>]
    /\ ops = <<>> /\ pool = NewPool /\ waiting = {} /\ disposed = FALSE

-----------------------------------------------------------------------------
(* The server: refreshConfig on the dispatch loop.                          *)

Request(op, catalog) == [op |-> op, tx |-> catalog.tx, fingerprint |-> catalog.fingerprint]

\* sendRequest
Ask(op, catalog) ==
    /\ wire' = Append(wire, Request(op, catalog))
    /\ reply' = NoReply

ServerOnly == UNCHANGED <<adapter, ops, pool, waiting, disposed>>

Fault == faults < MaxFaults /\ faults' = faults + 1

Idle == [go EXCEPT !.pc = "idle", !.next = NoCatalog]

\* abortFailedConfigRefresh
AbortFailedRefresh == Ask("abort", go.next) /\ go' = [go EXCEPT !.pc = "abort"]

\* resetForServerRestart is awaited before the first refresh of a new server.
ResetDone == \A k \in DOMAIN ops : ops[k].by # "reset"

\* One load stands for the frontiers of discovery.
RefreshConfig ==
    /\ go.up /\ go.pc = "idle" /\ lastTx < MaxTx /\ ResetDone /\ ~disposed
    /\ LET next == [NoCatalog EXCEPT !.tx = lastTx + 1]
       IN /\ go' = [go EXCEPT !.pc = "load", !.next = next]
          /\ Ask("load", next)
    /\ lastTx' = lastTx + 1
    /\ UNCHANGED <<lints, faults>> /\ ServerOnly

\* Discovery and the prepared snapshot: a usable catalog, one without usable configs (the
\* workspace has none, or all failed and there is no last-good to keep), or a failure.
OnLoaded ==
    /\ go.pc = "load" /\ reply.op = "load"
    /\ \/ /\ reply.ok
          /\ \E fp \in Fingerprints \cup {Plain}, usable \in BOOLEAN :
                LET next == [go.next EXCEPT !.fingerprint = fp, !.usable = usable]
                IN /\ usable \/ fp = Plain
                   /\ go' = [go EXCEPT !.pc = "activate", !.next = next]
                   /\ Ask("activate", next)
       \/ AbortFailedRefresh
    /\ UNCHANGED <<lastTx, lints, faults>> /\ ServerOnly

\* Without a plugin host the catalog is committed bare, unless a last-good one exists.
Accepted == reply.ok /\ (reply.ready \/ ~go.committed.usable)

OnActivated ==
    /\ go.pc = "activate" /\ reply.op = "activate"
    /\ \/ /\ Accepted
          /\ go' = [go EXCEPT !.pc = "commit",
                              !.next.plugins = reply.ready /\ go.next.fingerprint # Plain]
          /\ Ask("commit", go.next)
       \/ AbortFailedRefresh
    /\ UNCHANGED <<lastTx, lints, faults>> /\ ServerOnly

\* The refresh is cancelled: honoured until the commit begins.
CancelRefresh ==
    /\ go.pc \in {"load", "activate"} /\ Fault
    /\ AbortFailedRefresh
    /\ UNCHANGED <<lastTx, lints>> /\ ServerOnly

\* commitDiscoveredConfigSnapshot
CommitSnapshot ==
    [Idle EXCEPT !.committed = go.next, !.generations = IF go.next.plugins THEN @ \cup {go.next.tx} ELSE @]

OnCommitted ==
    /\ go.pc = "commit" /\ reply.op = "commit"
    /\ \/ reply.ok /\ go' = CommitSnapshot /\ reply' = NoReply /\ UNCHANGED wire
       \/ ~reply.ok /\ AbortFailedRefresh
    /\ UNCHANGED <<lastTx, lints, faults>> /\ ServerOnly

OnAborted ==
    /\ go.pc = "abort" /\ reply.op = "abort"
    /\ go' = Idle /\ reply' = NoReply
    /\ UNCHANGED <<lastTx, lints, faults, wire>> /\ ServerOnly

\* configTransactionControlTimeout: the answer may still be on its way.
ControlTimeout ==
    /\ Fault
    /\ \/ go.pc = "commit" /\ AbortFailedRefresh
       \/ /\ go.pc = "abort"
          /\ go' = Idle /\ reply' = NoReply /\ UNCHANGED wire
    /\ UNCHANGED <<lastTx, lints>> /\ ServerOnly

\* A dispatch captured the generation when it started; a newer one may be committed by now.
AskLint ==
    /\ go.up /\ lints < MaxLints
    /\ \E g \in go.generations :
          wire' = Append(wire, [op |-> "lint", tx |-> g, fingerprint |-> Plain])
    /\ lints' = lints + 1
    /\ UNCHANGED <<go, lastTx, faults, reply>> /\ ServerOnly

\* What was in the pipe may still be read.
Crash ==
    /\ go.up /\ Fault
    /\ go' = [NewServer EXCEPT !.up = FALSE]
    /\ \E k \in 0..Len(wire) : wire' = SubSeq(wire, 1, k)
    /\ reply' = NoReply
    /\ UNCHANGED <<lastTx, lints, adapter, ops, pool, waiting, disposed>>

Refresh == OnLoaded \/ OnActivated \/ OnCommitted \/ OnAborted \/ ControlTimeout

-----------------------------------------------------------------------------
(* The extension's handlers: requests in the order they were sent.          *)

\* An answer nobody waits for is dropped by the server's read loop.
Reply(op, tx, ok, ready) ==
    reply' = IF go.up /\ go.pc = op /\ go.next.tx = tx THEN [op |-> op, ok |-> ok, ready |-> ready] ELSE reply

\* Mutant: a failed activation is undone and never answered.
UndoneSilently(tx) == UNCHANGED reply

Undone(tx) == Reply("activate", tx, FALSE, FALSE)

Cleaned(tx) == [adapter EXCEPT !.transactions = @ \ {tx}]
Operation(op, tx, by) == [op |-> op, tx |-> tx, by |-> by]
Enqueue(op, tx, by) == ops' = Append(ops, Operation(op, tx, by))
At(tx, stage) == tx \in DOMAIN adapter.active /\ adapter.active[tx].stage = stage
Staged(tx, stage) == [adapter EXCEPT !.active[tx].stage = stage]

OnRequest(op) ==
    /\ wire # <<>> /\ Head(wire).op = op
    /\ wire' = Tail(wire)
    /\ UNCHANGED <<go, lastTx, lints, faults, disposed>>

\* The load fails when disposed, or when a module of the batch cannot be handled.
LoadConfigs ==
    /\ OnRequest("load")
    /\ \E ok \in {TRUE, FALSE} :
          /\ ok => ~disposed
          /\ adapter' = IF ok THEN [adapter EXCEPT !.transactions = @ \cup {Head(wire).tx}] ELSE adapter
          /\ Reply("load", Head(wire).tx, ok, FALSE)
    /\ UNCHANGED <<ops, pool, waiting>>

\* The session is looked up at once; without one the activation is undone.
ActivateConfigs ==
    /\ OnRequest("activate")
    /\ LET tx == Head(wire).tx
           fresh == [stage |-> IF tx \in adapter.transactions THEN "summarize" ELSE "undo",
                     fingerprint |-> Head(wire).fingerprint, ready |-> FALSE]
       IN IF disposed
          THEN Reply("activate", tx, FALSE, FALSE) /\ UNCHANGED <<adapter, ops>>
          ELSE /\ adapter' = [adapter EXCEPT !.active = With(@, tx, fresh)]
               /\ IF fresh.stage = "undo" THEN Enqueue("abort", tx, "undo") ELSE UNCHANGED ops
               /\ UNCHANGED reply
    /\ UNCHANGED <<pool, waiting>>

CommitConfigs ==
    /\ OnRequest("commit")
    /\ IF disposed
       THEN Reply("commit", Head(wire).tx, FALSE, FALSE) /\ UNCHANGED ops
       ELSE Enqueue("commit", Head(wire).tx, "request") /\ UNCHANGED reply
    /\ UNCHANGED <<adapter, pool, waiting>>

AbortConfigs ==
    /\ OnRequest("abort")
    /\ Enqueue("abort", Head(wire).tx, "request")
    /\ UNCHANGED <<reply, adapter, pool, waiting>>

\* lint: refused by a generation without a host; one that is not installed is looked up again
\* once the operations queued so far are over (waitForLifecycle).
Servable(g) == Routed(pool, g) /\ pool.generations[g] \in DOMAIN pool.hosts /\ pool.hosts[pool.generations[g]].host
LintNow(g) == pool' = IF Servable(g) /\ ~disposed THEN Lease(pool, g) ELSE pool

Lint ==
    /\ OnRequest("lint")
    /\ LET g == Head(wire).tx
       IN IF Routed(pool, g) \/ disposed
          THEN LintNow(g) /\ UNCHANGED waiting
          ELSE waiting' = waiting \cup {[generation |-> g, behind |-> Len(ops)]} /\ UNCHANGED pool
    /\ UNCHANGED <<reply, adapter, ops>>

\* The second look, or the request is cancelled while it waits.
Recheck ==
    /\ \E w \in waiting :
          /\ waiting' = waiting \ {w}
          /\ \/ w.behind = 0 /\ LintNow(w.generation)
             \/ UNCHANGED pool
    /\ UNCHANGED <<go, lastTx, lints, faults, wire, reply, adapter, ops, disposed>>

HandleRequest == LoadConfigs \/ ActivateConfigs \/ CommitConfigs \/ AbortConfigs \/ Lint

-----------------------------------------------------------------------------
(* The extension's activations, and the chain of pool operations.           *)

ExtensionOnly == UNCHANGED <<go, lastTx, lints, faults, wire, disposed>>

\* The sources are fingerprinted again; a change, or a cancelled request, undoes the activation.
Summarize(tx) ==
    /\ At(tx, "summarize")
    /\ \/ ~disposed /\ adapter' = Staged(tx, "prepare") /\ Enqueue("prepare", tx, "activate")
       \/ adapter' = Staged(tx, "undo") /\ Enqueue("abort", tx, "undo")
    /\ ExtensionOnly /\ UNCHANGED <<reply, pool, waiting>>

\* Mutant: the session is not looked up again after the prepare.
StillOpenUnchecked(tx) == ~disposed

StillOpen(tx) == ~disposed /\ tx \in adapter.transactions

Verify(tx) ==
    /\ At(tx, "verify")
    /\ \/ /\ StillOpen(tx)
          /\ adapter' = [adapter EXCEPT !.active = Without(@, {tx})]
          /\ Reply("activate", tx, TRUE, adapter.active[tx].ready)
          /\ UNCHANGED ops
       \/ /\ adapter' = Staged(tx, "undo") /\ Enqueue("abort", tx, "undo")
          /\ UNCHANGED reply
    /\ ExtensionOnly /\ UNCHANGED <<pool, waiting>>

\* The next operation of the chain settles; what waits for it comes closer.
Settles(op) ==
    /\ ops # <<>> /\ Head(ops).op = op
    /\ ops' = Tail(ops)
    /\ waiting' = {[w EXCEPT !.behind = IF @ = 0 THEN 0 ELSE @ - 1] : w \in waiting}
    /\ ExtensionOnly

Install(tx, built) ==
    IF disposed THEN pool
    ELSE Prepare(pool, tx, adapter.active[tx].fingerprint, adapter.active[tx].fingerprint # Plain, built)

RunPrepare ==
    /\ Settles("prepare")
    /\ LET tx == Head(ops).tx IN
       \E built \in BOOLEAN :
          /\ pool' = Install(tx, built)
          /\ adapter' = [adapter EXCEPT !.active[tx].stage = "verify",
                                        !.active[tx].ready = ~disposed /\ Ready(pool', tx)]
    /\ UNCHANGED reply

RunCommit ==
    /\ Settles("commit")
    /\ LET tx == Head(ops).tx
           committed == ~disposed /\ Routed(pool, tx)
       IN /\ pool' = IF committed THEN Commit(pool, tx) ELSE pool
          /\ adapter' = IF committed THEN Cleaned(tx) ELSE adapter
          /\ Reply("commit", tx, committed, FALSE)

\* abortConfigs, the undo of a failed activation, or an orphan of the previous server.
RunAbort ==
    /\ Settles("abort")
    /\ LET tx == Head(ops).tx
           by == Head(ops).by
       IN /\ pool' = Abort(pool, tx)
          /\ \/ by = "request" /\ adapter' = Cleaned(tx) /\ Reply("abort", tx, TRUE, FALSE)
             \/ /\ by = "undo"
                /\ adapter' = [Cleaned(tx) EXCEPT !.active = Without(@, {tx})]
                /\ Undone(tx)
             \/ by = "reset" /\ UNCHANGED <<adapter, reply>>

RunDispose ==
    /\ Settles("dispose")
    /\ pool' = Dispose(pool)
    /\ UNCHANGED <<adapter, reply>>

RunOperation == RunPrepare \/ RunCommit \/ RunAbort \/ RunDispose

PoolOnly == UNCHANGED <<go, lastTx, lints, faults, wire, reply, adapter, ops, waiting, disposed>>

\* host.lint has answered.
ReleaseLint(h) ==
    /\ pool.hosts[h].activeLints > 0
    /\ pool' = Release(pool, h) /\ PoolOnly

\* The grace timer.
Expire(g) ==
    /\ Timed(pool, g)
    /\ pool' = CompleteRetirement(pool, g) /\ PoolOnly

Orphans == adapter.transactions

\* resetForServerRestart, then the refresh of the new server.
Restart ==
    /\ ~go.up /\ wire = <<>> /\ ~disposed
    /\ go' = NewServer
    /\ adapter' = [adapter EXCEPT !.transactions = {}]
    /\ ops' = ops \o [k \in 1..Cardinality(Orphans) |-> Operation("abort", SetToSeq(Orphans)[k], "reset")]
    /\ UNCHANGED <<lastTx, lints, faults, wire, reply, pool, waiting, disposed>>

\* closeImpl: the adapter and the pool are disposed at any time.
DisposeRuntime ==
    /\ ~disposed /\ disposed' = TRUE
    /\ adapter' = [adapter EXCEPT !.transactions = {}]
    /\ Enqueue("dispose", None, "close")
    /\ UNCHANGED <<go, lastTx, lints, faults, wire, reply, pool, waiting>>

Activation == \E tx \in 1..MaxTx : Summarize(tx) \/ Verify(tx)

Extension == HandleRequest \/ Activation \/ RunOperation \/ Recheck

Hosts ==
    \/ \E h \in DOMAIN pool.hosts : ReleaseLint(h)
    \/ \E g \in 1..MaxTx : Expire(g)

Next ==
    \/ RefreshConfig \/ Refresh \/ CancelRefresh \/ AskLint \/ Crash \/ Restart
    \/ Extension \/ Hosts \/ DisposeRuntime

Spec == Init /\ [][Next]_vars

-----------------------------------------------------------------------------
Pending(tx) ==
    \/ \E k \in DOMAIN wire : wire[k].tx = tx /\ wire[k].op # "lint"
    \/ \E k \in DOMAIN ops : ops[k].tx = tx
    \/ tx \in DOMAIN adapter.active

Open(tx) == Pending(tx) \/ (go.pc # "idle" /\ go.next.tx = tx)

\* The catalog the server has committed with plugins is served: its generation leads to a
\* host of exactly its plugins that is not shut down, whatever commits were lost, aborted
\* late or overtaken by the next transaction (architecture.md: Go's last-good catalog and the
\* host generation are committed together).
CommittedIsRoutable ==
    go.committed.plugins /\ ~disposed =>
        /\ Servable(go.committed.tx)
        /\ LET host == pool.hosts[pool.generations[go.committed.tx]]
           IN ~host.shutdown /\ ~host.retiring /\ host.fingerprint = go.committed.fingerprint

\* Server and extension agree on the committed generation once nothing of a transaction is
\* under way: a commit whose answer was lost has been undone by its abort.
Agreement ==
    go.committed.tx # None /\ ~disposed /\ ~Open(pool.active) /\ ~Open(go.committed.tx)
        => pool.active = go.committed.tx

\* No generation and no host is left behind by a failed, cancelled or crashed transaction:
\* what is routed is active, can be rolled back to, is in its grace period or belongs to a
\* transaction still under way, and a live host is routed or finishing its lints. However many
\* commits follow one another, no more than MaxGrace superseded generations are kept.
NothingLeaks ==
    /\ \A g \in DOMAIN pool.generations :
          \/ g \in {pool.active, pool.rollback.previous} \/ Timed(pool, g)
          \/ Open(g) \/ g \in adapter.transactions \/ disposed
    /\ \A h \in DOMAIN pool.hosts :
          pool.hosts[h].shutdown \/ Referenced(pool, h) \/ pool.hosts[h].activeLints > 0
    /\ Cardinality(DOMAIN pool.timers) <= MaxGrace

\* A host is shut down under a running lint only by disposal.
LeasesHold == \A h \in DOMAIN pool.hosts :
    pool.hosts[h].shutdown /\ pool.hosts[h].activeLints > 0 => disposed

\* After disposal no host runs and none is started by what was still under way.
NothingSurvivesDispose ==
    disposed /\ (\A k \in DOMAIN ops : ops[k].op # "dispose")
        => pool.generations = <<>> /\ \A h \in DOMAIN pool.hosts : pool.hosts[h].shutdown

\* Nobody waits for everybody: when no step of the server's refresh, of the extension or of
\* a host is left to take, the refresh has ended, with its answer or without, no lint waits
\* and the only hosts alive are the active one and the one a rollback would restore.
Superseded(h) == h \notin {pool.activeState, pool.rollback.state}

NothingStalls ==
    ENABLED (Refresh \/ Extension \/ Hosts \/ Restart)
        \/ (go.pc = "idle" /\ \A h \in DOMAIN pool.hosts : ~Superseded(h))
=============================================================================
