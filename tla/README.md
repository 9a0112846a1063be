# rslint in TLA+

rslint is a TypeScript/JavaScript linter: a Go program that parses, type-checks and
lints with native rules, and a Node program that starts it, loads JavaScript
configuration files, and runs the rules of ESLint plugins in worker threads. The two
processes talk over framed JSON on pipes (command line, JavaScript API) or over LSP
(editor). This directory holds TLA+ models of the parts in which several actors
interleave or fail, TLC configurations that check them on small instances, and proofs
for TLAPS.

    tlc -workers 2 -config IpcChannel_wire.cfg MCIpcChannel
    tlapm IpcChannelProofs.tla

Paths below are relative to the repository root. `PROJECT.json` lists, for every
definition that models code, the lines it models.

## 1. Inventory

### Modelled

| component | code | state it keeps | operations | hard behaviour |
|---|---|---|---|---|
| IPC channel | `internal/ipc/channel.go`, `frame.go` | pending table, ids, close and seal flags, write lock, response slots, receipts | SendRequest, SendNotification, handler replies (plain, tracked, terminal), read loop, Close | writers queued behind a fault or a terminal reply; late and repeated answers; close racing everything |
| Lint pipeline | `internal/linter/pipeline*.go`, `cmd/rslint/lint_commit.go`, `lint_generation.go` | generation lease, plugin goroutine, in-memory fix state, observations, commit result | acquire, load, native run, plugin run (shared, detached, progressive), fix rounds, verification, commit | files edited on disk meanwhile, and edited back; cancellation; partial writes; fixes that undo one another |
| Source code fixer | `internal/linter/source_code_fixer.go` | builder, last end, applied set | ApplyRuleFixes | touching, nested and inserting fixes; byte order mark at offset -1 |
| Worker pool | `packages/rslint/src/eslint-plugin/worker-pool.ts`, `lint-worker.ts`, `host.ts` | slots, queue, in-flight tasks, timers, respawns | init, lintBatch, cancelTask, shutdown, message/exit/timer callbacks | timers racing answers; crash during start-up; respawn racing shutdown; degraded pool |
| Cancel flags | `packages/rslint/src/eslint-plugin/cancel-flag.ts` | free stack, in-use map, shared flags | acquire, grow, release, cancel | slots recycled under a worker that still polls; capacity exhausted |
| LSP loops (partly) | `internal/lsp/server.go` | request, outgoing and result queues, pending reverse requests | read, dispatch and write loop, sendRequest, its cancellation and deadline | loops that wait for each other through bounded queues |
| LSP diagnostics | `internal/lsp/document_sync.go`, `diagnostics.go`, `eslint_plugin.go`, `code_action.go` | documents, generations, stored diagnostics, debounce timer, plugin goroutine of each document | didOpen, didChange, didSave, didClose, watched files, refresh, fix-all, merge of plugin results | results for a text, a view or a document that is gone; four paths that take a document off the pending set |
| Config transactions | `internal/lsp/config_discovery.go`, `vscode-extension/src/ConfigTransactionAdapter.ts`, the session part of `config-module-host.ts` | staged and committed catalog in Go, sessions and activations in the extension | load, activate, commit, abort, server restart, disposal | two sides that commit one after the other, with lost answers, cancelled refreshes and crashes |
| Plugin generations | `vscode-extension/src/PluginLintPool.ts` | generations, hosts shared by fingerprint, leases, grace timers, rollback | prepare, commit, abort, lint, retire, dispose | hosts shared by generations that end at different times |
| CLI session | `cmd/rslint/ipc_cli.go`, `packages/rslint/src/cli/engine.ts` | init reply, lint context and signal mark, redirected stdout, activation, plugin host, stdout barrier | handshake, discovery, activation, start acknowledgement, output, shutdown, signals, kill timer, finally | output merged from two processes; a signal or a crash at any point |

### How they interact

`engine.ts` spawns `rslint` and both sides run an IPC channel over its pipes. Go's
`runCLI` answers `init`, asks Node to load and activate configs, then runs
`RunPipeline`. The pipeline's native half runs rules in Go; its plugin half sends a
request over the channel (or an LSP reverse request), which the plugin host turns into
a `lintBatch` on the worker pool. Results return the same way; fixes are applied with
`ApplyRuleFixes`, and for `--fix` the committer writes the files. The API server and the
language server drive the same pipeline with other requests. In the editor the language
server discovers configs and asks the extension, in a transaction, to load them and to
prepare the plugin host they need; a plugin lint then names the generation it is for.

The modules meet at these seams. `CliSession` uses a request of `IpcChannel` as
something that is answered, cancelled or ended by the channel (`RequestReturns`); it and
`ConfigTransaction` use a plugin host as something that answers and whose start and
shutdown end (`EveryTaskSettles`, `CallsReturn`); `LspDiagnostics` uses a lint as one
step with a plugin half that returns once cancelled (`StopsWhenAsked`), and a config
transaction as a reverse request after which the view may be another one.

### Not modelled

| component | state | properties worth stating |
|---|---|---|
| Node IPC client (`packages/rslint/src/ipc/client.ts`) | chunk queue, pending table | reassembly equals the frames sent for every chunking; nothing is dispatched after close. `CliSession` models its requests and its close, not its buffer |
| Lint program store (`internal/lsp/lint_program_store.go`) | resident programs, dirty files | a lint never sees a text older than the document |
| VS Code ownership (`LanguageServerProcessOwner.ts`, `RuntimeManager.ts`) | child processes, runtimes by key | at most one live server per runtime; close reaps every child |
| JavaScript API, API server | requests, service lifetime | the API's pipeline requests are products of `LintPipeline`; the service around them is not modelled |
| LSP start and shutdown (`server.go`) | initialize state, context | Run returns when the pipe fails (listed as a hazard) |
| Disable directives, ignore matching, config resolution, discovery, target planning | none across calls | equality with a reference definition |

Left out for good: the several hundred rules and plugin ports, the output formats, the
inspector, the WASM and native bindings, the compiler shims, the tools and the website.
They are pure functions of one file or thin glue, each needs its own reference
definition, and TLC would add nothing to their table tests. They are also nearly all of
the repository: of some 322,000 implementation lines, the concurrent core that a state
machine can say something about is a few thousand, which is why the lines named in
`map` are a small share of the total. Program construction belongs to the TypeScript
compiler.

## 2. Modules

`SealedLog` - what a framed stream promises its reader: append only, nothing after an
entry that ends it, nothing after the seal.

`IpcChannel` - one thread per SendRequest, SendNotification and inbound handler, the
read loop, and the owner of Close. A critical section of `c.mu` is one step, a frame
write under `c.writeMu` is three: admission, bytes, release. The peer sends answers,
requests and garbage in any order and may close at any time; a write may fault after
part of a frame. `WireIsSealedLog` maps `wire` and the seal to `SealedLog`; the seal
takes effect when no writer admitted before it still holds the lock.

`LintPipeline` - one `RunPipeline` call. A file has one of the texts of the constant
`WellFormed`, which fixes and other people's saves choose freely, or the partial one of a
failed write; `fix.base` is history, the text that a file's fixes go back to. The byte order mark is no part of a
text, as in the fixes, whose offsets count the body. Port contract violations are one
nondeterministic failure. `MCLintPipeline` defines the requests the products make:
`rslint --fix`, `rslint`, the API's fix, LSP fix-all and LSP diagnostics; and `BareFix`,
a command without a file system, which only tests make and in which the plugin host
reads the first generation from disk by itself (`HostReads`).

`SourceCodeFixer` - `ApplyRuleFixes` as one step per diagnostic, next to a definition of
applying edits at once. Texts are sequences of opaque characters; offset -1 is the byte
order mark.

`CancelFlagPool` - the flag pool as a value with its operations; `WorkerPool` carries it.

`WorkerPool` - the host's event loop and its worker threads. The pool's fields are one
record, `main`; the synchronous helpers of the class (`kickQueue`,
`drainQueueIfAllSlotsDegraded`, `dispatchToWorker`, ...) are functions on it, so that an
action is a whole callback. `main.kick` is the microtask queued by a failed post: while
it waits, no other callback runs. A thread loads, posts `ready` or `init-error`, takes
messages, polls its task's flag, answers, hangs, or stops at any point; its stop is seen
later as an exit event, after the messages it had posted. `terminate()` only announces
the stop: until it takes effect the thread may still post and poll. Each thread has a
role that says whose listeners are attached. Two roles are easy to miss in the code:
*unlisted*, a thread whose `ready` came after its start-up timer had given up, and
*stray*, the respawn that such a thread's exit causes.

Environment of the pool, from `host.ts`: nothing is called before `init()` has resolved,
so `shutdown()` never overlaps `init()` and the `closed` test after a spawn in `init()`
is not reached. `error` events precede the exit of the same thread and are part of it.

`LspDiagnostics` - the server's three loops, its plugin goroutines and the editor. A
handler of the dispatch loop is atomic up to the points where the loop can block: `work`
is what it has still to do, such as a send to a full queue, and `awaiting` the reverse
request it waits for. `calls` are the `sendRequest`s under way with the goroutine that
makes each; the deadline and the cancellation of its context are one condition
(`ContextDone`). The editor behaves as the protocol allows: it changes only open
documents, and with `SaveFollowsFixAll` it asks for fix-all only while saving, which is
what `code_action.go` relies on.

`PluginLintPool` - the extension's pool of plugin hosts as a value with its operations:
generations, the hosts they share by fingerprint, leases, retirement and rollback.

`ConfigTransaction` - the server's `refreshConfig`, the ordered wire to the extension,
the adapter with its sessions and activations, and the pool's operation chain, which
carries a `PluginLintPool`. A config is the fingerprint of the plugins it mounts. One
load stands for the several requests of a discovery. A control request may time out and a
refresh be cancelled while its request is under way; the server may crash at any point
and is started again once the old pipe is drained; the window may be closed at any time.
Transaction ids are not reused by a restarted server, as the catalog's instance prefix
ensures.

`CliSession` - one run of the command: Go's main goroutine, its redirected stdout and
drain, Node's `runEngine`, the activation with its two config checks, the plugin host,
the stdout barrier, the two processes' signals and the child's exit. The user may
interrupt both (terminal) or the parent only (`kill`); a crash of either side and a
broken stdout are faults. Exit codes 0 and 1 are both "a lint result". A signal that
arrives after Go has removed its handler and before it exits is outside the model.

## 3. Runs

| run | configuration | shows |
|---|---|---|
| `ipc_wire` | `IpcChannel_wire.cfg` | one request, notification and inbound request against faults, peer EOF and Close: framing (`WireStaysFramed`), truthful outcomes (`OutcomeMatchesWire`), refinement of `SealedLog` (`WireIsSealedLog`), every request returns (`RequestReturns`), every tracked reply settles (`InboundSettles`) |
| `ipc_routing` | `IpcChannel_routing.cfg` | two requests and three answers, late, duplicated, orphaned: answers reach their caller and dispatch finds the slot free (`AnswersReachTheirCaller`) |
| `pipeline` | `LintPipeline.cfg` | five products and `BareFix`, two files, three rounds: source leases (`LeaseDiscipline`), verification (`VerifiedObservesChanges`), what fixes are based on (`FixesBuildOnBefore`), what a write replaces (`EarlierEditsSurvive`), what is reported (`CommitReported`), and that a cancelled or failed run returns although the plugin host hangs (`StopsWhenAsked`) |
| `pipeline_sources` | `LintPipeline_sources.cfg` | `VerifiedObservesSources` is violated, see Findings |
| `fixer` | `SourceCodeFixer.cfg` | all sorted lists of up to three diagnostics: equality with simultaneous edits (`AppliesAtOnce`), and exactly the clashing ones wait for a later round (`ExactlyClashesWait`) |
| `pool_crew` | `WorkerPool_crew.cfg` | two workers and two tasks: no task lost (`TasksHeldOnce`), stranded (`BacklogIsAttended`) or cancelled by mistake (`CancelledOnlyIfAsked`), timers honest (`TimerMeasuresItsTask`), `DegradedOnlyWhenDead`, `NothingOutlivesThePool` |
| `pool_queue` | `WorkerPool_queue.cfg` | one worker, three tasks, one not cloneable, two cancel slots: slot accounting (`CancelSlotsAccounted`), every task answered (`EveryTaskSettles`), init and shutdown return (`CallsReturn`) |
| `pool_respawn_cap` | `WorkerPool_cap.cfg` | `RespawnsCapped` is violated, see Findings |
| `lsp_diagnostics` | `LspDiagnostics.cfg` | stored diagnostics are of the document's text and view (`StoredIsCurrent`), the editor shows what is stored once the queue is empty (`EditorMirrorsStore`), the last text is linted and shown in the end (`EditsAreShown`), the dispatch loop always comes back (`LoopReturns`) and no reverse request stays open (`CallsEnd`) |
| `lsp_fixall` | `LspDiagnostics_fixall.cfg` | `EditsAreShown` is violated when fix-all is not followed by a save, see Findings |
| `config_transactions` | `ConfigTransaction.cfg` | the host of the server's committed catalog can be reached (`CommittedIsRoutable`), both sides agree once a transaction is over (`Agreement`), no generation or host is left behind (`NothingLeaks`), shut down under a lint (`LeasesHold`) or alive after disposal (`NothingSurvivesDispose`), and nobody waits for ever (`NothingStalls`) |
| `cli_session` | `CliSession.cfg` | start line, report and timing table appear in order, and all of the report is there when the timing table is printed (`OutputInOrder`), rules run only under a twice-checked config (`ExecutionIsValidated`), plugin hosts are shut down once and awaited (`HostsAreReaped`), an interrupted run is not a lint result (`InterruptIsReported`), and the session ends (`SessionEnds`) |

Each property is paired in `PROJECT.json` with a mutant, a plausible bug written next to
the definition it replaces, under which TLC violates the property. The type invariant of
`IpcChannel` is among the properties of its run; the other modules state theirs, where
the proofs need one, in the `...Proofs` module.

### Bounds and why they are enough

The theorems of section 4 hold for every value of the constants, so for the properties
they state the bounds only matter to the mutants. What rests on the bounds alone is
liveness, `NothingStalls` and the fixer. The choices:

* IPC: three writers of the three kinds cover every pair that can meet at the write
  lock, where one holder and one waiter decide the outcome; id confusion needs two
  requests, a late and a repeated answer, hence two requests and three answers.
* Pipeline: two files let one be restored, stale or unwritten while the other is not; in
  three rounds a text can change, come back and change again before the limit. Others
  save the files any number of times, back to the first text too. Two texts suffice for
  that, as the code only ever asks whether a text is the same as another one; the safety
  properties pass with three texts as well, on the five products and up to symmetry
  (4.7 million states, too long to keep), and are proved for any. `pipeline_sources` has
  three.
* Fixer: three diagnostics are a previous fix, one that conflicts with it, and one that
  follows; on three characters they can be disjoint, touch, overlap and nest.
* Pool: two slots are needed for one to fail while its sibling is between two events,
  two tasks for one to wait while another runs. A retry cap of one has a first respawn
  and an exhausted cap. One to two cancel slots make the array grow, and three tasks
  exhaust it. `respawned` counts only up to `RetryCap + 1`, which is all
  `RespawnsCapped` asks. Workers are symmetric in `pool_crew`.
* `DeadPost` says what a post to a stopped thread does. Node swallows it ("lost", used
  in `pool_crew`); the catch in `dispatchToWorker` expects a throw ("throws", used in
  `pool_queue`). With "throws" two workers violate `DegradedOnlyWhenDead`: the slot is
  neither ready nor respawning until its exit event. It is listed as a hazard.
* LSP: one document and queues of capacity one (two for the outgoing queue, which a
  handler may enter twice), so that every full queue happens. Three messages (`MaxSends`)
  are an open with a close and a reopening before its plugin answer, or two changes,
  saves, refreshes or fix-alls that supersede its lint at each point. Documents share
  only the queues and the loops: a run with two documents, without the liveness
  properties, passes with 4.6 million states and is too long to keep.
* Config: three transactions are a committed one, one that is lost or superseded and
  one that must cope with it; two fingerprints (interchangeable, hence a symmetry set)
  let generations share a host or not; two faults combine a crash with a timeout or a
  cancellation. A fault budget of three passes with 4.7 million states. One grace slot
  makes the cap on superseded generations bite. The graph of states has no cycle but
  stuttering, so "it eventually ends" is the invariant `NothingStalls`: some step of
  the machinery is enabled, or everything is over. With one fingerprint the temporal
  form, under fairness of the same steps, passes too.
* CLI: two chunks are the least for one to be flushed and one still buffered, one fault
  suffices for each partial end, and all three intents (lint, help, init) are run.

Deadlock is checked in the pipeline and fixer runs, where a finished call is an explicit
step. A closed channel, a pool that was shut down, a session that ended and bounded
environments really stop, so it is off there.

### Fairness

* `IpcChannel`: a goroutine that can run runs; a frame write ends (write deadline); an
  inbound handler returns. Nothing is assumed of the peer or of callers' contexts.
* `LintPipeline`: the pipeline's goroutine runs; a plugin dispatch returns once its
  context is cancelled, which SendRequest guarantees by its select. A host that never
  answers is allowed.
* `WorkerPool`: the event loop handles each event, timers fire, and a terminated thread
  stops. Nothing makes a plugin load, finish, read its messages or crash.
* `LspDiagnostics`: the three loops and the goroutines run, timers and deadlines fire,
  and the editor reads its pipe and answers config requests. It need not answer plugin
  requests, and sends nothing it does not want to.
* `CliSession`: both processes run, timers fire and plugin hosts start and stop (what
  `CallsReturn` of the pool gives). A lint, the user's config modules and the terminal
  are not fair: with an interrupt the session ends without them, a child whose parent has
  died ends if its lint does, and otherwise the session ends if all three do, which
  `SessionEnds` states as hypotheses.

### Findings

* `pipeline_sources`: `internal/linter/pipeline_result.go:96` says that `Verified` means
  the last observation saw `FinalSources`. A file whose fixes bring back its first text
  leaves the snapshot and is read from disk again; if someone saved it meanwhile the
  observation saw another text. The weaker claim, for `FinalChanges`, holds
  (`VerifiedObservesChanges`).
* `pool_respawn_cap`: the start-up timer of `spawnWorker` rejects the spawn but leaves
  the message listener in place. A `ready` already on its way attaches the permanent
  handlers to a slot with crash count 0, and that thread's exit respawns the worker
  beyond `retryCap`.
* `lsp_fixall`: fix-all takes the document off the debounce set because "any scheduled
  debounce lint for the same content is redundant" (`internal/lsp/code_action.go:119`),
  and publishes nothing because a save follows. Asked for by itself, with nothing to
  edit, it leaves a changed text without diagnostics until the next event.

One disagreement is in the wiring and needs no run. The comments at
`cmd/rslint/lint_command.go:192` ("Only the production disk-backed CLI shares its initial
source medium with the Node plugin host") and at
`packages/rslint/src/eslint-plugin/linter/ecma-language-plugin.ts:97` say that on the
command line the plugin host reads the first generation from disk, so that no text is
shipped. The condition is `args.FS == nil`, and `runCLI` always sets a file system
(`cmd/rslint/ipc_cli.go:333`), so every text is sent. The test "production disk host"
(`cmd/rslint/cmd_test.go:1453`) passes none, which the product does not do.

Three states the models reach without a property to fail on are kept as hazards: the
read loop blocked on a full request queue while the dispatch loop waits, without a
deadline, for an answer only the read loop can deliver (`Wedged`, which the LSP liveness
properties exempt by name); an abort that finds no room in the outgoing queue, after
which the extension may take a later commit as proof that the server accepted an earlier
one (`ConfigTransaction` assumes it finds room); and a staged plugin host whose shutdown,
begun by the signal handler, is not awaited by `runEngine`'s finally block
(`HostsAreReaped` asks completion only of published hosts).

## 4. Proofs

Each theorem has the form `Spec => []P` (two do not: `WireImplementsLog` is a refinement,
`DegradedMeansDead` an action property) and is proved from an inductive invariant: it holds initially, every action preserves it (one
step of the proof per action), and it implies `P`. The invariants were checked with TLC
on the runs' instances before they were proved. Nothing is assumed but the named
`ASSUME`s of the modules, which TLC evaluates on every run. Those that say something about the
code are `ThreadsDistinct` (goroutines of a channel are distinct),
`TextsAssumption` (a file starts with a text of its own),
`RequestsAssumption` (`PipelineRequest.validate` has admitted the request),
`CommitterAssumption` (the one product with a committer, `rslint --fix`, verifies after
its last round, `cmd/rslint/lint_command.go:554`), and `Plain \notin Fingerprints` (a
config without plugins has no fingerprint).

**`IpcChannelProofs`**, for any sets of callers and handlers and any number of answers:

* `TypeCorrect`: `TypeOK`.
* `WireFramed`: `WireStaysFramed`. Not inductive alone: a writer past
  admission must be the holder of the lock, and an unsealed channel must not end in a
  final frame. `WriteInv` adds `LockHeld` (who is between admission and release holds
  `writeMu`), `FreshInbound` (a request still to be
  dispatched has an idle handler and arrives once) and `SealGuards` (a
  final frame on the wire is either sealed or still under the lock of its writer).
* `WireImplementsLog`: `Spec => WireIsSealedLog`, from `WriteInv`: each step of the
  channel extends the log, seals it, or leaves it alone.
* `AnswersRouted`: `AnswersReachTheirCaller`. `RouteInv` adds `IdsOwned`
  (an id in the table belongs to the request that drew it and to no other) and
  `IdsTravel` (an answer under way carries an id that was drawn, addressed to its
  owner).
* `OutcomeTruthful`: `OutcomeMatchesWire`. `OutcomeInv` adds where a writer's frame is,
  by its program counter (`SentByPc`), that a frame on the wire stays the one its writer
  meant (`ReplyKept`), and that an outcome is told only at the end (`ToldAtEnd`).

**`LintPipelineProofs`**, for any finite set of files, any texts, round limit and admitted requests:

* `TypeCorrect`: `PipelineType`.
* `LeaseKept`: `LeaseDiscipline`, from `LeaseInv`, which says at which program counters
  the lease is held and plugin work may run.
* `VerifiedHolds`: `VerifiedObservesChanges`, from `VerifiedInv` (while observing, the
  generation has every changed file's current text; `verified` is true only while the
  last observation's texts are the current ones). `CommitterAssumption` is used here.
* `RoundsBuildOnBefore`: `FixesBuildOnBefore`, from `BaseInv` (a plugin that is sent its
  texts has the generation's, and a changed file's first text is known). The case that
  needs it is a file whose fixes left no override: it is read from disk again, and only
  `autofixState.apply` stands between fixes on somebody else's text and a commit, whose
  preflight that text passes if it has been saved back by then. Nothing is claimed of a
  request with `HostReadsInitialText`: there a file saved while the host reads and saved
  back before the commit does get fixes made for another text.
* `EditsSurvive` and `CommitIsReported`: `EarlierEditsSurvive` and `CommitReported`, from
  `CommitInv` (what the preflight has checked, what has not been written, and where each
  file of the commit is accounted for).

**`CancelFlagPoolProofs`** - lemmas on the flag pool, for any size of its array: acquire,
grow, release and cancel keep it `Booked`, that is, the free stack and the slots in use
divide the array between them, the stack has no duplicates, and a raised flag belongs to a
slot in use.

**`WorkerPoolProofs`**, for any number of workers and tasks, any retry cap and any number
of cancel slots. One invariant, `IInv`, serves all theorems (`PoolInvariant`):

* `Ledger`, about the tasks: a waiting task is in the queue or in one slot, once
  (`HeldInv`); the cancel slots in use and the waiting tasks that hold one correspond
  (`Accounted`); what is withdrawn or answered as cancelled was cancelled by its owner
  (`AskedInv`).
* `Link`, about one worker: whose listeners its thread has (`RoleInv`), that it has
  nothing to do but its slot's task (`TimerInv`), that what it was sent has left the queue
  (`HandedInv`), and when a respawn is due (`RespawnInv`).
* `ThreadInv`, the life of a thread; `Attended`, who will look at a backlog; `CallsInv`,
  how far `init()` and `shutdown()` have come.

The loops of the class (over the slots, the queue, the tasks) are folds in the model. The
proofs do not evaluate them: a lemma per loop says that a property which one round of
the body keeps holds after the loop. From `IInv` follow

* `TypeCorrect`: `TypeInv`; `TasksAreHeldOnce`: `TasksHeldOnce`; `CancelSlotsAreAccounted`:
  `CancelSlotsAccounted`; `OnlyAskedIsCancelled`: `CancelledOnlyIfAsked`;
  `TimersMeasureTheirTask`: `TimerMeasuresItsTask`; `BacklogsAreAttended`:
  `BacklogIsAttended`; `NothingIsLeftRunning`: `NothingOutlivesThePool`.
* `DegradedMeansDead`: `DegradedOnlyWhenDead`, assuming `DeadPost = "lost"`, which is what
  Node does (with "throws" it is false, see Bounds). A step that gives tasks up finds no
  listed slot that serves or announces a respawn (`Honest`), and such a slot never comes
  back (`DeadForGood`).

**`ConfigTransactionProofs`**, for any number of transactions, lints, crashes, timeouts,
any fingerprints and any grace history:

* `TypeCorrect`: `ConfigType`.
* `LeasesKept`, `NothingSurvives`: `LeasesHold`, `NothingSurvivesDispose`, from `PoolInv`:
  until disposal no host of the pool is shut down; a disposed pool is empty, or the chain
  still holds the disposal, and stays empty whatever else is on the chain.

**`ConfigAgreementProofs`**, for the same constants:

* `CommittedServed`: `CommittedIsRoutable`; `AgreementReached`: `Agreement`. Every control
  request gets a number, four times its transaction plus its rank (load, activate, commit,
  abort). The wire and the operation chain hold requests in that order (`OrderInv`). A
  commit that the server has given up is followed by its abort, on the wire, on the chain
  or as a reset, before the next commit (`SessionInv`, `ResetInv`). So a commit runs only
  when the active generation is settled, and what the server has committed is the active
  generation or the one the pending abort will restore (`CommittedInv`); its host has
  been started and not retired (`Sound`, `KnownInv`, `ServedInv`).
* `NothingIsLeaked`: `NothingLeaks`, from `LeakInv`: the pool has a use for a
  generation it routes (active, rollback target or in its grace period) or the extension
  still has something to do for its transaction; a host is routed or finishes its last
  lints; the grace history keeps to its cap. Once disposal has been asked
  for, the two sides need no longer agree; until it has run, `AbortsInv` is what late aborts
  need of the pool, and afterwards the pool is empty.

**`LspDiagnosticsProofs`**, for any documents, queue capacities and number of messages:

* `TypeCorrect`: `LspType`; part of it is that a reverse request always finds an id that
  no call, queue or message still holds.
* `StoredCurrent`: `StoredIsCurrent`, from `StoreInv`. `FreshInv`: what is stored is
  current, or the running handler still has a push, lint or drop for that document.
  `ClosedInv`: a closed document has nothing stored and nothing scheduled, for which saves
  must find their document open (`ProtocolInv`, over the messages on their way).
  `ResultsInv`: a result whose generation is still the document's belongs to what is
  stored and has not been merged. `OnceInv`: a generation has one result under way.
* `EditorMirrors`: `EditorMirrorsStore`, from `StoreInv` and `MirrorInv`: the last
  publication in the queue, or what is shown when there is none, is what is stored,
  unless a republication is still to come.

**`CliSessionProofs`**, for any amount of output and any number of faults:

* `TypeCorrect`: `SessionType`.
* `InterruptReported`: `InterruptIsReported`, from `InterruptInv` (a signal that came
  before the output was complete is known to `markCLIInterrupted`, and what it decided
  stands until the exit).
* `ExecutionValidated`: `ExecutionIsValidated`, from `ValidInv` (what a positive answer
  says of the activation for as long as the answer can be used).
* `HostsReaped`: `HostsAreReaped`, from `HostInv` (where the host is in its life, who
  holds it, and how far the finally block has come).
* `OutputOrdered`: `OutputInOrder`, from `OutputInv`. Its core, `FlowInv`, follows the
  report: the first pieces are on the terminal, the next ones in Node's stream, then in
  output frames, in the drain's buffer and in the redirected stdout, none missing, doubled
  or out of order; a broken stream takes no more and a drain that has lost its channel
  sends no more. `PhaseInv` says what Go's program counter tells of these pieces,
  `StartInv` follows the start line from the request to its answer (nothing is printed
  before it), `EndInv` the shutdown from the request to the timing table (nothing is sent,
  queued or printed behind it). The steps of the session are first classified by what
  they do to the output (`OutputSteps`), so that the proof has one case per effect.

### Model-checked only

* All liveness properties (`RequestReturns`, `InboundSettles`, `StopsWhenAsked`,
  `EveryTaskSettles`, `CallsReturn`, `EditsAreShown`, `LoopReturns`, `CallsEnd`,
  `SessionEnds`), which rest on fairness, and `NothingStalls`, which is about ENABLED:
  out of the prover's reach.
* `AppliesAtOnce` and `ExactlyClashesWait` of the fixer: an equality with simultaneous
  edits for texts of every length needs induction over sequences.

## 5. Plan

Done: `SealedLog`, `IpcChannel`, `LintPipeline`, `SourceCodeFixer`, `CancelFlagPool`,
`WorkerPool`, `LspDiagnostics`, `PluginLintPool`, `ConfigTransaction` and `CliSession`,
with the proofs of section 4. Left, in this order:

1. `IpcClient`: chunk reassembly, and the cut of output at UTF-8 boundaries, against
   reference definitions over all short inputs.
2. `LintProgramStore`, `RuntimeOwnership`, the end of the LSP loops when the pipe fails.
3. Disable directives, ignore matching and target planning as pure algorithms.
