---------------------------- MODULE LintPipeline ----------------------------
(***************************************************************************)
(* One call of RunPipeline (internal/linter/pipeline*.go), the lint        *)
(* orchestrator of the CLI, the API server and the language server:        *)
(* acquire a source generation under a lease, run native rules and         *)
(* ESLint-plugin rules on it (side by side, or the plugins after the lease *)
(* is released), apply fixes to an in-memory state for a bounded number of *)
(* rounds, observe again, and at the end optionally commit the net change  *)
(* to disk (cmd/rslint/lint_commit.go).                                    *)
(*                                                                         *)
(* Other actors: the plugin goroutine and its external host, which reads   *)
(* files from disk by itself when the request says so; whoever cancels the *)
(* context; and whoever edits the files on disk meanwhile.                 *)
(*                                                                         *)
(* A text is abstracted to what the properties tell apart: "original", the *)
(* others a file may have, whoever wrote them, and "partial", what a       *)
(* failed write leaves.                                                    *)
(***************************************************************************)
EXTENDS Naturals, FiniteSets

CONSTANTS Files,      \* lint targets
          WellFormed, \* the texts that fixes and editors make
          Requests,   \* the requests the products make, a subset of RequestType
          MaxRounds   \* maxFixRounds

ASSUME FilesAssumption == Files # {} /\ IsFiniteSet(Files)
ASSUME RoundsAssumption == MaxRounds \in Nat \ {0}

None == "none"
Mixed == "mixed"
Texts == WellFormed \union {"partial"}
MaybeText == Texts \union {None}

ASSUME TextsAssumption == "original" \in WellFormed /\ {None, Mixed, "partial"} \intersect WellFormed = {}

\* hostReads: HostReadsInitialText. pinned: a file without an override is read
\* from the document the request started with, not from disk again.
RequestType ==
    [kind : {"lint", "progressive", "autofix"},
     plugin : {"concurrent", "after", "progressive"},
     keepPartial : BOOLEAN, commits : BOOLEAN, verifyLast : BOOLEAN,
     stopOnSyntax : BOOLEAN, hostReads : BOOLEAN, pinned : BOOLEAN]

\* PipelineRequest.validate
Validated(r) ==
    /\ r.plugin = "progressive" <=> r.kind = "progressive"
    /\ r.commits => r.kind = "autofix"

ASSUME RequestsAssumption == Requests \subseteq RequestType /\ \A r \in Requests : Validated(r)

\* The one product with a committer, rslint --fix, sets VerifyAfterLastRound.
ASSUME CommitterAssumption == \A r \in Requests : r.commits => r.verifyLast

VARIABLES
    req,        \* the request
    pc,         \* where RunPipeline's goroutine stands
    cancelled,  \* ctx.Err() # nil
    disk,       \* the files as they are on disk
    gen,        \* the texts of the current generation; None before it is read
    lease,      \* the lease on it
    plug,       \* the plugin task: state, cancelled, its files, whether it carries
                \*   their texts, the texts the host has, the files with fixes
    nat,        \* the native observation: files with fixes, syntax errors that
                \*   stop it, error
    fix,        \* autofixState and fixResult: first and current text of each
                \*   touched file, rounds applied, verified, the planned changes;
                \*   and, as history, the text its fixes are based on
    obs,        \* texts seen by the initial and by the reported observation
    commit,     \* the committer: files still to visit, stale or failed ones met,
                \*   what each write replaced, files edited behind their preflight
    res,        \* what RunPipeline returns
    shown       \* the ProgressiveDiagnostics calls made so far

vars == <<req, pc, cancelled, disk, gen, lease, plug, nat, fix, obs, commit, res, shown>>

Nowhere == [f \in Files |-> None]
IdlePlugin == [state |-> "idle", cancelled |-> FALSE, files |-> {},
               inline |-> FALSE, read |-> Nowhere, fixes |-> {}]
NoNative == [fixes |-> {}, syntax |-> FALSE, err |-> FALSE]

Init ==
    /\ req \in Requests
    /\ pc = "acquire"
    /\ cancelled \in BOOLEAN
    /\ disk = [f \in Files |-> "original"]
    /\ gen = Nowhere
    /\ lease = "none"
    /\ plug = IdlePlugin
    /\ nat = NoNative
    /\ fix = [initial |-> Nowhere, current |-> Nowhere, round |-> 0, verified |-> FALSE, planned |-> Nowhere,
               base |-> Nowhere]
    /\ obs = [first |-> Nowhere, last |-> Nowhere]
    /\ commit = [todo |-> {}, stale |-> FALSE, failed |-> FALSE, replaced |-> Nowhere, raced |-> {}]
    /\ res = [outcome |-> None, committed |-> FALSE, confirmed |-> {}]
    /\ shown = {}

\* The text autofixState knows for f.
KnownText(f) == IF fix.current[f] # None THEN fix.current[f] ELSE fix.initial[f]

\* SourceSnapshot: the files whose text differs from their first one.
Changed == {f \in Files : fix.current[f] # None}
FinalChanges == Changed
Touched == {f \in Files : fix.initial[f] # None}

Initial == Changed = {}
MayPlan == req.kind = "autofix"
LastRound == fix.round = MaxRounds

\* releaseLease.close, deferred and explicit: the first call releases.
Closed == IF lease = "held" THEN "released" ELSE lease

Return(outcome) == res' = [res EXCEPT !.outcome = outcome] /\ pc' = "done"

-----------------------------------------------------------------------------
(* executeObservation: acquiring the generation.                           *)

\* AcquireGeneration fails, or its first look at ctx stops it.
AcquireFails ==
    /\ pc = "acquire"
    /\ Return("error")
    /\ UNCHANGED <<req, cancelled, disk, gen, lease, plug, nat, fix, obs, commit, shown>>

\* The initial generation is the one the product loaded; a later one takes
\* overridden files from memory and the others from the base it was given.
GenerationStart ==
    [f \in Files |-> IF Initial \/ (req.pinned /\ fix.current[f] = None)
                     THEN "original" ELSE fix.current[f]]

Acquire ==
    /\ pc = "acquire"
    /\ ~cancelled
    /\ gen' = GenerationStart
    /\ lease' = "none"
    /\ plug' = IdlePlugin
    /\ nat' = NoNative
    /\ pc' = "load"
    /\ UNCHANGED <<req, cancelled, disk, fix, obs, commit, res, shown>>

\* The rebuilt Program reads one file that has no override.
LoadFile(f) ==
    /\ pc = "load"
    /\ gen[f] = None
    /\ gen' = [gen EXCEPT ![f] = disk[f]]
    /\ UNCHANGED <<req, pc, cancelled, disk, lease, plug, nat, fix, obs, commit, res, shown>>

Inline == req.plugin # "concurrent" \/ ~req.hostReads \/ ~Initial

\* The lease begins; PrepareLintPlan, projectGenerationTargets and
\* materializePluginTask fail, or ctx has ended: the deferred close releases.
PrepareFails ==
    /\ pc = "load"
    /\ \A f \in Files : gen[f] # None
    /\ lease' = "released"
    /\ Return("error")
    /\ UNCHANGED <<req, cancelled, disk, gen, plug, nat, fix, obs, commit, shown>>

StopOnTargetSyntaxErrors == req.kind = "progressive" \/ (req.kind = "autofix" /\ req.stopOnSyntax)

\* The plan knows syntax errors; where the request stops on them, and only
\* there they matter, no plugin work is materialised. In concurrent mode the
\* plugin goroutine starts before native lint.
Prepare ==
    /\ pc = "load"
    /\ \A f \in Files : gen[f] # None
    /\ ~cancelled
    /\ lease' = "held"
    /\ \E syntax \in {FALSE, StopOnTargetSyntaxErrors}, targets \in SUBSET Files :
         LET files == IF syntax THEN {} ELSE targets
         IN  /\ nat' = [NoNative EXCEPT !.syntax = syntax]
             /\ plug' = [IdlePlugin EXCEPT
                  !.files = files,
                  !.inline = Inline,
                  !.read = [f \in Files |-> IF Inline /\ f \in files THEN gen[f] ELSE None],
                  !.state = IF req.plugin = "concurrent" /\ files # {} THEN "running" ELSE "idle"]
    /\ pc' = "native"
    /\ UNCHANGED <<req, cancelled, disk, gen, fix, obs, commit, res, shown>>

-----------------------------------------------------------------------------
(* The plugin goroutine and its host.                                      *)

\* Without inline text the host reads the file from disk when it gets to it.
HostReads(f) ==
    /\ plug.state = "running"
    /\ ~plug.inline
    /\ f \in plug.files
    /\ plug.read[f] = None
    /\ plug' = [plug EXCEPT !.read[f] = disk[f]]
    /\ UNCHANGED <<req, pc, cancelled, disk, gen, lease, nat, fix, obs, commit, res, shown>>

PluginCancelled == plug.cancelled \/ cancelled

\* pluginTask.run returns with fixes for files the host has read. A dispatch
\* that failed keeps what it has, or drops it, by the request's policy.
PluginReturns ==
    /\ plug.state = "running"
    /\ \E err \in BOOLEAN, fixes \in SUBSET {f \in plug.files : MayPlan /\ plug.read[f] # None} :
         /\ err \/ \A f \in plug.files : plug.read[f] # None
         /\ plug' = [plug EXCEPT !.state = "returned",
                                 !.fixes = IF err /\ ~req.keepPartial THEN {} ELSE fixes]
    /\ UNCHANGED <<req, pc, cancelled, disk, gen, lease, nat, fix, obs, commit, res, shown>>

-----------------------------------------------------------------------------
(* executeObservation: native lint, join, release.                         *)

\* A native error cancels the plugin work it was to be joined with.
\* Mutant: it does not.
CancelNothing(err) == FALSE
CancelPlugin(err) == err

NativeConcurrent ==
    /\ pc = "native"
    /\ req.plugin = "concurrent"
    /\ \E err \in {TRUE, cancelled}, fixes \in SUBSET (IF MayPlan THEN Files ELSE {}) :
         /\ nat' = [nat EXCEPT !.fixes = fixes, !.err = err]
         /\ plug' = [plug EXCEPT !.cancelled = CancelPlugin(err)]
    /\ pc' = "join"
    /\ UNCHANGED <<req, cancelled, disk, gen, lease, fix, obs, commit, res, shown>>

\* <-pluginCh, freezing the fix texts, then the release.
\* Mutant: a failed native run does not wait for the plugin goroutine.
JoinUnlessFailed == nat.err \/ plug.state # "running"
JoinReady == plug.state # "running"

\* An observation that returned without an error becomes the reported one.
Observed ==
    /\ obs' = [first |-> IF fix.round = 0 THEN gen ELSE obs.first, last |-> gen]
    /\ fix' = [fix EXCEPT !.verified = (req.kind = "autofix")]
    /\ pc' = "observed"
    /\ UNCHANGED res

NotObserved == Return("error") /\ UNCHANGED <<obs, fix>>

Join ==
    /\ pc = "join"
    /\ JoinReady
    /\ lease' = Closed
    /\ IF nat.err \/ cancelled THEN NotObserved ELSE Observed
    /\ UNCHANGED <<req, cancelled, disk, gen, plug, nat, commit, shown>>

\* AfterNative and progressive: native lint, fix texts frozen, lease closed.
NativeDetached ==
    /\ pc = "native"
    /\ req.plugin # "concurrent"
    /\ \E err \in {TRUE, cancelled}, fixes \in SUBSET (IF MayPlan THEN Files ELSE {}) :
         /\ nat' = [nat EXCEPT !.fixes = fixes, !.err = err]
         /\ IF err THEN Return("error") ELSE pc' = "released" /\ UNCHANGED res
    /\ lease' = Closed
    /\ UNCHANGED <<req, cancelled, disk, gen, plug, fix, obs, commit, shown>>

\* Without the lease: stop on syntax errors or start the detached work.
StartsDetached == req.plugin = "after" /\ plug.files # {}

Released ==
    /\ pc = "released"
    /\ IF cancelled THEN NotObserved /\ UNCHANGED plug
       ELSE IF StartsDetached
       THEN /\ plug' = [plug EXCEPT !.state = "running"]
            /\ pc' = "plugin"
            /\ UNCHANGED <<obs, fix, res>>
       ELSE Observed /\ UNCHANGED plug
    /\ UNCHANGED <<req, cancelled, disk, gen, lease, nat, commit, shown>>

PluginJoined ==
    /\ pc = "plugin"
    /\ plug.state = "returned"
    /\ IF cancelled THEN NotObserved ELSE Observed
    /\ UNCHANGED <<req, cancelled, disk, gen, lease, plug, nat, commit, shown>>

-----------------------------------------------------------------------------
(* RunPipeline: lint and progressive requests.                             *)

FinishLint ==
    /\ pc = "observed"
    /\ req.kind = "lint"
    /\ Return("ok")
    /\ UNCHANGED <<req, cancelled, disk, gen, lease, plug, nat, fix, obs, commit, shown>>

\* presentProgressiveLint: the baseline, then the enrichment.
PublishBaseline ==
    /\ pc = "observed"
    /\ req.kind = "progressive"
    /\ shown' = {"baseline"}
    /\ pc' = "published"
    /\ UNCHANGED <<req, cancelled, disk, gen, lease, plug, nat, fix, obs, commit, res>>

Submit ==
    /\ pc = "published"
    /\ IF cancelled THEN Return("error") /\ UNCHANGED shown
       ELSE /\ Return("ok")
            /\ shown' = shown \union (IF plug.files # {} THEN {"enrichment"} ELSE {})
    /\ UNCHANGED <<req, cancelled, disk, gen, lease, plug, nat, fix, obs, commit>>

-----------------------------------------------------------------------------
(* runAutofixPipeline.                                                     *)

StopsOnSyntax == nat.syntax

\* A round's execution is gone once its changes are applied or it has none.
Forget == gen' = Nowhere /\ plug' = IdlePlugin /\ nat' = NoNative

\* The text that f's fixes are based on: the one the round before was based on,
\* or the generation's when there was none; neither, when the host read another.
Origin(f) ==
    IF f \in plug.fixes /\ plug.read[f] # gen[f] THEN Mixed
    ELSE IF fix.current[f] # None THEN fix.base[f] ELSE gen[f]

\* No more rounds, or the last one is verified, or nothing left to fix.
Settle ==
    /\ pc = "observed"
    /\ req.kind = "autofix"
    /\ pc' = "commit"
    /\ \/ StopsOnSyntax \/ LastRound
       \/ ~cancelled            \* planFixes finds no change
    /\ Forget
    /\ UNCHANGED <<req, cancelled, disk, lease, fix, obs, commit, res, shown>>

\* planFixes: a file whose fixes all drop out is not a change.
Plan ==
    /\ pc = "observed"
    /\ req.kind = "autofix"
    /\ ~StopsOnSyntax /\ ~LastRound
    /\ IF cancelled THEN Return("error") /\ UNCHANGED fix
       ELSE /\ \E after \in [Files -> MaybeText] :
                 /\ after # Nowhere
                 /\ \A f \in Files : after[f] # None =>
                      f \in nat.fixes \union plug.fixes /\ after[f] \in WellFormed
                 /\ fix' = [fix EXCEPT !.planned = after]
            /\ pc' = "apply"
            /\ UNCHANGED res
    /\ UNCHANGED <<req, cancelled, disk, gen, lease, plug, nat, obs, commit, shown>>

\* autofixState.apply refuses a change whose Before is not the text it knows.
\* Mutant: a file without an override is not compared.
StaleOverride(f) == fix.planned[f] # None /\ fix.current[f] \notin {None, gen[f]}
Stale(f) == fix.planned[f] # None /\ KnownText(f) # None /\ KnownText(f) # gen[f]

FirstText(f) == IF fix.planned[f] # None /\ fix.initial[f] = None THEN gen[f] ELSE fix.initial[f]
NewText(f) ==
    IF fix.planned[f] = None THEN fix.current[f]
    ELSE IF fix.planned[f] = FirstText(f) THEN None ELSE fix.planned[f]

Apply ==
    /\ pc = "apply"
    /\ IF cancelled \/ \E f \in Files : Stale(f)
       THEN Return("error") /\ UNCHANGED <<gen, plug, nat, fix, obs>>
       ELSE LET restored == \A f \in Files : NewText(f) = None
            IN  /\ fix' = [initial |-> [f \in Files |-> FirstText(f)],
                           current |-> [f \in Files |-> NewText(f)],
                           round |-> fix.round + 1,
                           verified |-> restored,
                           planned |-> Nowhere,
                           base |-> [f \in Files |-> IF fix.planned[f] # None THEN Origin(f) ELSE fix.base[f]]]
                /\ obs' = IF restored THEN [obs EXCEPT !.last = obs.first] ELSE obs
                /\ Forget
                /\ pc' = "applied"
                /\ UNCHANGED res
    /\ UNCHANGED <<req, cancelled, disk, lease, commit, shown>>

\* Restored to the start, or the last round and no verification: commit.
\* Mutant: the last round is committed unverified.
AgainBelowLimit == Changed # {} /\ ~LastRound
Again == Changed # {} /\ (LastRound => req.verifyLast)

Applied ==
    /\ pc = "applied"
    /\ IF cancelled THEN Return("error")
       ELSE pc' = (IF Again THEN "acquire" ELSE "commit") /\ UNCHANGED res
    /\ UNCHANGED <<req, cancelled, disk, gen, lease, plug, nat, fix, obs, commit, shown>>

-----------------------------------------------------------------------------
(* commitFinalChanges and cliFinalChangeCommitter.                         *)

\* No committer, a cancelled context, or an empty net change.
FinishInMemory ==
    /\ pc = "commit"
    /\ ~req.commits \/ cancelled \/ FinalChanges = {}
    /\ pc' = "done"
    /\ res' = [res EXCEPT !.outcome = IF cancelled THEN "error" ELSE "ok",
                          !.committed = req.commits /\ ~cancelled]
    /\ UNCHANGED <<req, cancelled, disk, gen, lease, plug, nat, fix, obs, commit, shown>>

BeginCommit ==
    /\ pc = "commit"
    /\ req.commits /\ ~cancelled /\ FinalChanges # {}
    /\ commit' = [commit EXCEPT !.todo = FinalChanges]
    /\ pc' = "preflight"
    /\ UNCHANGED <<req, cancelled, disk, gen, lease, plug, nat, fix, obs, res, shown>>

\* current != change.Before
\* Mutant: nothing is compared.
ChangedNever(f) == FALSE
ChangedSince(f) == disk[f] # fix.initial[f]

\* ctx ended, the file cannot be read, or it is not the text it was: remember.
Preflight(f) ==
    /\ pc = "preflight"
    /\ f \in commit.todo
    /\ \E unreadable \in BOOLEAN :
         commit' = [commit EXCEPT
           !.todo = IF cancelled THEN {} ELSE @ \ {f},
           !.stale = @ \/ cancelled \/ unreadable \/ ChangedSince(f)]
    /\ UNCHANGED <<req, pc, cancelled, disk, gen, lease, plug, nat, fix, obs, res, shown>>

\* validateCommitResult, and the context error joined to its own.
\* Mutant: a cancelled loop that met no write error counts as complete.
ValidateErrors(failed) ==
    /\ pc' = "done"
    /\ res' = [res EXCEPT !.committed = ~commit.failed /\ ~commit.stale,
                          !.outcome = IF failed \/ cancelled THEN "error" ELSE "ok"]
Validate(failed) ==
    /\ pc' = "done"
    /\ res' = [res EXCEPT !.committed = ~failed,
                          !.outcome = IF failed \/ cancelled THEN "error" ELSE "ok"]

PreflightDone ==
    /\ pc = "preflight"
    /\ commit.todo = {}
    /\ IF commit.stale THEN Validate(TRUE) /\ UNCHANGED commit
       ELSE /\ pc' = "write"
            /\ commit' = [commit EXCEPT !.todo = FinalChanges]
            /\ UNCHANGED res
    /\ UNCHANGED <<req, cancelled, disk, gen, lease, plug, nat, fix, obs, shown>>

Write(f) ==
    /\ pc = "write"
    /\ ~cancelled
    /\ f \in commit.todo
    /\ \/ /\ disk' = [disk EXCEPT ![f] = fix.current[f]]
          /\ commit' = [commit EXCEPT !.todo = @ \ {f}, !.replaced[f] = disk[f]]
          /\ res' = [res EXCEPT !.confirmed = @ \union {f}]
       \/ /\ disk' \in {disk, [disk EXCEPT ![f] = "partial"]}      \* os.WriteFile fails
          /\ commit' = [commit EXCEPT !.todo = @ \ {f}, !.failed = TRUE]
          /\ UNCHANGED res
    /\ UNCHANGED <<req, pc, cancelled, gen, lease, plug, nat, fix, obs, shown>>

\* The loop breaks on ctx, its error is a write error; or every file is visited.
WriteDone ==
    /\ pc = "write"
    /\ cancelled \/ commit.todo = {}
    /\ Validate(commit.failed \/ commit.todo # {})
    /\ UNCHANGED <<req, cancelled, disk, gen, lease, plug, nat, fix, obs, commit, shown>>

-----------------------------------------------------------------------------
(* The environment.                                                        *)

Cancel ==
    /\ ~cancelled /\ pc # "done"
    /\ cancelled' = TRUE
    /\ UNCHANGED <<req, pc, disk, gen, lease, plug, nat, fix, obs, commit, res, shown>>

\* Someone else saves f, as often as they like: with a new text, with an earlier
\* one, or with the one the fixes make.
Edit(f) ==
    /\ pc # "done"
    /\ \E text \in WellFormed \ {disk[f]} : disk' = [disk EXCEPT ![f] = text]
    /\ commit' = IF pc = "write" \/ (pc = "preflight" /\ f \notin commit.todo)
                 THEN [commit EXCEPT !.raced = @ \union {f}] ELSE commit
    /\ UNCHANGED <<req, pc, cancelled, gen, lease, plug, nat, fix, obs, res, shown>>

Terminated == pc = "done" /\ UNCHANGED vars

-----------------------------------------------------------------------------
Observation ==
    \/ AcquireFails \/ Acquire \/ (\E f \in Files : LoadFile(f)) \/ PrepareFails \/ Prepare
    \/ NativeConcurrent \/ Join \/ NativeDetached \/ Released \/ PluginJoined
Autofix == Settle \/ Plan \/ Apply \/ Applied
Commit ==
    \/ FinishInMemory \/ BeginCommit \/ PreflightDone \/ WriteDone
    \/ \E f \in Files : Preflight(f) \/ Write(f)
Pipeline == Observation \/ FinishLint \/ PublishBaseline \/ Submit \/ Autofix \/ Commit
Plugin == PluginReturns \/ \E f \in Files : HostReads(f)
Environment == Cancel \/ \E f \in Files : Edit(f)

Next == Pipeline \/ Plugin \/ Environment \/ Terminated

Spec == Init /\ [][Next]_vars

\* The pipeline's goroutine is scheduled, and a plugin dispatch returns once
\* its context ends; nothing else makes a plugin host answer.
Fairness == WF_vars(Pipeline) /\ WF_vars(PluginCancelled /\ PluginReturns)
FairSpec == Spec /\ Fairness
-----------------------------------------------------------------------------
(* Plugin work that shares the generation runs only while the lease is     *)
(* held; detached plugin work and diagnostics publication only after it is *)
(* released; and RunPipeline never returns, on any error path, with a      *)
(* lease held or a plugin goroutine running (pipeline_observation.go, the  *)
(* deferred cancel-and-join and lease.close).                              *)
LeaseDiscipline ==
    /\ plug.state = "running" => lease = (IF req.plugin = "concurrent" THEN "held" ELSE "released")
    /\ shown # {} => lease = "released"
    /\ pc = "done" => lease # "held" /\ plug.state # "running"

(* A result marked Verified: its Last observation saw every file of        *)
(* FinalChanges with exactly its final text, whatever was edited on disk   *)
(* or restored by a later round (AppliedFixResult.Verified); and nothing   *)
(* is written that no rule has looked at, at the round limit either.       *)
VerifiedObservesChanges ==
    /\ fix.verified => \A f \in FinalChanges : obs.last[f] = fix.current[f]
    /\ res.confirmed # {} => fix.verified

(* What the comment of AppliedFixResult.Verified says of FinalSources: Last *)
(* observes the final text of every file a fix touched, restored ones too. *)
VerifiedObservesSources ==
    pc = "done" /\ fix.verified => \A f \in Touched : obs.last[f] = KnownText(f)

(* In every round fixes are computed on, and applied to, the text the      *)
(* round before left, so that what a commit writes is based on the text    *)
(* its preflight compares with, although a file that fixes have restored   *)
(* is read from disk again while others save it, back and forth            *)
(* (autofixState.apply, inline plugin text). Whoever lets the plugin host  *)
(* read by itself (HostReadsInitialText) answers for what it reads.        *)
FixesBuildOnBefore ==
    ~req.hostReads => \A f \in FinalChanges : fix.base[f] = fix.initial[f]

(* A write replaces the text the fixes were computed from, or an edit that *)
(* landed after this file's preflight: an edit that came earlier survives. *)
EarlierEditsSurvive ==
    \A f \in Files : commit.replaced[f] # None =>
        commit.replaced[f] = fix.initial[f] \/ f \in commit.raced

(* The result tells the truth about the disk: Committed only when every    *)
(* change was written and confirmed, success only when Committed, and a    *)
(* write loop cut short by cancellation or a failed write is an error.     *)
CommitReported ==
    pc = "done" /\ req.commits =>
        /\ res.committed =>
             /\ res.confirmed = FinalChanges
             /\ \A f \in FinalChanges : disk[f] = fix.current[f] \/ f \in commit.raced
        /\ res.outcome = "ok" => res.committed
        /\ ~res.committed => res.outcome = "error"

(* Once the context ends, or native lint fails while a plugin host hangs,  *)
(* RunPipeline returns.                                                    *)
StopsWhenAsked == (cancelled \/ nat.err) ~> (pc = "done")
=============================================================================
