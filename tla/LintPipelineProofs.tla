------------------------- MODULE LintPipelineProofs -------------------------
(***************************************************************************)
(* Safety of internal/linter/pipeline*.go and cmd/rslint/lint_commit.go    *)
(* for any set of files and texts, any round limit and any requests that   *)
(* PipelineRequest.validate admits.                                        *)
(***************************************************************************)
EXTENDS LintPipeline, TLAPS

PCs == {"acquire", "load", "native", "join", "released", "plugin", "observed", "published",
        "apply", "applied", "commit", "preflight", "write", "done"}

FileTexts == [Files -> MaybeText]

PluginTasks == [state : {"idle", "running", "returned"}, cancelled : BOOLEAN,
                files : SUBSET Files, inline : BOOLEAN, read : FileTexts, fixes : SUBSET Files]
Natives == [fixes : SUBSET Files, syntax : BOOLEAN, err : BOOLEAN]
FixStates == [initial : FileTexts, current : FileTexts, round : Nat,
              verified : BOOLEAN, planned : FileTexts, base : [Files -> MaybeText \union {Mixed}]]
Observations == [first : FileTexts, last : FileTexts]
Commits == [todo : SUBSET Files, stale : BOOLEAN, failed : BOOLEAN,
            replaced : FileTexts, raced : SUBSET Files]
PipelineResults == [outcome : {None, "ok", "error"}, committed : BOOLEAN, confirmed : SUBSET Files]

PipelineType ==
    /\ req \in Requests
    /\ pc \in PCs
    /\ cancelled \in BOOLEAN
    /\ disk \in FileTexts
    /\ gen \in FileTexts
    /\ lease \in {"none", "held", "released"}
    /\ plug \in PluginTasks
    /\ nat \in Natives
    /\ fix \in FixStates
    /\ obs \in Observations
    /\ commit \in Commits
    /\ res \in PipelineResults
    /\ shown \in SUBSET {"baseline", "enrichment"}

-----------------------------------------------------------------------------
(* Types.                                                                  *)

\* Every text is text or None, and None is no text.
LEMMA TextFacts ==
    /\ None \in MaybeText /\ None \notin Texts /\ Texts \subseteq MaybeText
    /\ WellFormed \subseteq Texts
    /\ {"original", "partial"} \subseteq Texts
    /\ Nowhere \in FileTexts
BY TextsAssumption DEF None, MaybeText, Texts, Nowhere, FileTexts

\* RunPipeline returns an outcome, whatever else it has put in its result.
LEMMA ReturnType ==
    ASSUME PipelineType, NEW outcome \in {"ok", "error"}, Return(outcome)
    PROVE  res' \in PipelineResults /\ pc' \in PCs
BY DEF PipelineType, Return, PipelineResults, PCs

\* How an observation ends.
LEMMA ObservedType ==
    ASSUME PipelineType, NotObserved \/ Observed
    PROVE  res' \in PipelineResults /\ pc' \in PCs /\ obs' \in Observations /\ fix' \in FixStates
<1>1. CASE NotObserved
  BY <1>1, ReturnType DEF NotObserved, PipelineType
<1>2. CASE Observed
  <2>1. obs' \in Observations
    BY <1>2 DEF Observed, PipelineType, Observations, FixStates
  <2>2. fix' \in FixStates
    BY <1>2 DEF Observed, PipelineType, FixStates
  <2> QED BY <1>2, <2>1, <2>2 DEF Observed, PipelineType, PCs
<1> QED BY <1>1, <1>2

\* The commit's end tells an outcome.
LEMMA ValidateType ==
    ASSUME PipelineType, NEW failed \in BOOLEAN, Validate(failed)
    PROVE  res' \in PipelineResults /\ pc' \in PCs
BY DEF PipelineType, Validate, PipelineResults, PCs

\* What it says, and what it leaves alone.
LEMMA ValidateFacts ==
    ASSUME PipelineType, NEW failed \in BOOLEAN, Validate(failed)
    PROVE  /\ pc' = "done" /\ res'.confirmed = res.confirmed
           /\ res'.committed \in BOOLEAN /\ (res'.committed <=> ~failed)
           /\ failed => res'.outcome = "error"
BY DEF PipelineType, Validate, PipelineResults

\* The plugin task that is materialised, with the texts it carries inline.
LEMMA PreparedFacts ==
    ASSUME Prepare
    PROVE  \E files \in SUBSET Files, syntax \in {FALSE, StopOnTargetSyntaxErrors} :
              /\ nat' = [NoNative EXCEPT !.syntax = syntax]
              /\ plug' = [state |-> IF req.plugin = "concurrent" /\ files # {} THEN "running" ELSE "idle",
                          cancelled |-> FALSE, files |-> files, inline |-> Inline,
                          read |-> [f \in Files |-> IF Inline /\ f \in files THEN gen[f] ELSE None],
                          fixes |-> {}]
<1> DEFINE Work(syntax, targets) == IF syntax THEN {} ELSE targets
           Inlined(files) == [f \in Files |-> IF Inline /\ f \in files THEN gen[f] ELSE None]
<1>1. PICK syntax \in {FALSE, StopOnTargetSyntaxErrors}, targets \in SUBSET Files :
        /\ nat' = [NoNative EXCEPT !.syntax = syntax]
        /\ plug' = [IdlePlugin EXCEPT
             !.files = Work(syntax, targets), !.inline = Inline, !.read = Inlined(Work(syntax, targets)),
             !.state = IF req.plugin = "concurrent" /\ Work(syntax, targets) # {}
                       THEN "running" ELSE "idle"]
  BY DEF Prepare
<1>2. Work(syntax, targets) \in SUBSET Files
  OBVIOUS
<1> HIDE DEF Work, Inlined
<1>3. plug' = [state |-> IF req.plugin = "concurrent" /\ Work(syntax, targets) # {} THEN "running" ELSE "idle",
               cancelled |-> FALSE, files |-> Work(syntax, targets), inline |-> Inline,
               read |-> Inlined(Work(syntax, targets)), fixes |-> {}]
  BY <1>1 DEF IdlePlugin
<1> QED BY <1>1, <1>2, <1>3 DEF Inlined

\* A round that is over leaves a task and a native result of their types.
LEMMA ForgetType ==
    ASSUME Forget PROVE gen' \in FileTexts /\ plug' \in PluginTasks /\ nat' \in Natives
BY TextFacts DEF Forget, IdlePlugin, NoNative, PluginTasks, Natives

\* The pipeline starts well typed.
LEMMA TypeInit == Init => PipelineType
BY TextFacts DEF Init, PipelineType, PCs, IdlePlugin, NoNative, PluginTasks, Natives, FixStates,
     Observations, Commits, PipelineResults, FileTexts

\* Every step of the pipeline, the plugin host and the environment keeps the types.
LEMMA TypeStep == PipelineType /\ [Next]_vars => PipelineType'
<1> SUFFICES ASSUME PipelineType, [Next]_vars PROVE PipelineType'
  OBVIOUS
<1> USE DEF PipelineType
<1>1. CASE AcquireFails
  BY <1>1, ReturnType DEF AcquireFails
<1>2. CASE Acquire
  <2>1. GenerationStart \in FileTexts
    BY TextFacts DEF GenerationStart, FileTexts, FixStates
  <2>2. IdlePlugin \in PluginTasks /\ NoNative \in Natives
    BY TextFacts DEF IdlePlugin, NoNative, PluginTasks, Natives
  <2> QED BY <1>2, <2>1, <2>2 DEF Acquire, PCs
<1>3. ASSUME NEW f \in Files, LoadFile(f) PROVE PipelineType'
  BY <1>3, TextFacts DEF LoadFile, FileTexts
<1>4. CASE PrepareFails
  BY <1>4, ReturnType DEF PrepareFails
<1>5. CASE Prepare
  <2>1. PICK files \in SUBSET Files, syntax \in {FALSE, StopOnTargetSyntaxErrors} :
          /\ nat' = [NoNative EXCEPT !.syntax = syntax]
          /\ plug' = [state |-> IF req.plugin = "concurrent" /\ files # {} THEN "running" ELSE "idle",
                      cancelled |-> FALSE, files |-> files, inline |-> Inline,
                      read |-> [f \in Files |-> IF Inline /\ f \in files THEN gen[f] ELSE None],
                      fixes |-> {}]
    BY <1>5, PreparedFacts
  <2>2. nat' \in Natives
    <3>1. syntax \in BOOLEAN
      BY RequestsAssumption DEF StopOnTargetSyntaxErrors, RequestType
    <3> QED BY <2>1, <3>1 DEF NoNative, Natives
  <2>3. [f \in Files |-> IF Inline /\ f \in files THEN gen[f] ELSE None] \in FileTexts
    BY TextFacts DEF FileTexts
  <2>4. Inline \in BOOLEAN
    BY DEF Inline
  <2>5. plug' \in PluginTasks
    BY <2>1, <2>3, <2>4 DEF PluginTasks
  <2> QED BY <1>5, <2>2, <2>5 DEF Prepare, PCs
<1>6. CASE NativeConcurrent
  <2>1. nat' \in Natives
    <3>1. PICK err \in {TRUE, cancelled}, fixes \in SUBSET (IF MayPlan THEN Files ELSE {}) :
            nat' = [nat EXCEPT !.fixes = fixes, !.err = err]
      BY <1>6 DEF NativeConcurrent
    <3>2. err \in BOOLEAN /\ fixes \in SUBSET Files
      OBVIOUS
    <3> QED BY <3>1, <3>2 DEF Natives
  <2>2. plug' \in PluginTasks
    <3>1. PICK err \in {TRUE, cancelled} : plug' = [plug EXCEPT !.cancelled = err]
      BY <1>6 DEF NativeConcurrent, CancelPlugin
    <3> QED BY <3>1 DEF PluginTasks
  <2> QED BY <1>6, <2>1, <2>2 DEF NativeConcurrent, PCs
<1>7. CASE Join
  BY <1>7, ObservedType DEF Join, Closed
<1>8. CASE NativeDetached
  <2>1. nat' \in Natives
    <3>1. PICK err \in {TRUE, cancelled}, fixes \in SUBSET (IF MayPlan THEN Files ELSE {}) :
            nat' = [nat EXCEPT !.fixes = fixes, !.err = err]
      BY <1>8 DEF NativeDetached
    <3>2. err \in BOOLEAN /\ fixes \in SUBSET Files
      OBVIOUS
    <3> QED BY <3>1, <3>2 DEF Natives
  <2>2. res' \in PipelineResults /\ pc' \in PCs
    BY <1>8, ReturnType DEF NativeDetached, PCs
  <2> QED BY <1>8, <2>1, <2>2 DEF NativeDetached, Closed
<1>9. CASE Released
  <2>1. CASE StartsDetached /\ ~cancelled
    BY <1>9, <2>1 DEF Released, PCs, PluginTasks
  <2> QED BY <1>9, <2>1, ObservedType DEF Released
<1>10. CASE PluginJoined
  BY <1>10, ObservedType DEF PluginJoined
<1>11. CASE FinishLint
  BY <1>11, ReturnType DEF FinishLint
<1>12. CASE PublishBaseline
  BY <1>12 DEF PublishBaseline, PCs
<1>13. CASE Submit
  <2>1. shown' \in SUBSET {"baseline", "enrichment"}
    BY <1>13 DEF Submit
  <2> QED BY <1>13, <2>1, ReturnType DEF Submit
<1>14. CASE Settle
  BY <1>14, ForgetType DEF Settle, PCs
<1>15. CASE Plan
  <2>1. CASE cancelled
    BY <1>15, <2>1, ReturnType DEF Plan
  <2>2. CASE ~cancelled
    <3>1. fix' \in FixStates
      BY <1>15, <2>2 DEF Plan, FixStates, FileTexts
    <3> QED BY <1>15, <2>2, <3>1 DEF Plan, PCs
  <2> QED BY <2>1, <2>2
<1>16. CASE Apply
  <2>1. CASE cancelled \/ \E f \in Files : Stale(f)
    BY <1>16, <2>1, ReturnType DEF Apply
  <2>2. CASE ~(cancelled \/ \E f \in Files : Stale(f))
    <3>1. [f \in Files |-> FirstText(f)] \in FileTexts
      BY DEF FirstText, FileTexts, FixStates
    <3>2. [f \in Files |-> NewText(f)] \in FileTexts
      BY TextFacts DEF NewText, FileTexts, FixStates
    <3> DEFINE bases == [f \in Files |-> IF fix.planned[f] # None THEN Origin(f) ELSE fix.base[f]]
    <3>3. bases \in [Files -> MaybeText \union {Mixed}]
      BY DEF Origin, FileTexts, FixStates
    <3>4. PICK restored \in BOOLEAN :
            /\ fix' = [initial |-> [f \in Files |-> FirstText(f)],
                       current |-> [f \in Files |-> NewText(f)],
                       round |-> fix.round + 1, verified |-> restored, planned |-> Nowhere, base |-> bases]
            /\ obs' = IF restored THEN [obs EXCEPT !.last = obs.first] ELSE obs
      BY <1>16, <2>2 DEF Apply
    <3> HIDE DEF bases
    <3>5. fix' \in FixStates
      BY <3>1, <3>2, <3>3, <3>4, TextFacts DEF FixStates
    <3>6. obs' \in Observations
      BY <3>4 DEF Observations
    <3> QED BY <1>16, <2>2, <3>5, <3>6, ForgetType DEF Apply, PCs
  <2> QED BY <2>1, <2>2
<1>17. CASE Applied
  <2>1. CASE cancelled
    BY <1>17, <2>1, ReturnType DEF Applied
  <2> QED BY <1>17, <2>1 DEF Applied, PCs
<1>18. CASE FinishInMemory
  <2>1. res' \in PipelineResults
    <3>1. req.commits \in BOOLEAN
      BY RequestsAssumption DEF RequestType
    <3> QED BY <1>18, <3>1 DEF FinishInMemory, PipelineResults
  <2> QED BY <1>18, <2>1 DEF FinishInMemory, PCs
<1>19. CASE BeginCommit
  BY <1>19 DEF BeginCommit, FinalChanges, Changed, Commits, PCs
<1>20. CASE PreflightDone
  <2>1. CASE commit.stale
    BY <1>20, <2>1, ValidateType DEF PreflightDone
  <2>2. CASE ~commit.stale
    BY <1>20, <2>2 DEF PreflightDone, FinalChanges, Changed, Commits, PCs
  <2> QED BY <2>1, <2>2
<1>21. CASE WriteDone
  <2>1. (commit.failed \/ commit.todo # {}) \in BOOLEAN
    BY DEF Commits
  <2> QED BY <1>21, <2>1, ValidateType DEF WriteDone
<1>22. ASSUME NEW f \in Files, Preflight(f) PROVE PipelineType'
  <2>1. commit' \in Commits
    BY <1>22 DEF Preflight, ChangedSince, Commits
  <2> QED BY <1>22, <2>1 DEF Preflight
<1>23. ASSUME NEW f \in Files, Write(f) PROVE PipelineType'
  <2>1. disk[f] \in MaybeText /\ fix.current[f] \in MaybeText
    BY DEF FixStates, FileTexts
  <2>2. commit' \in Commits
    <3>1. \/ commit' = [commit EXCEPT !.todo = @ \ {f}, !.replaced[f] = disk[f]]
          \/ commit' = [commit EXCEPT !.todo = @ \ {f}, !.failed = TRUE]
      BY <1>23 DEF Write
    <3>2. [commit.replaced EXCEPT ![f] = disk[f]] \in FileTexts
      BY <2>1 DEF Commits, FileTexts
    <3> QED BY <3>1, <3>2 DEF Commits
  <2>3. res' \in PipelineResults
    BY <1>23 DEF Write, PipelineResults
  <2>4. disk' \in FileTexts
    BY <1>23, <2>1, TextFacts DEF Write, FileTexts
  <2> QED BY <1>23, <2>2, <2>3, <2>4 DEF Write
<1>24. CASE PluginReturns
  BY <1>24 DEF PluginReturns, PluginTasks
<1>25. ASSUME NEW f \in Files, HostReads(f) PROVE PipelineType'
  <2>1. disk[f] \in MaybeText
    BY DEF FileTexts
  <2>2. plug' \in PluginTasks
    BY <1>25, <2>1 DEF HostReads, PluginTasks, FileTexts
  <2> QED BY <1>25, <2>2 DEF HostReads
<1>26. CASE Cancel
  BY <1>26 DEF Cancel
<1>27. ASSUME NEW f \in Files, Edit(f) PROVE PipelineType'
  <2>1. commit' \in Commits
    BY <1>27 DEF Edit, Commits
  <2>2. disk' \in FileTexts
    BY <1>27, TextFacts DEF Edit, FileTexts
  <2> QED BY <1>27, <2>1, <2>2 DEF Edit
<1>28. CASE UNCHANGED vars
  BY <1>28 DEF vars
<1> QED
  BY <1>1, <1>2, <1>3, <1>4, <1>5, <1>6, <1>7, <1>8, <1>9, <1>10, <1>11, <1>12, <1>13, <1>14,
     <1>15, <1>16, <1>17, <1>18, <1>19, <1>20, <1>21, <1>22, <1>23, <1>24, <1>25, <1>26, <1>27, <1>28
     DEF Next, Pipeline, Observation, Autofix, Commit, Plugin, Environment, Terminated

\* The state of a RunPipeline call stays well typed.
THEOREM TypeCorrect == Spec => []PipelineType
BY TypeInit, TypeStep, PTL DEF Spec

-----------------------------------------------------------------------------
(* Who holds the lease, and when plugin work may run.                      *)

LeaseInv ==
    /\ pc \in {"native", "join"} <=> lease = "held"
    /\ pc \notin {"acquire", "load", "native", "join", "done"} => lease = "released"
    /\ pc = "join" => req.plugin = "concurrent"
    /\ plug.state = "running" => IF req.plugin = "concurrent" THEN pc \in {"native", "join"} ELSE pc = "plugin"
    /\ shown # {} => pc \in {"published", "done"} /\ lease = "released"

\* Each step of the pipeline and of its plugin goroutine keeps the lease discipline.
LEMMA LeaseStep == PipelineType /\ LeaseInv /\ [Next]_vars => LeaseInv'
<1> SUFFICES ASSUME PipelineType, LeaseInv, [Next]_vars PROVE LeaseInv'
  OBVIOUS
<1> USE DEF PipelineType, PCs, PluginTasks, LeaseInv
<1>1. CASE AcquireFails
  BY <1>1 DEF AcquireFails, Return
<1>2. CASE Acquire
  BY <1>2 DEF Acquire, IdlePlugin
<1>3. ASSUME NEW f \in Files, LoadFile(f) PROVE LeaseInv'
  BY <1>3 DEF LoadFile
<1>4. CASE PrepareFails
  BY <1>4 DEF PrepareFails, Return
<1>5. CASE Prepare
  BY <1>5 DEF Prepare
<1>6. CASE NativeConcurrent
  BY <1>6 DEF NativeConcurrent
<1>7. CASE Join
  BY <1>7 DEF Join, JoinReady, Closed, NotObserved, Observed, Return
<1>8. CASE NativeDetached
  BY <1>8 DEF NativeDetached, Closed, Return
<1>9. CASE Released
  BY <1>9 DEF Released, StartsDetached, NotObserved, Observed, Return
<1>10. CASE PluginJoined
  BY <1>10 DEF PluginJoined, NotObserved, Observed, Return
<1>11. CASE FinishLint
  BY <1>11 DEF FinishLint, Return
<1>12. CASE PublishBaseline
  BY <1>12 DEF PublishBaseline
<1>13. CASE Submit
  BY <1>13 DEF Submit, Return
<1>14. CASE Settle
  BY <1>14 DEF Settle, Forget, IdlePlugin
<1>15. CASE Plan
  BY <1>15 DEF Plan, Return
<1>16. CASE Apply
  BY <1>16 DEF Apply, Return, Forget, IdlePlugin
<1>17. CASE Applied
  BY <1>17 DEF Applied, Return
<1>18. CASE FinishInMemory
  BY <1>18 DEF FinishInMemory
<1>19. CASE BeginCommit
  BY <1>19 DEF BeginCommit
<1>20. CASE PreflightDone
  BY <1>20 DEF PreflightDone, Validate
<1>21. CASE WriteDone
  BY <1>21 DEF WriteDone, Validate
<1>22. ASSUME NEW f \in Files, Preflight(f) PROVE LeaseInv'
  BY <1>22 DEF Preflight
<1>23. ASSUME NEW f \in Files, Write(f) PROVE LeaseInv'
  BY <1>23 DEF Write
<1>24. CASE PluginReturns
  BY <1>24 DEF PluginReturns
<1>25. ASSUME NEW f \in Files, HostReads(f) PROVE LeaseInv'
  BY <1>25 DEF HostReads
<1>26. CASE Cancel
  BY <1>26 DEF Cancel
<1>27. ASSUME NEW f \in Files, Edit(f) PROVE LeaseInv'
  BY <1>27 DEF Edit
<1>28. CASE UNCHANGED vars
  BY <1>28 DEF vars
<1> QED
  BY <1>1, <1>2, <1>3, <1>4, <1>5, <1>6, <1>7, <1>8, <1>9, <1>10, <1>11, <1>12, <1>13,
     <1>14, <1>15, <1>16, <1>17, <1>18, <1>19, <1>20, <1>21, <1>22, <1>23, <1>24, <1>25,
     <1>26, <1>27, <1>28
     DEF Next, Pipeline, Observation, Autofix, Commit, Plugin, Environment, Terminated

\* Plugin work and publication respect the lease, and RunPipeline returns it, on every path
\* (LeaseDiscipline).
THEOREM LeaseKept == Spec => []LeaseDiscipline
<1>1. Init => LeaseInv
  BY DEF Init, LeaseInv, IdlePlugin
<1>2. PipelineType /\ LeaseInv => LeaseDiscipline
  BY DEF PipelineType, LeaseInv, LeaseDiscipline
<1> QED BY <1>1, <1>2, LeaseStep, TypeCorrect, PTL DEF Spec

-----------------------------------------------------------------------------
(* What a verified result has observed.                                    *)

Observing == {"load", "native", "join", "released", "plugin", "observed"}

VerifiedInv ==
    /\ pc \in Observing => \A f \in Changed : gen[f] = fix.current[f]
    /\ pc = "observed" /\ req.kind = "autofix" => fix.verified
    /\ fix.verified => \A f \in Changed : obs.last[f] = fix.current[f]
    /\ pc = "commit" /\ Changed # {} /\ req.verifyLast => fix.verified
    /\ pc \in {"preflight", "write"} => fix.verified
    /\ res.confirmed # {} => fix.verified /\ pc \in {"write", "done"}

\* What an observation leaves of the fix state, and what it reports.
LEMMA ObservedFacts ==
    ASSUME PipelineType, Observed
    PROVE  /\ pc' = "observed" /\ res' = res
           /\ fix'.initial = fix.initial /\ fix'.current = fix.current /\ fix'.planned = fix.planned
           /\ fix'.base = fix.base
           /\ fix'.verified \in BOOLEAN /\ (fix'.verified <=> req.kind = "autofix")
           /\ obs'.last = gen
BY DEF PipelineType, Observed, FixStates, Observations

\* What a failed observation changes.
LEMMA NotObservedFacts ==
    ASSUME PipelineType, NotObserved
    PROVE  /\ pc' = "done" /\ fix' = fix /\ obs' = obs
           /\ (res'.committed <=> res.committed) /\ res'.confirmed = res.confirmed /\ res'.outcome = "error"
BY DEF PipelineType, NotObserved, Return, PipelineResults

\* What applying a plan does to the fix state.
LEMMA AppliedFacts ==
    ASSUME PipelineType, Apply
    PROVE  \/ /\ pc' = "done" /\ fix' = fix /\ obs' = obs
              /\ (res'.committed <=> res.committed) /\ res'.confirmed = res.confirmed /\ res'.outcome = "error"
           \/ /\ pc' = "applied" /\ res' = res /\ \A f \in Files : ~Stale(f)
              /\ fix'.initial = [f \in Files |-> FirstText(f)]
              /\ fix'.current = [f \in Files |-> NewText(f)]
              /\ fix'.verified \in BOOLEAN /\ (fix'.verified <=> \A f \in Files : NewText(f) = None)
              /\ fix'.base = [f \in Files |-> IF fix.planned[f] # None THEN Origin(f) ELSE fix.base[f]]
<1>1. CASE cancelled \/ \E f \in Files : Stale(f)
  BY <1>1 DEF Apply, Return, PipelineType, PipelineResults
<1>2. CASE ~(cancelled \/ \E f \in Files : Stale(f))
  <2> DEFINE restored == \A f \in Files : NewText(f) = None
             bases == [f \in Files |-> IF fix.planned[f] # None THEN Origin(f) ELSE fix.base[f]]
  <2>1. fix' = [initial |-> [f \in Files |-> FirstText(f)], current |-> [f \in Files |-> NewText(f)],
                round |-> fix.round + 1, verified |-> restored, planned |-> Nowhere, base |-> bases]
    BY <1>2 DEF Apply
  <2>2. restored \in BOOLEAN
    OBVIOUS
  <2> HIDE DEF restored, bases
  <2>3. /\ fix'.initial = [f \in Files |-> FirstText(f)] /\ fix'.current = [f \in Files |-> NewText(f)]
        /\ fix'.verified = restored /\ fix'.base = bases
    BY <2>1
  <2> QED BY <1>2, <2>2, <2>3 DEF Apply, restored, bases
<1> QED BY <1>1, <1>2

\* What was observed is what was changed, from the first round to the committed one.
LEMMA VerifiedStep == PipelineType /\ VerifiedInv /\ [Next]_vars => VerifiedInv'
<1> SUFFICES ASSUME PipelineType, VerifiedInv, [Next]_vars PROVE VerifiedInv'
  OBVIOUS
<1> USE DEF PipelineType, PCs, FixStates, Observations, PipelineResults, VerifiedInv, Observing, Changed
<1>1. CASE AcquireFails
  BY <1>1 DEF AcquireFails, Return
<1>2. CASE Acquire
  BY <1>2, TextFacts DEF Acquire, GenerationStart, Initial, FileTexts
<1>3. ASSUME NEW f \in Files, LoadFile(f) PROVE VerifiedInv'
  BY <1>3 DEF LoadFile, FileTexts
<1>4. CASE PrepareFails
  BY <1>4 DEF PrepareFails, Return
<1>5. CASE Prepare
  BY <1>5 DEF Prepare
<1>6. CASE NativeConcurrent
  BY <1>6 DEF NativeConcurrent
<1>7. CASE Join
  BY <1>7, ObservedFacts, NotObservedFacts DEF Join
<1>8. CASE NativeDetached
  BY <1>8 DEF NativeDetached, Closed, Return
<1>9. CASE Released
  BY <1>9, ObservedFacts, NotObservedFacts DEF Released
<1>10. CASE PluginJoined
  BY <1>10, ObservedFacts, NotObservedFacts DEF PluginJoined
<1>11. CASE FinishLint
  BY <1>11 DEF FinishLint, Return
<1>12. CASE PublishBaseline
  BY <1>12 DEF PublishBaseline
<1>13. CASE Submit
  BY <1>13 DEF Submit, Return
<1>14. CASE Settle
  BY <1>14 DEF Settle
<1>15. CASE Plan
  BY <1>15 DEF Plan, Return
<1>16. CASE Apply
  <2>1. pc' = "applied" /\ fix'.verified => Changed' = {}
    BY <1>16, AppliedFacts
  <2> QED BY <1>16, <2>1, AppliedFacts DEF Apply
<1>17. CASE Applied
  BY <1>17 DEF Applied, Return, Again
<1>18. CASE FinishInMemory
  BY <1>18 DEF FinishInMemory
<1>19. CASE BeginCommit
  BY <1>19, CommitterAssumption DEF BeginCommit, FinalChanges
<1>20. CASE PreflightDone
  BY <1>20 DEF PreflightDone, Validate
<1>21. CASE WriteDone
  BY <1>21 DEF WriteDone, Validate
<1>22. ASSUME NEW f \in Files, Preflight(f) PROVE VerifiedInv'
  BY <1>22 DEF Preflight
<1>23. ASSUME NEW f \in Files, Write(f) PROVE VerifiedInv'
  BY <1>23 DEF Write
<1>24. CASE PluginReturns
  BY <1>24 DEF PluginReturns
<1>25. ASSUME NEW f \in Files, HostReads(f) PROVE VerifiedInv'
  BY <1>25 DEF HostReads
<1>26. CASE Cancel
  BY <1>26 DEF Cancel
<1>27. ASSUME NEW f \in Files, Edit(f) PROVE VerifiedInv'
  BY <1>27 DEF Edit
<1>28. CASE UNCHANGED vars
  BY <1>28 DEF vars
<1> QED
  BY <1>1, <1>2, <1>3, <1>4, <1>5, <1>6, <1>7, <1>8, <1>9, <1>10, <1>11, <1>12, <1>13,
     <1>14, <1>15, <1>16, <1>17, <1>18, <1>19, <1>20, <1>21, <1>22, <1>23, <1>24, <1>25,
     <1>26, <1>27, <1>28
     DEF Next, Pipeline, Observation, Autofix, Commit, Plugin, Environment, Terminated

\* A verified result has observed its final texts, and only verified texts are written
\* (VerifiedObservesChanges).
THEOREM VerifiedHolds == Spec => []VerifiedObservesChanges
<1>1. Init => VerifiedInv
  BY DEF Init, VerifiedInv, Changed, Observing
<1>2. VerifiedInv => VerifiedObservesChanges
  BY DEF VerifiedInv, VerifiedObservesChanges, FinalChanges
<1> QED BY <1>1, <1>2, VerifiedStep, TypeCorrect, PTL DEF Spec

-----------------------------------------------------------------------------
(* The text that the fixes of every round are based on.                    *)

Working == {"native", "join", "released", "plugin", "observed", "apply"}

\* A plugin that is sent the texts has the generation's, in every round.
ReadsGeneration ==
    /\ pc \in Working => \A f \in Files : gen[f] # None
    /\ ~req.hostReads /\ pc \in Working =>
         /\ plug.inline
         /\ \A f \in Files : /\ plug.read[f] \in {None, gen[f]}
                             /\ f \in plug.fixes => plug.read[f] # None

\* The first text of a changed file is known.
ChangedTouched == Changed \subseteq Touched

BaseInv == FixesBuildOnBefore /\ ReadsGeneration /\ ChangedTouched

\* Every round builds on the one before, whatever is saved on disk in between.
LEMMA BaseStep == PipelineType /\ BaseInv /\ [Next]_vars => BaseInv'
<1> SUFFICES ASSUME PipelineType, BaseInv, [Next]_vars PROVE BaseInv'
  OBVIOUS
<1> USE DEF PipelineType, PCs, PluginTasks, FixStates, Working, Changed, FinalChanges, Touched, BaseInv, FixesBuildOnBefore, ReadsGeneration, ChangedTouched
<1>1. CASE AcquireFails
  BY <1>1 DEF AcquireFails, Return
<1>2. CASE Acquire
  BY <1>2 DEF Acquire
<1>3. ASSUME NEW f \in Files, LoadFile(f) PROVE BaseInv'
  BY <1>3 DEF LoadFile
<1>4. CASE PrepareFails
  BY <1>4 DEF PrepareFails, Return
<1>5. CASE Prepare
  <2>1. PICK files \in SUBSET Files :
          /\ plug'.inline = Inline /\ plug'.fixes = {}
          /\ plug'.read = [f \in Files |-> IF Inline /\ f \in files THEN gen[f] ELSE None]
    BY <1>5, PreparedFacts
  <2>2. ~req.hostReads => Inline
    BY DEF Inline
  <2>3. gen' = gen /\ req' = req /\ fix' = fix /\ \A f \in Files : gen[f] # None
    BY <1>5 DEF Prepare
  <2> QED BY <2>1, <2>2, <2>3
<1>6. CASE NativeConcurrent
  BY <1>6 DEF NativeConcurrent
<1>7. CASE Join
  BY <1>7, ObservedFacts, NotObservedFacts DEF Join
<1>8. CASE NativeDetached
  BY <1>8 DEF NativeDetached, Return
<1>9. CASE Released
  BY <1>9, ObservedFacts, NotObservedFacts DEF Released
<1>10. CASE PluginJoined
  BY <1>10, ObservedFacts, NotObservedFacts DEF PluginJoined
<1>11. CASE FinishLint
  BY <1>11 DEF FinishLint, Return
<1>12. CASE PublishBaseline
  BY <1>12 DEF PublishBaseline
<1>13. CASE Submit
  BY <1>13 DEF Submit, Return
<1>14. CASE Settle
  BY <1>14 DEF Settle
<1>15. CASE Plan
  BY <1>15 DEF Plan, Return
<1>16. CASE Apply
  <2>1. CASE pc' = "done"
    BY <1>16, <2>1, AppliedFacts DEF Apply
  <2>2. CASE pc' = "applied"
    <3>1. /\ \A f \in Files : ~Stale(f)
          /\ fix'.initial = [f \in Files |-> FirstText(f)]
          /\ fix'.current = [f \in Files |-> NewText(f)]
          /\ fix'.base = [f \in Files |-> IF fix.planned[f] # None THEN Origin(f) ELSE fix.base[f]]
      BY <1>16, <2>2, AppliedFacts
    <3>2. req' = req /\ pc = "apply"
      BY <1>16 DEF Apply
    <3>3. ASSUME NEW f \in Files, NewText(f) # None PROVE FirstText(f) # None
      BY <3>2, <3>3 DEF NewText, FirstText
    <3>4. ASSUME ~req.hostReads, NEW f \in Files, NewText(f) # None, fix.planned[f] # None
          PROVE  Origin(f) = FirstText(f)
      <4>1. ~(f \in plug.fixes /\ plug.read[f] # gen[f])
        BY <3>2, <3>4
      <4>2. CASE fix.current[f] # None
        BY <4>1, <4>2, <3>4 DEF Origin, FirstText
      <4>3. CASE fix.current[f] = None
        BY <4>1, <4>3, <3>1, <3>4 DEF Origin, FirstText, Stale, KnownText
      <4> QED BY <4>2, <4>3
    <3>5. ASSUME ~req.hostReads, NEW f \in Files, NewText(f) # None, fix.planned[f] = None
          PROVE  fix.base[f] = FirstText(f)
      BY <3>5 DEF NewText, FirstText
    <3>6. FixesBuildOnBefore'
      BY <3>1, <3>2, <3>4, <3>5
    <3>7. ReadsGeneration' /\ ChangedTouched'
      BY <2>2, <3>1, <3>3
    <3> QED BY <3>6, <3>7
  <2> QED BY <1>16, <2>1, <2>2, AppliedFacts
<1>17. CASE Applied
  BY <1>17 DEF Applied, Return
<1>18. CASE FinishInMemory
  BY <1>18 DEF FinishInMemory
<1>19. CASE BeginCommit
  BY <1>19 DEF BeginCommit
<1>20. CASE PreflightDone
  BY <1>20 DEF PreflightDone, Validate
<1>21. CASE WriteDone
  BY <1>21 DEF WriteDone, Validate
<1>22. ASSUME NEW f \in Files, Preflight(f) PROVE BaseInv'
  BY <1>22 DEF Preflight
<1>23. ASSUME NEW f \in Files, Write(f) PROVE BaseInv'
  BY <1>23 DEF Write
<1>24. CASE PluginReturns
  BY <1>24 DEF PluginReturns
<1>25. ASSUME NEW f \in Files, HostReads(f) PROVE BaseInv'
  BY <1>25 DEF HostReads
<1>26. CASE Cancel
  BY <1>26 DEF Cancel
<1>27. ASSUME NEW f \in Files, Edit(f) PROVE BaseInv'
  BY <1>27 DEF Edit
<1>28. CASE UNCHANGED vars
  BY <1>28 DEF vars
<1> QED
  BY <1>1, <1>2, <1>3, <1>4, <1>5, <1>6, <1>7, <1>8, <1>9, <1>10, <1>11, <1>12, <1>13,
     <1>14, <1>15, <1>16, <1>17, <1>18, <1>19, <1>20, <1>21, <1>22, <1>23, <1>24, <1>25,
     <1>26, <1>27, <1>28
     DEF Next, Pipeline, Observation, Autofix, Commit, Plugin, Environment, Terminated

\* What a commit writes is computed, round upon round, from the text its preflight compares
\* with, whatever others save meanwhile and however often (FixesBuildOnBefore).
THEOREM RoundsBuildOnBefore == Spec => []FixesBuildOnBefore
<1>1. Init => BaseInv
  BY DEF Init, BaseInv, FixesBuildOnBefore, ReadsGeneration, ChangedTouched, FinalChanges,
       Changed, Touched, Working, Nowhere
<1>2. BaseInv => FixesBuildOnBefore
  BY DEF BaseInv
<1> QED BY <1>1, <1>2, BaseStep, TypeCorrect, PTL DEF Spec

-----------------------------------------------------------------------------
(* What the preflight and the write loop know of the disk.                 *)

\* What a write, complete or not, does to the committer's books.
LEMMA WriteFacts ==
    ASSUME PipelineType, NEW f \in Files, Write(f)
    PROVE  /\ commit'.todo = commit.todo \ {f} /\ commit'.stale = commit.stale /\ commit'.raced = commit.raced
           /\ \/ /\ disk' = [disk EXCEPT ![f] = fix.current[f]] /\ commit'.failed = commit.failed
                 /\ commit'.replaced = [commit.replaced EXCEPT ![f] = disk[f]]
                 /\ res' = [res EXCEPT !.confirmed = @ \union {f}]
              \/ /\ disk' \in {disk, [disk EXCEPT ![f] = "partial"]} /\ commit'.failed = TRUE
                 /\ commit'.replaced = commit.replaced /\ res' = res
BY DEF Write, PipelineType, Commits

Unraced(f) == disk[f] = fix.initial[f] \/ f \in commit.raced

\* A file that has passed its preflight was untouched, or was edited since.
Checked ==
    /\ pc \in {"preflight", "write"} => commit.todo \subseteq Changed
    /\ pc = "preflight" /\ ~commit.stale => \A f \in Changed \ commit.todo : Unraced(f)
    /\ pc = "write" => \A f \in commit.todo : Unraced(f)

NothingWritten ==
    /\ pc \notin {"write", "done"} => res.confirmed = {} /\ commit.replaced = Nowhere
    /\ pc # "done" => ~res.committed
    /\ pc = "published" => req.kind = "progressive"

\* The confirmed files are the visited ones whose write did not fail.
Accounted ==
    /\ pc = "write" => /\ res.confirmed \subseteq Changed \ commit.todo
                       /\ ~commit.failed => res.confirmed = Changed \ commit.todo
    /\ \A f \in res.confirmed : disk[f] = fix.current[f] \/ f \in commit.raced

CommitInv == Checked /\ NothingWritten /\ Accounted /\ EarlierEditsSurvive /\ CommitReported

\* Only an autofix request commits.
LEMMA Committing == req \in Requests /\ req.commits => req.kind = "autofix"
BY RequestsAssumption DEF Validated

\* The commit keeps its books on every path, cancelled and failed ones too.
LEMMA CommitStep == PipelineType /\ CommitInv /\ [Next]_vars => CommitInv'
<1> SUFFICES ASSUME PipelineType, CommitInv, [Next]_vars PROVE CommitInv'
  OBVIOUS
<1> USE DEF PipelineType, PCs, FixStates, Commits, PipelineResults, Changed, FinalChanges, Unraced, CommitInv, Checked, NothingWritten, Accounted, EarlierEditsSurvive, CommitReported
<1>1. CASE AcquireFails
  BY <1>1 DEF AcquireFails, Return
<1>2. CASE Acquire
  BY <1>2 DEF Acquire
<1>3. ASSUME NEW f \in Files, LoadFile(f) PROVE CommitInv'
  BY <1>3 DEF LoadFile
<1>4. CASE PrepareFails
  BY <1>4 DEF PrepareFails, Return
<1>5. CASE Prepare
  BY <1>5 DEF Prepare
<1>6. CASE NativeConcurrent
  BY <1>6 DEF NativeConcurrent
<1>7. CASE Join
  BY <1>7, ObservedFacts, NotObservedFacts DEF Join
<1>8. CASE NativeDetached
  BY <1>8 DEF NativeDetached, Closed, Return
<1>9. CASE Released
  BY <1>9, ObservedFacts, NotObservedFacts DEF Released
<1>10. CASE PluginJoined
  BY <1>10, ObservedFacts, NotObservedFacts DEF PluginJoined
<1>11. CASE FinishLint
  BY <1>11, Committing DEF FinishLint, Return
<1>12. CASE PublishBaseline
  BY <1>12 DEF PublishBaseline
<1>13. CASE Submit
  BY <1>13, Committing DEF Submit, Return
<1>14. CASE Settle
  BY <1>14 DEF Settle
<1>15. CASE Plan
  BY <1>15 DEF Plan, Return
<1>16. CASE Apply
  <2>1. pc = "apply" /\ commit' = commit /\ disk' = disk /\ req' = req
    BY <1>16 DEF Apply
  <2>2. /\ pc' \in {"done", "applied"} /\ (pc' = "applied" => res' = res)
        /\ ~res'.committed /\ res'.confirmed = {}
        /\ pc' = "done" => res'.outcome = "error"
    <3>1. res.confirmed = {} /\ ~res.committed
      BY <2>1
    <3> QED BY <1>16, <3>1, AppliedFacts
  <2>3. EarlierEditsSurvive'
    BY <2>1 DEF Nowhere
  <2> QED BY <2>1, <2>2, <2>3
<1>17. CASE Applied
  BY <1>17 DEF Applied, Return
<1>18. CASE FinishInMemory
  <2>1. Checked'
    BY <1>18 DEF FinishInMemory
  <2>2. NothingWritten'
    BY <1>18 DEF FinishInMemory
  <2>3. Accounted'
    BY <1>18 DEF FinishInMemory
  <2>4. EarlierEditsSurvive'
    BY <1>18 DEF FinishInMemory
  <2>5. CommitReported'
    BY <1>18, ZenonT(60) DEF FinishInMemory
  <2> QED BY <2>1, <2>2, <2>3, <2>4, <2>5
<1>19. CASE BeginCommit
  BY <1>19 DEF BeginCommit
<1>20. CASE PreflightDone
  <2>1. Checked'
    BY <1>20 DEF PreflightDone, Validate
  <2>2. NothingWritten'
    BY <1>20 DEF PreflightDone, Validate
  <2>3. Accounted'
    <3>1. res'.confirmed = {} /\ (pc' = "write" => commit'.todo = Changed /\ fix' = fix)
      <4>1. CASE commit.stale
        BY <1>20, <4>1, ValidateFacts DEF PreflightDone
      <4>2. CASE ~commit.stale
        BY <1>20, <4>2 DEF PreflightDone
      <4> QED BY <4>1, <4>2
    <3> QED BY <3>1
  <2>4. EarlierEditsSurvive'
    BY <1>20 DEF PreflightDone, Validate
  <2>5. CommitReported'
    BY <1>20, ZenonT(60) DEF PreflightDone, Validate
  <2> QED BY <2>1, <2>2, <2>3, <2>4, <2>5
<1>21. CASE WriteDone
  <2>1. Checked'
    BY <1>21 DEF WriteDone, Validate
  <2>2. NothingWritten'
    BY <1>21 DEF WriteDone, Validate
  <2>3. Accounted'
    BY <1>21 DEF WriteDone, Validate
  <2>4. EarlierEditsSurvive'
    BY <1>21 DEF WriteDone, Validate
  <2>5. CommitReported'
    BY <1>21 DEF WriteDone, Validate
  <2> QED BY <2>1, <2>2, <2>3, <2>4, <2>5
<1>22. ASSUME NEW f \in Files, Preflight(f) PROVE CommitInv'
  <2>1. Checked'
    <3>1. commit'.stale \in BOOLEAN /\ (~commit'.stale => ~commit.stale /\ ~ChangedSince(f) /\ ~cancelled)
      BY <1>22 DEF Preflight
    <3>2. commit'.todo = (IF cancelled THEN {} ELSE commit.todo \ {f}) /\ commit'.raced = commit.raced
      BY <1>22 DEF Preflight
    <3> QED BY <1>22, <3>1, <3>2 DEF Preflight, ChangedSince
  <2>2. NothingWritten'
    BY <1>22 DEF Preflight
  <2>3. Accounted'
    BY <1>22 DEF Preflight
  <2>4. EarlierEditsSurvive'
    BY <1>22 DEF Preflight
  <2>5. CommitReported'
    BY <1>22 DEF Preflight
  <2> QED BY <2>1, <2>2, <2>3, <2>4, <2>5
<1>23. ASSUME NEW f \in Files, Write(f) PROVE CommitInv'
  <2>1. /\ pc = "write" /\ pc' = pc /\ fix' = fix /\ req' = req /\ f \in commit.todo
        /\ commit'.todo = commit.todo \ {f} /\ commit'.raced = commit.raced
    BY <1>23, WriteFacts DEF Write
  <2>2. \A g \in Files \ {f} : disk'[g] = disk[g]
    BY <1>23 DEF Write, FileTexts
  <2>3. Checked'
    BY <2>1, <2>2
  <2>4. NothingWritten'
    BY <1>23, <2>1, WriteFacts, ZenonT(60)
  <2>5. CASE /\ disk' = [disk EXCEPT ![f] = fix.current[f]] /\ commit'.failed = commit.failed
             /\ commit'.replaced = [commit.replaced EXCEPT ![f] = disk[f]]
             /\ res' = [res EXCEPT !.confirmed = @ \union {f}]
    <3>1. res'.confirmed = res.confirmed \union {f} /\ disk'[f] = fix.current[f]
      BY <2>5 DEF FileTexts
    <3>2. Accounted'
      BY <2>1, <2>2, <2>5, <3>1
    <3>3. EarlierEditsSurvive'
      BY <2>1, <2>5 DEF FileTexts
    <3> QED BY <2>1, <2>3, <2>4, <3>2, <3>3
  <2>6. CASE commit'.failed = TRUE /\ commit'.replaced = commit.replaced /\ res' = res
    <3>1. Accounted'
      BY <2>1, <2>2, <2>6
    <3> QED BY <2>1, <2>3, <2>4, <2>6, <3>1
  <2> QED BY <1>23, <2>5, <2>6, WriteFacts
<1>24. CASE PluginReturns
  BY <1>24 DEF PluginReturns
<1>25. ASSUME NEW f \in Files, HostReads(f) PROVE CommitInv'
  BY <1>25 DEF HostReads
<1>26. CASE Cancel
  BY <1>26 DEF Cancel
<1>27. ASSUME NEW f \in Files, Edit(f) PROVE CommitInv'
  <2>1. Checked'
    BY <1>27 DEF Edit, FileTexts
  <2>2. NothingWritten'
    BY <1>27 DEF Edit, FileTexts
  <2>3. Accounted'
    BY <1>27 DEF Edit, FileTexts
  <2>4. EarlierEditsSurvive'
    BY <1>27 DEF Edit, FileTexts
  <2>5. CommitReported'
    BY <1>27 DEF Edit, FileTexts
  <2> QED BY <2>1, <2>2, <2>3, <2>4, <2>5
<1>28. CASE UNCHANGED vars
  BY <1>28 DEF vars
<1> QED
  BY <1>1, <1>2, <1>3, <1>4, <1>5, <1>6, <1>7, <1>8, <1>9, <1>10, <1>11, <1>12, <1>13,
     <1>14, <1>15, <1>16, <1>17, <1>18, <1>19, <1>20, <1>21, <1>22, <1>23, <1>24, <1>25,
     <1>26, <1>27, <1>28
     DEF Next, Pipeline, Observation, Autofix, Commit, Plugin, Environment, Terminated

\* The commit's bookkeeping holds from the start.
LEMMA CommitCorrect == Spec => []CommitInv
<1>1. Init => CommitInv
  BY DEF Init, CommitInv, Checked, NothingWritten, Accounted, EarlierEditsSurvive, CommitReported, Nowhere
<1> QED BY <1>1, CommitStep, TypeCorrect, PTL DEF Spec

\* A write never replaces somebody's edit that the preflight could see (EarlierEditsSurvive).
THEOREM EditsSurvive == Spec => []EarlierEditsSurvive
BY CommitCorrect, PTL DEF CommitInv

\* The result tells what reached the disk (CommitReported).
THEOREM CommitIsReported == Spec => []CommitReported
BY CommitCorrect, PTL DEF CommitInv
=============================================================================
