------------------------- MODULE HardeningTypeProofs -------------------------
(***************************************************************************)
(* Type correctness of WorkloadHardening, for every set of checks, every   *)
(* bound and every combination of faults, and the facts about the status   *)
(* writes that the other proofs use.                                       *)
(***************************************************************************)
EXTENDS WorkloadHardening, TLAPS

(* The initial status and the reset values of Reconcile are well typed.    *)
LEMMA EmptyType ==
  /\ EmptyStatus \in Status
  /\ NoRuns \in [Checks -> Reports]
  /\ LoopDone \in [Checks -> LoopSteps]
  /\ IdleRunner \in Runner
BY DEF EmptyStatus, Status, NoRuns, LoopDone, LoopSteps, Reports, CondValues, FinishedValues,
       IdleRunner, Runner, RunnerSteps, Outcomes

(* CondOf maps each run type to a condition.                               *)
LEMMA CondOfType ==
  ASSUME NEW t \in RunTypes PROVE CondOf(t) \in Conds
BY DEF CondOf, Conds, RunTypes, Baselines

(* SetCondition changes one condition of a status and nothing else.        *)
LEMMA SetConditionType ==
  ASSUME NEW s \in Status, NEW c \in Conds, NEW v \in CondValues
  PROVE  /\ SetCondition(s, c, v) \in Status
         /\ SetCondition(s, c, v).cond[c] \in {v, s.cond[c]}
         /\ \A d \in Conds \ {c} : SetCondition(s, c, v).cond[d] = s.cond[d]
         /\ SetCondition(s, c, v).finished = s.finished
         /\ SetCondition(s, c, v).recommended = s.recommended
         /\ SetCondition(s, c, v).merged = s.merged
         /\ SetCondition(s, c, v).checkRuns = s.checkRuns
         /\ SetCondition(s, c, v).finalRun = s.finalRun
BY DEF SetCondition, Status, CondValues

(* What the other writes do to the type.                                   *)
LEMMA SetFinishedType ==
  ASSUME NEW s \in Status, NEW f \in FinishedValues
  PROVE  SetFinished(s, f) \in Status
BY DEF SetFinished, Status

(* RemoveCheckConditions leaves a status.                                  *)
LEMMA RemoveType ==
  ASSUME NEW s \in Status PROVE RemoveCheckConditions(s) \in Status
BY DEF RemoveCheckConditions, Status, CondValues

(* So does the Unknown condition GetRequiredCheckRuns adds.                *)
LEMMA AddNotStartedType ==
  ASSUME NEW s \in Status PROVE AddNotStarted(s) \in Status
BY DEF AddNotStarted, Status, CondValues

(* So does the update that adds a run of a known type.                     *)
LEMMA AddRunType ==
  ASSUME NEW s \in Status, NEW t \in RunTypes, NEW o \in Outcomes
  PROVE  AddRun(s, t, o) \in Status
BY DEF AddRun, Status, Reports, Outcomes, RunTypes

(* What Reconcile keeps of a fetched object is a status.                   *)
LEMMA ViewType ==
  ASSUME NEW s \in Status
  PROVE  View(s) \in Status /\ View(s).recommended = s.recommended
BY DEF View, EmptyStatus, Status, CondValues, FinishedValues, Reports

(* The single fields Reconcile overwrites keep their types.                *)
LEMMA FieldTypes ==
  ASSUME NEW s \in Status
  PROVE  /\ \A b \in BOOLEAN : [s EXCEPT !.analysis = b] \in Status
         /\ \A b \in BOOLEAN : [s EXCEPT !.finished = "no", !.analysis = b] \in Status
         /\ \A b \in BOOLEAN : [s EXCEPT !.analysis = b, !.finished = "no"] \in Status
         /\ \A m \in [Checks -> Reports] : [s EXCEPT !.checkRuns = m] \in Status
         /\ \A M \in SUBSET Checks :
              [s EXCEPT !.recommended = TRUE, !.merged = M] \in Status
         /\ \A c \in Conds : [s EXCEPT !.cond[c] = "Overdue"] \in Status
BY DEF Status, CondValues, FinishedValues, Reports

---------------------------------------------------------------------------
(* Type correctness.                                                       *)

(* A status write, lost or not, leaves a status.                           *)
LEMMA WriteType ==
  ASSUME status \in Status, NEW new \in Status
  PROVE  /\ Update(new) => status' \in Status
         /\ MayUpdate(new) => status' \in Status
         /\ TryUpdate(new) => status' \in Status
BY DEF Update, MayUpdate, TryUpdate

(* A fault keeps the fault counter in its range.                           *)
LEMMA FaultType ==
  ASSUME faults \in 0..MaxFaults, NEW kind
  PROVE  Fault(kind) => faults' \in 0..MaxFaults
BY BoundAssumption DEF Fault

(* So does a write that may be lost by a fault.                            *)
LEMMA TryFaultType ==
  ASSUME faults \in 0..MaxFaults, NEW new
  PROVE  TryUpdate(new) => faults' \in 0..MaxFaults
BY FaultType DEF TryUpdate

(* Moving a runner on, starting one and letting it return.                 *)
LEMMA RunnerMoves ==
  ASSUME run \in [Runners -> Runner]
  PROVE  /\ \A r \in Runners, step \in RunnerSteps :
              GoTo(r, step) => run' \in [Runners -> Runner]
         /\ \A r \in Runners : Return(r) => run' \in [Runners -> Runner]
         /\ \A t \in RunTypes : Launch(t) => run' \in [Runners -> Runner]
<1>1. ASSUME NEW r \in Runners, NEW step \in RunnerSteps, GoTo(r, step)
      PROVE  run' \in [Runners -> Runner]
  BY <1>1 DEF GoTo, Runner
<1>2. ASSUME NEW r \in Runners, Return(r)
      PROVE  run' \in [Runners -> Runner]
  BY <1>2, EmptyType DEF Return
<1>3. ASSUME NEW t \in RunTypes, Launch(t)
      PROVE  run' \in [Runners -> Runner]
  <2>1. PICK k \in 1..MaxCopies : run' = [run EXCEPT ![<<t, k>>] =
                 [pc      |-> "start",
                  unknown |-> snap.cond[CondOf(t)] = "Unknown",
                  outcome |-> "bad"]]
    BY <1>3 DEF Launch
  <2>2. [pc |-> "start", unknown |-> snap.cond[CondOf(t)] = "Unknown",
         outcome |-> "bad"] \in Runner
    BY DEF Runner, RunnerSteps, Outcomes
  <2>. QED BY <2>1, <2>2
<1>. QED BY <1>1, <1>2, <1>3

(* StoreRecording only adds recordings.                                    *)
LEMMA StoreType ==
  ASSUME NEW t \in RunTypes, NEW o, StoreRecording(t, o),
         valkey \subseteq RunTypes, stored \subseteq RunTypes, ready \subseteq RunTypes
  PROVE  valkey' \subseteq RunTypes /\ stored' \subseteq RunTypes /\ ready' \subseteq RunTypes
BY DEF StoreRecording

(* The run type and the condition of a runner are in range.                *)
LEMMA RunnerTypes ==
  ASSUME NEW r \in Runners
  PROVE  TypeOf(r) \in RunTypes /\ Cond(r) \in Conds
BY CondOfType DEF Runners, TypeOf, Cond

(* Every step of a runner keeps the types.                                 *)
LEMMA RunnerTypeOK ==
  ASSUME TypeOK, NEW r \in Runners, RunnerStep(r) PROVE TypeOK'
<1>0. /\ TypeOf(r) \in RunTypes /\ Cond(r) \in Conds
      /\ run[r] \in Runner /\ run[r].outcome \in Outcomes
  BY RunnerTypes DEF TypeOK, Runner
<1>t. /\ StatusFailed(r) \in Status /\ StatusRunning(r) \in Status
      /\ SetCondition(StatusFailed(r), Cond(r), "Recording") \in Status
      /\ SetCondition(status, Cond(r), "Recorded") \in Status
      /\ AddRun(status, TypeOf(r), run[r].outcome) \in Status
  BY <1>0, SetConditionType, AddRunType DEF TypeOK, StatusFailed, StatusRunning, CondValues
<1>1. CASE RunnerStart(r)
  BY <1>1, <1>0, FaultType
  DEF RunnerStart, TypeOK, runnerKeeps, reconcilerVars, recordings, Runner,
      RunnerSteps, Deleted, NamespaceStates
<1>2. CASE RunnerEnsureNamespace(r)
  BY <1>2, <1>0, <1>t, WriteType, FaultType, TryFaultType, RunnerMoves
  DEF RunnerEnsureNamespace, TypeOK, runnerKeeps, reconcilerVars, recordings, RunnerSteps
<1>3. CASE RunnerClone(r)
  BY <1>3, <1>0, FaultType, RunnerMoves
  DEF RunnerClone, TypeOK, runnerKeeps, reconcilerVars, recordings, RunnerSteps, NamespaceStates
<1>4. CASE RunnerPopulate(r)
  BY <1>4, <1>0, <1>t, WriteType, FaultType, TryFaultType, RunnerMoves
  DEF RunnerPopulate, TypeOK, runnerKeeps, reconcilerVars, recordings, RunnerSteps, NamespaceStates
<1>5. CASE RunnerPrepare(r)
  BY <1>5, <1>0, <1>t, WriteType, FaultType, TryFaultType, RunnerMoves
  DEF RunnerPrepare, TypeOK, runnerKeeps, reconcilerVars, recordings, RunnerSteps
<1>6. CASE RunnerPodsUpdated(r)
  BY <1>6, <1>0, <1>t, WriteType, TryFaultType, RunnerMoves
  DEF RunnerPodsUpdated, TypeOK, runnerKeeps, reconcilerVars, recordings, RunnerSteps
<1>7. CASE RunnerWaitTimeout(r)
  BY <1>7, <1>0, <1>t, WriteType, FaultType, TryFaultType, RunnerMoves
  DEF RunnerWaitTimeout, TypeOK, runnerKeeps, reconcilerVars, recordings, RunnerSteps
<1>8. CASE RunnerTimeoutRecord(r)
  BY <1>8, <1>0, <1>t, WriteType, FaultType, RunnerMoves, StoreType
  DEF RunnerTimeoutRecord, TypeOK, runnerKeeps, reconcilerVars, recordings, RunnerSteps,
      NamespaceStates
<1>9. CASE RunnerRecord(r)
  BY <1>9, <1>0, <1>t, WriteType, FaultType, RunnerMoves, StoreType
  DEF RunnerRecord, TypeOK, runnerKeeps, reconcilerVars, recordings, RunnerSteps, Runner
<1>10. CASE RunnerSetFinished(r)
  BY <1>10, <1>0, <1>t, WriteType, TryFaultType, RunnerMoves
  DEF RunnerSetFinished, TypeOK, runnerKeeps, reconcilerVars, recordings, RunnerSteps
<1>11. CASE RunnerReport(r)
  BY <1>11, <1>0, <1>t, WriteType, TryFaultType, RunnerMoves
  DEF RunnerReport, TypeOK, runnerKeeps, reconcilerVars, recordings, RunnerSteps
<1>12. CASE RunnerCleanup(r)
  BY <1>12, <1>0, FaultType, RunnerMoves
  DEF RunnerCleanup, TypeOK, runnerKeeps, reconcilerVars, recordings, Deleted, NamespaceStates
<1>. QED BY <1>1, <1>2, <1>3, <1>4, <1>5, <1>6, <1>7, <1>8, <1>9, <1>10,
            <1>11, <1>12 DEF RunnerStep

(* The types of Reconcile's own variables.                                 *)
LocalTypes ==
  /\ rpc \in ReconcilerSteps /\ snap \in Status
  /\ mruns \in [Checks -> Reports] /\ todo \in [Checks -> LoopSteps]
  /\ held \in BOOLEAN /\ wake \subseteq {"event", "timer"}

(* Returning from Reconcile keeps them ...                                 *)
LEMMA DoneType ==
  ASSUME NEW b \in BOOLEAN, Done(b), wake \subseteq {"event", "timer"}
  PROVE  LocalTypes'
BY EmptyType DEF Done, LocalTypes, ReconcilerSteps

(* ... and so does going on to the next step ...                           *)
LEMMA ContinueType ==
  ASSUME NEW step \in ReconcilerSteps, Continue(step), LocalTypes
  PROVE  LocalTypes'
BY DEF Continue, LocalTypes

(* ... or to the next question, which may be a fault.                      *)
LEMMA PromptlyType ==
  ASSUME Promptly, faults \in 0..MaxFaults
  PROVE  held' \in BOOLEAN /\ faults' \in 0..MaxFaults
BY FaultType DEF Promptly

(* Asking keeps the types of all it changes.                               *)
LEMMA AskType ==
  ASSUME NEW step \in ReconcilerSteps, Ask(step), LocalTypes, faults \in 0..MaxFaults
  PROVE  LocalTypes' /\ faults' \in 0..MaxFaults
BY PromptlyType DEF Ask, LocalTypes

(* Taking a request leaves only queue entries behind.                      *)
LEMMA TakeType ==
  ASSUME TakeRequest, wake \subseteq {"event", "timer"}, faults \in 0..MaxFaults
  PROVE  wake' \subseteq {"event", "timer"} /\ faults' \in 0..MaxFaults
BY FaultType DEF TakeRequest

(* What r.Get returns is a status.                                         *)
LEMMA SeenType ==
  ASSUME status \in Status, cache \in Status
  PROVE  Seen \in Status
BY ViewType DEF Seen

(* What GetRequiredCheckRuns returns and writes is well typed.             *)
LEMMA ListType ==
  ASSUME NEW required, NEW listed, GetRequiredCheckRuns(required, listed),
         status \in Status, faults \in 0..MaxFaults
  PROVE  listed \in Status /\ faults' \in 0..MaxFaults
BY AddNotStartedType, FaultType DEF GetRequiredCheckRuns

(* The verdicts of the analysis are reports.                               *)
LEMMA VerdictsType ==
  ASSUME NEW m \in [Checks -> Reports], NEW A
  PROVE  Verdicts(m, A) \in [Checks -> Reports]
BY DEF Verdicts, Reports, Outcomes

(* What Reconcile may write.                                               *)
LEMMA StatusTypes ==
  ASSUME status \in Status, mruns \in [Checks -> Reports]
  PROVE  /\ \A f \in {"no", "Finished", "AnalysisFailed", "FinalCheckFailed",
                      "BaselineRecordingFailed"} : SetFinished(status, f) \in Status
         /\ RemoveCheckConditions(status) \in Status
         /\ AddNotStarted(status) \in Status
         /\ \A c \in Conds : SetCondition(status, c, "Unknown") \in Status
         /\ "FinalCheck" \in Conds /\ "Baseline" \in Conds
         /\ [status EXCEPT !.analysis = TRUE] \in Status
         /\ [status EXCEPT !.analysis = TRUE, !.finished = "no"] \in Status
         /\ [status EXCEPT !.checkRuns = mruns] \in Status
         /\ [status EXCEPT !.recommended = TRUE, !.merged = MergedChecks(mruns)] \in Status
<1>1. MergedChecks(mruns) \in SUBSET Checks
  BY DEF MergedChecks
<1>2. \A c \in Conds : SetCondition(status, c, "Unknown") \in Status
  BY SetConditionType DEF CondValues
<1>3. "FinalCheck" \in Conds /\ "Baseline" \in Conds
  BY DEF Conds
<1>4. \A f \in {"no", "Finished", "AnalysisFailed", "FinalCheckFailed",
               "BaselineRecordingFailed"} : SetFinished(status, f) \in Status
  BY SetFinishedType DEF FinishedValues
<1>. QED BY <1>1, <1>2, <1>3, <1>4, RemoveType, AddNotStartedType, FieldTypes

(* Every step of Reconcile keeps the types.                                *)
LEMMA ReconcileTypeOK ==
  ASSUME TypeOK, ReconcileStep PROVE TypeOK'
<1>1. CASE CleanupReconcileLoop
  BY <1>1, FaultType, TakeType
  DEF CleanupReconcileLoop, TypeOK, reconcilerKeeps, recordings, NamespaceStates, Deleted
<1>2. CASE ReconcileFetch
  BY <1>2, TakeType, SeenType
  DEF ReconcileFetch, TypeOK, reconcilerKeeps, recordings, ReconcilerSteps
<1>3. CASE ReconcileFetchFails
  BY <1>3, FaultType
  DEF ReconcileFetchFails, TypeOK, reconcilerKeeps, recordings
<1>4. CASE ReconcileFinish
  BY <1>4, FaultType, WriteType, DoneType, ContinueType, StatusTypes
  DEF ReconcileFinish, TypeOK, LocalTypes, reconcilerKeeps, recordings, ReconcilerSteps
<1>5. CASE ReconcileRemoveConditions
  BY <1>5, FaultType, DoneType, StatusTypes
  DEF ReconcileRemoveConditions, TypeOK, LocalTypes, reconcilerKeeps, recordings
<1>6. CASE ReconcileStartAnalysis
  <2>1. status' \in Status /\ faults' \in 0..MaxFaults
    <3>1. ASSUME NEW required, NEW listed, GetRequiredCheckRuns(required, listed),
                 Update([listed EXCEPT !.finished = "no", !.analysis = FALSE])
          PROVE  status' \in Status /\ faults' \in 0..MaxFaults
      <4>1. listed \in Status /\ faults' \in 0..MaxFaults
        BY <3>1, ListType DEF TypeOK
      <4>2. [listed EXCEPT !.finished = "no", !.analysis = FALSE] \in Status
        BY <4>1, FieldTypes
      <4>. QED BY <3>1, <4>1, <4>2, WriteType DEF TypeOK
    <3>. QED BY <1>6, <3>1, FaultType DEF ReconcileStartAnalysis, TypeOK
  <2>2. status.checkRuns \in [Checks -> Reports]
    BY DEF TypeOK, Status
  <2>. QED BY <1>6, <2>1, <2>2
           DEF ReconcileStartAnalysis, TypeOK, reconcilerKeeps, recordings, ReconcilerSteps
<1>7. CASE ReconcileSkipAnalysis
  BY <1>7, FaultType, WriteType, ListType, ContinueType, StatusTypes
  DEF ReconcileSkipAnalysis, TypeOK, LocalTypes, reconcilerKeeps, recordings, ReconcilerSteps
<1>8. CASE AnalyzeCheckRuns
  BY <1>8, VerdictsType
  DEF AnalyzeCheckRuns, TypeOK, reconcilerKeeps, recordings, ReconcilerSteps
<1>9. CASE AnalyzeCheckRunsFails
  BY <1>9, FaultType, TryFaultType, WriteType, ContinueType, StatusTypes
  DEF AnalyzeCheckRunsFails, TypeOK, LocalTypes, reconcilerKeeps, recordings, ReconcilerSteps
<1>10. CASE ReconcileAbandon
  BY <1>10, TryFaultType, WriteType, DoneType, StatusTypes
  DEF ReconcileAbandon, TypeOK, LocalTypes, reconcilerKeeps, recordings
<1>11. CASE AnalyzeOverwriteRuns
  BY <1>11, FaultType, WriteType, ContinueType, StatusTypes
  DEF AnalyzeOverwriteRuns, TypeOK, LocalTypes, reconcilerKeeps, recordings, ReconcilerSteps
<1>12. CASE SetRecommendation
  BY <1>12, TryFaultType, WriteType, ContinueType, StatusTypes
  DEF SetRecommendation, TypeOK, LocalTypes, reconcilerKeeps, recordings, ReconcilerSteps
<1>13. CASE ReconcileAnalysed
  BY <1>13, FaultType, TryFaultType, WriteType, ContinueType, StatusTypes
  DEF ReconcileAnalysed, TypeOK, LocalTypes, reconcilerKeeps, recordings, ReconcilerSteps
<1>14. CASE ReconcileFinalFailed
  BY <1>14, FaultType, WriteType, DoneType, StatusTypes
  DEF ReconcileFinalFailed, TypeOK, LocalTypes, reconcilerKeeps, recordings
<1>15. CASE ReconcileFinalInProgress
  BY <1>15, DoneType, AskType
  DEF ReconcileFinalInProgress, TypeOK, LocalTypes, reconcilerKeeps, recordings, ReconcilerSteps
<1>16. CASE ReconcileFinalOverdue
  BY <1>16, TryFaultType, WriteType, DoneType, StatusTypes
  DEF ReconcileFinalOverdue, TypeOK, LocalTypes, reconcilerKeeps, recordings
<1>17. CASE ReconcileFinalIdle
  BY <1>17, AskType
  DEF ReconcileFinalIdle, TypeOK, LocalTypes, reconcilerKeeps, recordings, ReconcilerSteps
<1>18. CASE ReconcileNoFinal
  BY <1>18, AskType
  DEF ReconcileNoFinal, TypeOK, LocalTypes, reconcilerKeeps, recordings, ReconcilerSteps
<1>19. CASE ReconcileStartFinal
  BY <1>19, TryFaultType, WriteType, DoneType, StatusTypes, RunnerMoves
  DEF ReconcileStartFinal, TypeOK, LocalTypes, reconcilerKeeps, recordings, RunTypes
<1>20. CASE ReconcileBaselineInProgress
  BY <1>20, DoneType, AskType
  DEF ReconcileBaselineInProgress, TypeOK, LocalTypes, reconcilerKeeps, recordings, ReconcilerSteps
<1>21. CASE ReconcileBaselineOverdue
  BY <1>21, TryFaultType, WriteType, DoneType, StatusTypes
  DEF ReconcileBaselineOverdue, TypeOK, LocalTypes, reconcilerKeeps, recordings
<1>22. CASE ReconcileBaselineIdle
  BY <1>22, AskType
  DEF ReconcileBaselineIdle, TypeOK, LocalTypes, reconcilerKeeps, recordings, ReconcilerSteps
<1>23. CASE RecordBaseline
  BY <1>23, TryFaultType, WriteType, ContinueType, StatusTypes, RunnerMoves
  DEF RecordBaseline, TypeOK, LocalTypes, reconcilerKeeps, recordings, RunTypes, Baselines,
      ReconcilerSteps
<1>24. CASE RecordBaseline2
  BY <1>24, DoneType, RunnerMoves
  DEF RecordBaseline2, TypeOK, LocalTypes, reconcilerKeeps, recordings, RunTypes, Baselines
<1>25. CASE ReconcileBaselineRecorded
  BY <1>25, ContinueType
  DEF ReconcileBaselineRecorded, TypeOK, LocalTypes, reconcilerKeeps, recordings, ReconcilerSteps
<1>26. CASE ReconcileBaselineFailed
  BY <1>26, TryFaultType, WriteType, DoneType, StatusTypes
  DEF ReconcileBaselineFailed, TypeOK, LocalTypes, reconcilerKeeps, recordings
<1>27. CASE ReconcileBaselineGood
  BY <1>27, ContinueType
  DEF ReconcileBaselineGood, TypeOK, LocalTypes, reconcilerKeeps, recordings, ReconcilerSteps
<1>28. CASE ReconcileRecordChecks
  <2>1. status' \in Status /\ faults' \in 0..MaxFaults
    <3>1. SetFinished(AddNotStarted(status), "no") \in Status
      BY AddNotStartedType, SetFinishedType DEF TypeOK, FinishedValues
    <3>. QED BY <1>28, <3>1, FaultType, WriteType, AddNotStartedType
             DEF ReconcileRecordChecks, TypeOK, GetRequiredCheckRuns
  <2>2. todo' \in [Checks -> LoopSteps]
    BY <1>28 DEF ReconcileRecordChecks, LoopSteps
  <2>. QED BY <1>28, <2>1, <2>2
           DEF ReconcileRecordChecks, TypeOK, reconcilerKeeps, recordings, ReconcilerSteps
<1>29. CASE ReconcileNothingToDo
  BY <1>29, WriteType, ListType, DoneType, StatusTypes
  DEF ReconcileNothingToDo, TypeOK, LocalTypes, reconcilerKeeps, recordings
<1>30. ASSUME NEW c \in Checks, RecordChecksAsk(c) PROVE TypeOK'
  BY <1>30, PromptlyType DEF RecordChecksAsk, TypeOK, reconcilerKeeps, recordings, LoopSteps
<1>31. ASSUME NEW c \in Checks, RecordChecksInProgress(c) PROVE TypeOK'
  BY <1>31, PromptlyType
  DEF RecordChecksInProgress, TypeOK, reconcilerKeeps, recordings, LoopSteps
<1>32. ASSUME NEW c \in Checks, RecordChecksStart(c) PROVE TypeOK'
  <2>1. c \in Conds /\ c \in RunTypes
    BY DEF Conds, RunTypes
  <2>. QED BY <1>32, <2>1, TryFaultType, WriteType, DoneType, StatusTypes, RunnerMoves
           DEF RecordChecksStart, TypeOK, LocalTypes, reconcilerKeeps, recordings, LoopSteps
<1>33. CASE RecordChecksEnd
  BY <1>33, DoneType DEF RecordChecksEnd, TypeOK, LocalTypes, reconcilerKeeps, recordings
<1>. QED BY <1>1, <1>2, <1>3, <1>4, <1>5, <1>6, <1>7, <1>8, <1>9,
            <1>10, <1>11, <1>12, <1>13, <1>14, <1>15, <1>16, <1>17, <1>18,
            <1>19, <1>20, <1>21, <1>22, <1>23, <1>24, <1>25, <1>26, <1>27,
            <1>28, <1>29, <1>30, <1>31, <1>32, <1>33
         DEF ReconcileStep

(* Every step of the environment keeps the types.                          *)
LEMMA EnvironmentTypeOK ==
  ASSUME TypeOK, Environment PROVE TypeOK'
<1>1. ASSUME NEW t \in RunTypes, NamespaceGone(t) PROVE TypeOK'
  BY <1>1 DEF NamespaceGone, TypeOK, reconcilerVars, recordings, NamespaceStates
<1>2. ASSUME NEW t \in RunTypes, ExpireRecording(t) PROVE TypeOK'
  BY <1>2, FaultType DEF ExpireRecording, TypeOK, reconcilerVars
<1>3. ASSUME NEW c \in Conds, TimePasses(c) PROVE TypeOK'
  <2>1. status' \in Status
    BY <1>3, FieldTypes DEF TimePasses, TypeOK
  <2>2. faults' \in 0..MaxFaults
    BY <1>3, FaultType DEF TimePasses, TypeOK
  <2>. QED BY <1>3, <2>1, <2>2 DEF TimePasses, TypeOK, reconcilerVars, recordings
<1>4. CASE CacheSync
  BY <1>4, ViewType DEF CacheSync, TypeOK, reconcilerVars, recordings
<1>5. CASE EditSpec
  BY <1>5, FaultType DEF EditSpec, TypeOK, recordings
<1>6. CASE DeleteCheck
  BY <1>6, FaultType DEF DeleteCheck, TypeOK, recordings
<1>7. CASE Crash
  BY <1>7, FaultType, ViewType, EmptyType
  DEF Crash, TypeOK, recordings, ReconcilerSteps
<1>. QED BY <1>1, <1>2, <1>3, <1>4, <1>5, <1>6, <1>7 DEF Environment

(* The types hold initially ...                                            *)
LEMMA InitTypeOK == Init => TypeOK
<1> SUFFICES ASSUME Init PROVE TypeOK
  OBVIOUS
<1>1. status \in Status /\ cache \in Status /\ snap \in Status
  BY EmptyType DEF Init
<1>2. /\ mruns \in [Checks -> Reports] /\ todo \in [Checks -> LoopSteps]
      /\ rpc \in ReconcilerSteps
  BY EmptyType DEF Init, ReconcilerSteps
<1>3. run \in [Runners -> Runner] /\ ns \in [RunTypes -> NamespaceStates]
  BY EmptyType DEF Init, NamespaceStates
<1>4. faults \in 0..MaxFaults
  BY BoundAssumption DEF Init
<1>. QED BY <1>1, <1>2, <1>3, <1>4 DEF Init, TypeOK

(* ... and every step keeps them.                                          *)
LEMMA NextTypeOK == TypeOK /\ [Next]_vars => TypeOK'
<1> SUFFICES ASSUME TypeOK, [Next]_vars PROVE TypeOK'
  OBVIOUS
<1>1. CASE UNCHANGED vars
  BY <1>1 DEF vars, TypeOK
<1>2. CASE Next
  BY <1>2, ReconcileTypeOK, RunnerTypeOK, EnvironmentTypeOK DEF Next
<1>. QED BY <1>1, <1>2

(* The types hold in every reachable state, whatever the reconciler, the   *)
(* runners and their environment do.                                       *)
THEOREM TypeCorrect == Spec => []TypeOK
<1>1. Init => TypeOK
  BY InitTypeOK
<1>2. TypeOK /\ [Next]_vars => TypeOK'
  BY NextTypeOK
<1>. QED BY <1>1, <1>2, PTL DEF Spec
============================================================================
