---------------------------- MODULE PromiseProofs ----------------------------
(***************************************************************************)
(* WorkloadHardening implements HardeningPromise when the reconciler reads *)
(* the live object, for every set of checks, every bound and every fault.  *)
(*                                                                         *)
(* The argument: the recordings grow only by a step of a runner, the       *)
(* recommendation changes only in SetRecommendation, and Finished only     *)
(* from "no" (ReconcileKeepsFinished).  That a change of one of the three  *)
(* is allowed at that moment is what IInv says of the state before or      *)
(* after it.                                                               *)
(***************************************************************************)
EXTENDS WorkloadHardeningProofs

(* Status s and t hold the same recommendation.                            *)
SameAdvice(s, t) == t.recommended = s.recommended /\ t.merged = s.merged

(* All writes but that of SetRecommendation leave it alone.                *)
LEMMA AdviceKept ==
  ASSUME NEW s \in Status
  PROVE  /\ \A c \in Conds, v \in CondValues :
              SetCondition(s, c, v) \in Status /\ SameAdvice(s, SetCondition(s, c, v))
         /\ \A x \in FinishedValues : SameAdvice(s, SetFinished(s, x))
         /\ \A t \in RunTypes, o \in Outcomes : SameAdvice(s, AddRun(s, t, o))
         /\ SameAdvice(s, RemoveCheckConditions(s))
         /\ AddNotStarted(s) \in Status /\ SameAdvice(s, AddNotStarted(s))
         /\ \A b \in BOOLEAN : SameAdvice(s, [s EXCEPT !.analysis = b])
         /\ \A b \in BOOLEAN, x \in FinishedValues :
              SameAdvice(s, [s EXCEPT !.analysis = b, !.finished = x])
         /\ \A b \in BOOLEAN, x \in FinishedValues :
              SameAdvice(s, [s EXCEPT !.finished = x, !.analysis = b])
         /\ \A m : SameAdvice(s, [s EXCEPT !.checkRuns = m])
<1>1. \A c \in Conds, v \in CondValues :
        SetCondition(s, c, v) \in Status /\ SameAdvice(s, SetCondition(s, c, v))
  BY SetConditionType DEF SameAdvice
<1>2. \A x \in FinishedValues : SameAdvice(s, SetFinished(s, x))
  BY DEF SameAdvice, SetFinished, Status
<1>3. \A t \in RunTypes, o \in Outcomes : SameAdvice(s, AddRun(s, t, o))
  BY DEF SameAdvice, AddRun, Status
<1>4. SameAdvice(s, RemoveCheckConditions(s))
  BY DEF SameAdvice, RemoveCheckConditions, Status
<1>5. AddNotStarted(s) \in Status /\ SameAdvice(s, AddNotStarted(s))
  BY AddNotStartedType DEF SameAdvice, AddNotStarted, Status
<1>6. /\ \A b \in BOOLEAN : SameAdvice(s, [s EXCEPT !.analysis = b])
      /\ \A b \in BOOLEAN, x \in FinishedValues :
           SameAdvice(s, [s EXCEPT !.analysis = b, !.finished = x])
      /\ \A b \in BOOLEAN, x \in FinishedValues :
           SameAdvice(s, [s EXCEPT !.finished = x, !.analysis = b])
      /\ \A m : SameAdvice(s, [s EXCEPT !.checkRuns = m])
  BY DEF SameAdvice, Status
<1>. QED BY <1>1, <1>2, <1>3, <1>4, <1>5, <1>6

(* A write that keeps the recommendation does so whether it is lost or not.*)
LEMMA WriteAdvice ==
  ASSUME NEW new, SameAdvice(status, new)
  PROVE  /\ Update(new) => SameAdvice(status, status')
         /\ MayUpdate(new) => SameAdvice(status, status')
         /\ TryUpdate(new) => SameAdvice(status, status')
BY DEF Update, MayUpdate, TryUpdate, SameAdvice

---------------------------------------------------------------------------
(* A runner does not touch the recommendation, and adds recordings: of a   *)
(* final run only when there is a recommendation to try.                   *)
LEMMA RunnerRecords ==
  ASSUME IInv, NEW r \in Runners, RunnerStep(r)
  PROVE  /\ SameAdvice(status, status')
         /\ stored \subseteq stored' /\ ready \subseteq ready'
         /\ "final" \in stored' => "final" \in stored \/ status.recommended
<1>1. /\ TypeOf(r) \in RunTypes /\ Cond(r) \in Conds
      /\ status \in Status /\ run[r].outcome \in Outcomes
  BY RunnerTypes DEF IInv, TypeOK, Runner
<1>2. /\ SameAdvice(status, StatusFailed(r)) /\ SameAdvice(status, StatusRunning(r))
      /\ SameAdvice(status, SetCondition(StatusFailed(r), Cond(r), "Recording"))
      /\ SameAdvice(status, SetCondition(status, Cond(r), "Recorded"))
      /\ SameAdvice(status, AddRun(status, TypeOf(r), run[r].outcome))
  <2>1. /\ "Unknown" \in CondValues /\ "Recording" \in CondValues
        /\ "Recorded" \in CondValues
    BY DEF CondValues
  <2>2. /\ StatusFailed(r) \in Status /\ SameAdvice(status, StatusFailed(r))
        /\ SameAdvice(status, StatusRunning(r))
    BY <1>1, <2>1, AdviceKept DEF StatusFailed, StatusRunning
  <2>3. SameAdvice(StatusFailed(r), SetCondition(StatusFailed(r), Cond(r), "Recording"))
    BY <1>1, <2>1, <2>2, AdviceKept
  <2>4. /\ SameAdvice(status, SetCondition(status, Cond(r), "Recorded"))
        /\ SameAdvice(status, AddRun(status, TypeOf(r), run[r].outcome))
    BY <1>1, <2>1, AdviceKept
  <2>. QED BY <2>2, <2>3, <2>4 DEF SameAdvice
<1>3. SameAdvice(status, status) /\ (UNCHANGED status => SameAdvice(status, status'))
  BY DEF SameAdvice
<1>4. SameAdvice(status, status')
  BY <1>2, <1>3, WriteAdvice
  DEF RunnerStep, RunnerStart, RunnerEnsureNamespace, RunnerClone, RunnerPopulate,
      RunnerPrepare, RunnerPodsUpdated, RunnerWaitTimeout, RunnerTimeoutRecord,
      RunnerRecord, RunnerSetFinished, RunnerReport, RunnerCleanup
<1>5. run[r].pc # "idle" /\ (UNCHANGED recordings \/ \E o \in Outcomes : StoreRecording(TypeOf(r), o))
  BY DEF RunnerStep, RunnerStart, RunnerEnsureNamespace, RunnerClone, RunnerPopulate,
      RunnerPrepare, RunnerPodsUpdated, RunnerWaitTimeout, RunnerTimeoutRecord,
      RunnerRecord, RunnerSetFinished, RunnerReport, RunnerCleanup, At, Outcomes
<1>6. TypeOf(r) = "final" => status.recommended
  BY <1>5 DEF IInv, FinalNeedsRecommendation
<1>. QED BY <1>4, <1>5, <1>6 DEF recordings, StoreRecording

(* The environment touches neither.                                        *)
LEMMA EnvironmentRecords ==
  ASSUME TypeOK, Environment
  PROVE  SameAdvice(status, status') /\ UNCHANGED <<stored, ready>>
BY DEF TypeOK, SameAdvice, Environment, NamespaceGone, ExpireRecording, TimePasses, CacheSync,
       EditSpec, DeleteCheck, Crash, recordings, Status

(* Reconcile records nothing, and all of it but SetRecommendation keeps    *)
(* the recommendation.                                                     *)
LEMMA ReconcileAdvice ==
  ASSUME TypeOK, ReconcileStep
  PROVE  UNCHANGED <<stored, ready>> /\ (SetRecommendation \/ SameAdvice(status, status'))
<1>1. status \in Status
  BY DEF TypeOK
<1>2. UNCHANGED status => SameAdvice(status, status')
  BY DEF SameAdvice
<1>3. /\ \A c \in Conds : SameAdvice(status, SetCondition(status, c, "Unknown"))
      /\ \A x \in FinishedValues : SameAdvice(status, SetFinished(status, x))
      /\ SameAdvice(status, RemoveCheckConditions(status))
      /\ SameAdvice(status, AddNotStarted(status))
      /\ SameAdvice(status, SetFinished(AddNotStarted(status), "no"))
      /\ SameAdvice(status, [status EXCEPT !.analysis = TRUE])
      /\ SameAdvice(status, [status EXCEPT !.analysis = TRUE, !.finished = "no"])
      /\ SameAdvice(status, [status EXCEPT !.finished = "no", !.analysis = FALSE])
      /\ SameAdvice(status, [AddNotStarted(status) EXCEPT !.finished = "no", !.analysis = FALSE])
      /\ SameAdvice(status, [status EXCEPT !.checkRuns = mruns])
      /\ SameAdvice(status, status)
  <2>1. AddNotStarted(status) \in Status /\ SameAdvice(status, AddNotStarted(status))
    BY <1>1, AdviceKept
  <2>2. /\ SameAdvice(AddNotStarted(status), SetFinished(AddNotStarted(status), "no"))
        /\ SameAdvice(AddNotStarted(status),
                      [AddNotStarted(status) EXCEPT !.finished = "no", !.analysis = FALSE])
    BY <2>1, AdviceKept DEF FinishedValues
  <2>3. /\ SameAdvice(status, SetFinished(AddNotStarted(status), "no"))
        /\ SameAdvice(status, [AddNotStarted(status) EXCEPT !.finished = "no", !.analysis = FALSE])
    BY <2>1, <2>2 DEF SameAdvice
  <2>4. SameAdvice(status, status)
    BY DEF SameAdvice
  <2>. QED BY <1>1, <2>1, <2>3, <2>4, AdviceKept DEF CondValues, FinishedValues
<1>4. /\ "FinalCheck" \in Conds /\ "Baseline" \in Conds /\ Checks \subseteq Conds
      /\ {"no", "Finished", "AnalysisFailed", "FinalCheckFailed",
          "BaselineRecordingFailed"} \subseteq FinishedValues
  BY DEF Conds, FinishedValues
<1>5. UNCHANGED <<stored, ready>>
  BY DEF ReconcileStep, reconcilerKeeps, recordings, CleanupReconcileLoop, ReconcileFetch,
      ReconcileFetchFails, ReconcileFinish, ReconcileRemoveConditions, ReconcileStartAnalysis,
      ReconcileSkipAnalysis, AnalyzeCheckRuns, AnalyzeCheckRunsFails, ReconcileAbandon,
      AnalyzeOverwriteRuns, SetRecommendation, ReconcileAnalysed, ReconcileFinalFailed,
      ReconcileFinalInProgress, ReconcileFinalOverdue, ReconcileFinalIdle,
      ReconcileStartFinal, ReconcileNoFinal, ReconcileBaselineInProgress,
      ReconcileBaselineOverdue, ReconcileBaselineIdle, RecordBaseline, RecordBaseline2,
      ReconcileBaselineRecorded, ReconcileBaselineFailed, ReconcileBaselineGood,
      ReconcileRecordChecks, ReconcileNothingToDo, RecordChecksAsk, RecordChecksInProgress,
      RecordChecksStart, RecordChecksEnd
<1>6. SetRecommendation \/ SameAdvice(status, status')
  <2>1. CASE \/ CleanupReconcileLoop \/ ReconcileFetch \/ ReconcileFetchFails \/ AnalyzeCheckRuns
             \/ ReconcileFinalInProgress \/ ReconcileFinalIdle \/ ReconcileNoFinal
             \/ ReconcileBaselineInProgress \/ ReconcileBaselineIdle \/ RecordBaseline2
             \/ ReconcileBaselineRecorded \/ ReconcileBaselineGood \/ RecordChecksEnd
             \/ \E c \in Checks : RecordChecksAsk(c) \/ RecordChecksInProgress(c)
    BY <1>2, <2>1
    DEF CleanupReconcileLoop, ReconcileFetch, ReconcileFetchFails, AnalyzeCheckRuns,
        ReconcileFinalInProgress, ReconcileFinalIdle, ReconcileNoFinal,
        ReconcileBaselineInProgress, ReconcileBaselineIdle, RecordBaseline2,
        ReconcileBaselineRecorded, ReconcileBaselineGood, RecordChecksEnd, RecordChecksAsk,
        RecordChecksInProgress
  <2>2. CASE \/ ReconcileFinish \/ ReconcileRemoveConditions \/ ReconcileAbandon
             \/ ReconcileFinalFailed \/ ReconcileStartFinal \/ RecordBaseline
             \/ ReconcileBaselineFailed
    BY <1>2, <1>3, <1>4, <2>2, WriteAdvice
    DEF ReconcileFinish, ReconcileRemoveConditions, ReconcileAbandon, ReconcileFinalFailed,
        ReconcileStartFinal, RecordBaseline, ReconcileBaselineFailed
  <2>3. CASE ReconcileStartAnalysis \/ ReconcileSkipAnalysis \/ ReconcileRecordChecks
             \/ ReconcileNothingToDo
    BY <1>2, <1>3, <2>3, WriteAdvice
    DEF ReconcileStartAnalysis, ReconcileSkipAnalysis, ReconcileRecordChecks,
        ReconcileNothingToDo
  <2>4. CASE AnalyzeCheckRunsFails \/ AnalyzeOverwriteRuns \/ ReconcileAnalysed
    BY <1>2, <1>3, <1>4, <2>4, WriteAdvice
    DEF AnalyzeCheckRunsFails, AnalyzeOverwriteRuns, ReconcileAnalysed
  <2>5. CASE \/ ReconcileFinalOverdue \/ ReconcileBaselineOverdue
             \/ \E c \in Checks : RecordChecksStart(c)
    BY <1>2, <1>3, <1>4, <2>5, WriteAdvice
    DEF ReconcileFinalOverdue, ReconcileBaselineOverdue, RecordChecksStart
  <2>. QED BY <2>1, <2>2, <2>3, <2>4, <2>5 DEF ReconcileStep
<1>. QED BY <1>5, <1>6

---------------------------------------------------------------------------
(* The mapped record is one of the abstract specification.                 *)
LEMMA PromisedType == ASSUME TypeOK' PROVE Promised' \in Promise!Promises
<1>1. status' \in Status
  BY DEF TypeOK
<1>2. /\ status'.finished \in {"no", "Finished"} \cup (FinishedValues \ {"no", "Finished"})
      /\ status'.recommended \in BOOLEAN /\ status'.merged \in SUBSET Checks
  BY <1>1 DEF Status
<1>. QED BY <1>2 DEF Promised, Promise!Promises

(* SetRecommendation makes or replaces a recommendation, or its write is   *)
(* lost: the baselines were read, the checks it merges were seen ready,    *)
(* and the check is not finished.                                          *)
LEMMA RecommendingKeeps ==
  ASSUME IInv, Unfinished, SetRecommendation, UNCHANGED <<stored, ready>>
  PROVE  Promise!PromiseStep(Promised, Promised') \/ UNCHANGED Promised
<1>1. rpc = "recommend" /\ status.finished = "no"
  BY DEF SetRecommendation, Unfinished
<1>2. Baselines \subseteq stored /\ MergedChecks(mruns) \subseteq ready \cap Checks
  BY <1>1 DEF IInv, AnalysisBacked, MergedChecks
<1>3. CASE UNCHANGED status
  BY <1>3 DEF Promised
<1>4. CASE status' = [status EXCEPT !.recommended = TRUE, !.merged = MergedChecks(mruns)]
  <2>1. /\ status'.recommended = TRUE /\ status'.merged = MergedChecks(mruns)
        /\ status'.finished = "no"
    BY <1>1, <1>4 DEF IInv, TypeOK, Status
  <2>. QED BY <1>1, <1>2, <2>1
           DEF Promised, Promise!PromiseStep, Promise!Recommending, Promise!SameRuns
<1>. QED BY <1>3, <1>4 DEF SetRecommendation, TryUpdate, Update

(* Any other step of Reconcile leaves the record alone or finishes the     *)
(* check; with the reason Finished only after a final run.                 *)
LEMMA FinishingKeeps ==
  ASSUME IInv, IInv', KeepsFinished, SameAdvice(status, status'), UNCHANGED <<stored, ready>>
  PROVE  Promise!PromiseStep(Promised, Promised') \/ UNCHANGED Promised
<1>1. CASE status'.finished = status.finished
  BY <1>1 DEF Promised, SameAdvice
<1>2. CASE status'.finished # status.finished
  <2>1. status.finished = "no" /\ status'.finished # "no"
    BY <1>2 DEF KeepsFinished
  <2>2. status'.finished = "Finished" => status.recommended /\ "final" \in stored
    BY DEF IInv, FinishedMeansTried, SameAdvice
  <2>. QED BY <2>1, <2>2
           DEF Promised, SameAdvice, Promise!PromiseStep, Promise!Finishing, Promise!SameRuns
<1>. QED BY <1>1, <1>2

(* Every step of the system is a step of the abstract specification, or    *)
(* leaves its record alone.                                                *)
LEMMA StepKeepsPromise ==
  ASSUME CacheLag = FALSE, IInv, IInv', Unfinished, [Next]_vars
  PROVE  [Promise!Next]_Promised
<1>1. TypeOK /\ KeepsFinished
  BY StepKeepsFinished DEF IInv
<1>2. Promised' \in Promise!Promises
  <2>1. TypeOK'
    BY DEF IInv
  <2>. QED BY <2>1, PromisedType
<1>3. Promise!PromiseStep(Promised, Promised') \/ UNCHANGED Promised
  <2>1. CASE UNCHANGED vars
    BY <2>1 DEF vars, Promised, recordings
  <2>2. CASE ReconcileStep
    BY <1>1, <2>2, ReconcileAdvice, RecommendingKeeps, FinishingKeeps
  <2>3. ASSUME NEW r \in Runners, RunnerStep(r)
        PROVE  Promise!PromiseStep(Promised, Promised')
    BY <1>1, <2>3, RunnerRecords, RunnerKeepsFinished
    DEF Promised, SameAdvice, Promise!PromiseStep, Promise!Recording, Promise!SameVerdict
  <2>4. CASE Environment
    BY <1>1, <2>4, EnvironmentRecords, EnvironmentKeepsFinished DEF Promised, SameAdvice
  <2>. QED BY <2>1, <2>2, <2>3, <2>4 DEF Next
<1>. QED BY <1>2, <1>3 DEF Promise!Next

(* The reconciler, its runners and all faults together implement the       *)
(* abstract specification of a check.                                      *)
THEOREM ImplementsPromise ==
  ASSUME CacheLag = FALSE PROVE Spec => PromiseKept
<1>1. Init => Unfinished /\ Promise!Init
  <2> SUFFICES ASSUME Init PROVE Unfinished /\ Promise!Init
    OBVIOUS
  <2>1. /\ status.recommended = FALSE /\ status.merged = {} /\ status.finished = "no"
        /\ stored = {} /\ ready \cap Checks = {}
    BY DEF Init, EmptyStatus
  <2>2. (Baselines \subseteq stored) = FALSE /\ ("final" \in stored) = FALSE
    BY <2>1 DEF Baselines
  <2>3. Promised = Promise!NoPromise
    BY <2>1, <2>2 DEF Promised, Promise!NoPromise
  <2>. QED BY <2>1, <2>3 DEF Promise!Init, Unfinished
<1>2. TypeOK /\ Unfinished /\ [Next]_vars => Unfinished'
  BY StepKeepsFinished
<1>3. IInv /\ IInv' /\ Unfinished /\ [Next]_vars => [Promise!Next]_Promised
  BY StepKeepsPromise
<1>4. IInv => TypeOK
  BY DEF IInv
<1>. QED BY <1>1, <1>2, <1>3, <1>4, Invariance, PTL DEF Spec, PromiseKept, Promise!Spec
============================================================================
