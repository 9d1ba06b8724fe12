-------------------------- MODULE WorkloadReconciler --------------------------
(***************************************************************************)
(* WorkloadHardeningCheckReconciler.Reconcile                              *)
(* (internal/controller/workload) for one object.  The work queue runs one *)
(* Reconcile per object at a time, but the runners change the status while *)
(* it runs: every re-read of the object is a step of its own.  `snap` is   *)
(* what r.Get returned at the start; the queries of the check manager read *)
(* the live object.                                                        *)
(***************************************************************************)
EXTENDS HardeningState

(* What Reconcile changes only where it says so.                           *)
reconcilerKeeps == <<exists, cache, ns, recordings>>

(* return ctrl.Result{...}: with RequeueAfter (or an error, which requeues *)
(* too), or without, and then only an event wakes Reconcile again.         *)
Done(requeue) ==
  /\ rpc' = "idle"
  /\ snap' = EmptyStatus
  /\ mruns' = NoRuns
  /\ todo' = LoopDone
  /\ held' = FALSE
  /\ wake' = IF requeue THEN wake \cup {"timer"} ELSE wake

Continue(step) ==
  /\ rpc' = step
  /\ held' = FALSE
  /\ UNCHANGED <<snap, mruns, todo, wake>>

(* On to the next question, which re-reads the object at once: that        *)
(* something happens in between is a "race" fault.                         *)
Promptly ==
  \/ held' = TRUE /\ UNCHANGED faults
  \/ held' = FALSE /\ Fault("race")

Ask(step) ==
  /\ rpc' = step
  /\ Promptly
  /\ UNCHANGED <<snap, mruns, todo, wake>>

(* GetRequiredCheckRuns returns the required checks and leaves the status  *)
(* `listed` behind.  When the workload cannot be read it returns no check  *)
(* at all; that a condition could not be added is ignored.                 *)
GetRequiredCheckRuns(required, listed) ==
  \/ required = Checks /\ listed = AddNotStarted(status) /\ UNCHANGED faults
  \/ required \in {Checks, {}} /\ listed = status /\ Fault("api")

---------------------------------------------------------------------------
(* A work queue entry is taken.  An entry that is added twice before it is *)
(* taken counts once.  RequeueAfter waits at least half a recording: that  *)
(* the timer fires while a runner still prepares its namespace, or while   *)
(* an old namespace is still being deleted, is a "slow" fault.             *)
Settling ==
  \/ \E r \in Runners :
       run[r].pc \in {"start", "ensure", "clone", "populate", "prepare"}
  \/ \E t \in RunTypes : ns[t] = "terminating"

TakeRequest ==
  \E W \in SUBSET wake :
    /\ W # {}
    /\ wake' = wake \ W
    /\ IF "timer" \in W /\ Settling THEN Fault("slow") ELSE UNCHANGED faults

(* The object is gone: delete every namespace that was cloned for it.  One *)
(* that cannot be deleted is logged and left, one that the cached client   *)
(* does not list yet is missed.                                            *)
CleanupReconcileLoop ==
  /\ rpc = "idle" /\ ~exists
  /\ \/ /\ TakeRequest
        /\ ns' = [t \in RunTypes |-> Deleted(ns[t])]
     \/ /\ wake # {} /\ wake' = {}
        /\ \/ CacheLag /\ UNCHANGED faults
           \/ Fault("api")
        /\ \E kept \in RunTypes :
             ns' = [t \in RunTypes |-> IF t = kept THEN ns[t] ELSE Deleted(ns[t])]
  /\ UNCHANGED <<exists, cache, recordings, status, rpc, snap, mruns,
                 todo, held, run>>

Seen == IF CacheLag THEN cache ELSE View(status)

(* Mutant of ReconcileFetch: a finished object is not skipped.             *)
ReconcileFetchAlways ==
  /\ rpc = "idle" /\ exists
  /\ TakeRequest
  /\ rpc' = "fetched" /\ snap' = Seen
  /\ UNCHANGED <<reconcilerKeeps, status, mruns, todo, held, run>>

(* Get the object; nothing is left to do for one that is finished.         *)
ReconcileFetch ==
  /\ rpc = "idle" /\ exists
  /\ TakeRequest
  /\ IF Seen.finished = "no"
     THEN rpc' = "fetched" /\ snap' = Seen
     ELSE UNCHANGED <<rpc, snap>>
  /\ UNCHANGED <<reconcilerKeeps, status, mruns, todo, held, run>>

(* The Get fails, or the List of the cleanup: requeued.                    *)
ReconcileFetchFails ==
  /\ rpc = "idle"
  /\ wake # {}
  /\ Fault("api")
  /\ wake' = {"timer"}
  /\ UNCHANGED <<reconcilerKeeps, status, rpc, snap, mruns, todo, held, run>>

(* Mutant of FinalRunDone: the final run is not waited for.                *)
FinalRunAssumed == snap.recommended

FinalRunDone == snap.recommended /\ Recorded(status, "FinalCheck")

(* The final run is recorded: set Finished ...                             *)
ReconcileFinish ==
  /\ rpc = "fetched" /\ FinalRunDone
  /\ \/ Update(SetFinished(status, "Finished")) /\ Continue("remove")
        /\ UNCHANGED faults
     \/ Fault("api") /\ Done(TRUE) /\ UNCHANGED status
  /\ UNCHANGED <<reconcilerKeeps, run>>

(* ... and remove the conditions of the single checks.  Here an object     *)
(* that is gone is an error.                                               *)
ReconcileRemoveConditions ==
  /\ rpc = "remove"
  /\ \/ /\ exists
        /\ status' = RemoveCheckConditions(status)
        /\ Done(FALSE)
        /\ UNCHANGED faults
     \/ /\ \/ ~exists /\ UNCHANGED faults
           \/ Fault("api")
        /\ Done(TRUE)
        /\ UNCHANGED status
  /\ UNCHANGED <<reconcilerKeeps, run>>

---------------------------------------------------------------------------
(* AllChecksFinished and the analysis.  The conditions are read from the   *)
(* live object, Analysis from the snapshot.                                *)
ReconcileStartAnalysis ==
  /\ rpc = "fetched" /\ ~FinalRunDone
  /\ ~snap.analysis
  /\ \/ \E required \in {Checks, {}}, listed \in {status, AddNotStarted(status)} :
          /\ GetRequiredCheckRuns(required, listed)
          /\ AllChecksFinished(status, required)
          /\ Update([listed EXCEPT !.finished = "no", !.analysis = FALSE])
     \/ AllChecksFinished(status, Checks) /\ Fault("api") /\ UNCHANGED status
  /\ rpc' = "analysing"
  /\ mruns' = status.checkRuns
  /\ UNCHANGED <<reconcilerKeeps, run, snap, todo, held, wake>>

ReconcileSkipAnalysis ==
  /\ rpc = "fetched" /\ ~FinalRunDone
  /\ \/ ~Recorded(status, "Baseline") /\ UNCHANGED <<status, faults>>
     \/ /\ Recorded(status, "Baseline")
        /\ \E required \in {Checks, {}}, listed \in {status, AddNotStarted(status)} :
             /\ GetRequiredCheckRuns(required, listed)
             /\ snap.analysis \/ ~AllChecksFinished(status, required)
             /\ Update(listed)
  /\ Continue("final")
  /\ UNCHANGED <<reconcilerKeeps, run>>

(* AnalyzeCheckRuns reads both baselines and the recording of every check  *)
(* run it knows of; any subset of them may show log anomalies.             *)
AnalyzeCheckRuns ==
  /\ rpc = "analysing"
  /\ NeededRecordings(mruns) \subseteq valkey
  /\ \E anomalous \in SUBSET {c \in Checks : mruns[c] # "none"} :
       mruns' = Verdicts(mruns, anomalous)
  /\ rpc' = IF mruns = NoRuns THEN "recommend" ELSE "overwrite"
  /\ UNCHANGED <<reconcilerKeeps, run, status, snap, todo, held, wake, faults>>

(* A recording is missing, or Valkey fails: Analysis becomes True with the *)
(* reason AnalysisFailed, and Finished follows in a second write.          *)
AnalyzeCheckRunsFails ==
  /\ rpc = "analysing"
  /\ \/ /\ ~(NeededRecordings(mruns) \subseteq valkey)
        /\ TryUpdate([status EXCEPT !.analysis = TRUE])
     \/ Fault("api") /\ MayUpdate([status EXCEPT !.analysis = TRUE])
  /\ Continue("abandon")
  /\ UNCHANGED <<reconcilerKeeps, run>>

ReconcileAbandon ==
  /\ rpc = "abandon"
  /\ TryUpdate(SetFinished(status, "AnalysisFailed"))
  /\ Done(FALSE)
  /\ UNCHANGED <<reconcilerKeeps, run>>

(* The end of AnalyzeCheckRuns: CheckRuns is replaced as a whole, with     *)
(* what was read before the analysis began.                                *)
AnalyzeOverwriteRuns ==
  /\ rpc = "overwrite"
  /\ \/ Update([status EXCEPT !.checkRuns = mruns])
        /\ Continue("recommend") /\ UNCHANGED faults
     \/ /\ Fault("api")
        /\ MayUpdate([status EXCEPT !.analysis = TRUE]) /\ Continue("abandon")
  /\ UNCHANGED <<reconcilerKeeps, run>>

(* SetRecommendation; its error is ignored.                                *)
SetRecommendation ==
  /\ rpc = "recommend"
  /\ TryUpdate([status EXCEPT !.recommended = TRUE,
                              !.merged = MergedChecks(mruns)])
  /\ Continue("analysed")
  /\ UNCHANGED <<reconcilerKeeps, run>>

(* Two writes, one for each condition.                                     *)
ReconcileAnalysed ==
  /\ rpc = "analysed"
  /\ \/ TryUpdate([status EXCEPT !.analysis = TRUE, !.finished = "no"])
     \/ /\ Fault("api")
        /\ \/ Update([status EXCEPT !.analysis = TRUE])
           \/ Update(SetFinished(status, "no"))
  /\ Continue("final")
  /\ UNCHANGED <<reconcilerKeeps, run>>

---------------------------------------------------------------------------
(* The final run.  That it failed is read from the snapshot.               *)
ReconcileFinalFailed ==
  /\ rpc = "final"
  /\ snap.cond["FinalCheck"] = "Unknown"
  /\ \/ /\ Update(SetFinished(status, "FinalCheckFailed"))
        /\ Done(FALSE) /\ UNCHANGED faults
     \/ Fault("api") /\ Done(TRUE) /\ UNCHANGED status
  /\ UNCHANGED <<reconcilerKeeps, run>>

ReconcileFinalInProgress ==
  /\ rpc = "final"
  /\ snap.cond["FinalCheck"] # "Unknown"
  /\ InProgress(status, "FinalCheck")
  /\ IF IsOverdue(status, "FinalCheck") THEN Ask("finalOverdue")
     ELSE Done(TRUE) /\ UNCHANGED faults
  /\ UNCHANGED <<reconcilerKeeps, run, status>>

(* Whatever the runner has written since is overwritten.                   *)
ReconcileFinalOverdue ==
  /\ rpc = "finalOverdue"
  /\ TryUpdate(SetCondition(status, "FinalCheck", "Unknown"))
  /\ Done(TRUE)
  /\ UNCHANGED <<reconcilerKeeps, run>>

ReconcileFinalIdle ==
  /\ rpc = "final"
  /\ snap.cond["FinalCheck"] # "Unknown"
  /\ ~InProgress(status, "FinalCheck")
  /\ Ask("startFinal")
  /\ UNCHANGED <<reconcilerKeeps, run, status>>

(* Mutant of ReconcileStartFinal: RecommendationExists is not asked.       *)
ReconcileStartFinalEarly ==
  /\ rpc = "startFinal"
  /\ ~Recorded(status, "FinalCheck")
  /\ Launch("final")
  /\ TryUpdate(SetFinished(status, "no"))
  /\ Done(TRUE)
  /\ UNCHANGED reconcilerKeeps

ReconcileStartFinal ==
  /\ rpc = "startFinal"
  /\ status.recommended
  /\ ~Recorded(status, "FinalCheck")
  /\ Launch("final")
  /\ TryUpdate(SetFinished(status, "no"))
  /\ Done(TRUE)
  /\ UNCHANGED reconcilerKeeps

ReconcileNoFinal ==
  /\ rpc = "startFinal"
  /\ ~status.recommended \/ Recorded(status, "FinalCheck")
  /\ Ask("baseline")
  /\ UNCHANGED <<reconcilerKeeps, run, status>>

---------------------------------------------------------------------------
(* The baseline, asked for its progress, then whether it is recorded.      *)
ReconcileBaselineInProgress ==
  /\ rpc = "baseline"
  /\ InProgress(status, "Baseline")
  /\ IF IsOverdue(status, "Baseline") THEN Ask("baselineOverdue")
     ELSE Done(TRUE) /\ UNCHANGED faults
  /\ UNCHANGED <<reconcilerKeeps, run, status>>

ReconcileBaselineOverdue ==
  /\ rpc = "baselineOverdue"
  /\ TryUpdate(SetCondition(status, "Baseline", "Unknown"))
  /\ Done(TRUE)
  /\ UNCHANGED <<reconcilerKeeps, run>>

ReconcileBaselineIdle ==
  /\ rpc = "baseline"
  /\ ~InProgress(status, "Baseline")
  /\ Ask("recordBaseline")
  /\ UNCHANGED <<reconcilerKeeps, run, status>>

(* recordBaseline starts one run, sleeps, and starts the other one.        *)
RecordBaseline ==
  /\ rpc = "recordBaseline"
  /\ ~Recorded(status, "Baseline")
  /\ Launch("baseline")
  /\ TryUpdate(SetFinished(status, "no"))
  /\ Continue("baseline2")
  /\ UNCHANGED reconcilerKeeps

RecordBaseline2 ==
  /\ rpc = "baseline2"
  /\ Launch("baseline-2")
  /\ Done(TRUE)
  /\ UNCHANGED <<reconcilerKeeps, status, faults>>

ReconcileBaselineRecorded ==
  /\ rpc = "recordBaseline"
  /\ Recorded(status, "Baseline")
  /\ Continue("checks")
  /\ UNCHANGED <<reconcilerKeeps, run, status, faults>>

(* A baseline run of the snapshot was not successful.                      *)
ReconcileBaselineFailed ==
  /\ rpc = "checks"
  /\ Recorded(status, "Baseline")
  /\ snap.baselineBad
  /\ TryUpdate(SetFinished(status, "BaselineRecordingFailed"))
  /\ Done(FALSE)
  /\ UNCHANGED <<reconcilerKeeps, run>>

ReconcileBaselineGood ==
  /\ rpc = "checks"
  /\ ~(Recorded(status, "Baseline") /\ snap.baselineBad)
  /\ Continue("required")
  /\ UNCHANGED <<reconcilerKeeps, run, status, faults>>

---------------------------------------------------------------------------
(* The checks.  recordChecks lists the required ones once more.            *)
ReconcileRecordChecks ==
  /\ rpc = "required"
  /\ Recorded(status, "Baseline")
  /\ ~AllChecksFinished(status, Checks)
  /\ \E required \in {Checks, {}} :
       /\ \/ /\ \E listed \in {status, AddNotStarted(status)} :
                  GetRequiredCheckRuns(required, listed)
             /\ Update(SetFinished(AddNotStarted(status), "no"))
          \/ /\ required = Checks /\ Fault("api")
             /\ Update(AddNotStarted(status))
       /\ todo' = [c \in Checks |-> IF c \in required THEN "todo" ELSE "done"]
  /\ rpc' = "record"
  /\ UNCHANGED <<reconcilerKeeps, run, snap, mruns, held, wake>>

(* Nothing to start, and no requeue: the last line of Reconcile.           *)
ReconcileNothingToDo ==
  /\ rpc = "required"
  /\ \/ ~Recorded(status, "Baseline") /\ UNCHANGED <<status, faults>>
     \/ \E required \in {Checks, {}}, listed \in {status, AddNotStarted(status)} :
          /\ GetRequiredCheckRuns(required, listed)
          /\ AllChecksFinished(status, required)
          /\ Update(listed)
  /\ Done(FALSE)
  /\ UNCHANGED <<reconcilerKeeps, run>>

(* One round of the loops of recordChecks; the order of the checks is that *)
(* of a Go map.  A check that is recorded is skipped ...                   *)
RecordChecksAsk(c) ==
  /\ rpc = "record" /\ todo[c] = "todo"
  /\ \A d \in Checks : todo[d] \in {"todo", "done"}
  /\ IF Recorded(status, c)
     THEN todo' = [todo EXCEPT ![c] = "done"] /\ UNCHANGED <<held, faults>>
     ELSE todo' = [todo EXCEPT ![c] = "asked"] /\ Promptly
  /\ UNCHANGED <<reconcilerKeeps, run, status, rpc, snap, mruns, wake>>

(* ... one that is in progress too, unless it is overdue ...               *)
RecordChecksInProgress(c) ==
  /\ rpc = "record" /\ todo[c] = "asked"
  /\ InProgress(status, c)
  /\ IF IsOverdue(status, c)
     THEN todo' = [todo EXCEPT ![c] = "overdue"] /\ Promptly
     ELSE todo' = [todo EXCEPT ![c] = "done"] /\ held' = FALSE /\ UNCHANGED faults
  /\ UNCHANGED <<reconcilerKeeps, run, status, rpc, snap, mruns, wake>>

(* ... and any other is started, also one that was recorded meanwhile.     *)
RecordChecksStart(c) ==
  /\ rpc = "record"
  /\ \/ todo[c] = "asked" /\ ~InProgress(status, c) /\ UNCHANGED <<status, faults>>
     \/ todo[c] = "overdue" /\ TryUpdate(SetCondition(status, c, "Unknown"))
  /\ Launch(c)
  /\ \/ /\ RunMode = "parallel"
        /\ todo' = [todo EXCEPT ![c] = "done"] /\ held' = FALSE
        /\ UNCHANGED <<rpc, snap, mruns, wake>>
     \/ RunMode = "sequential" /\ Done(TRUE)
  /\ UNCHANGED reconcilerKeeps

(* After the loop parallel mode requeues.  Sequential mode gets to "We     *)
(* don't get here...", which does not.                                     *)
RecordChecksEnd ==
  /\ rpc = "record" /\ todo = LoopDone
  /\ Done(RunMode = "parallel")
  /\ UNCHANGED <<reconcilerKeeps, run, status, faults>>

ReconcileStep ==
  \/ CleanupReconcileLoop
  \/ ReconcileFetch
  \/ ReconcileFetchFails
  \/ ReconcileFinish
  \/ ReconcileRemoveConditions
  \/ ReconcileStartAnalysis
  \/ ReconcileSkipAnalysis
  \/ AnalyzeCheckRuns
  \/ AnalyzeCheckRunsFails
  \/ ReconcileAbandon
  \/ AnalyzeOverwriteRuns
  \/ SetRecommendation
  \/ ReconcileAnalysed
  \/ ReconcileFinalFailed
  \/ ReconcileFinalInProgress
  \/ ReconcileFinalOverdue
  \/ ReconcileFinalIdle
  \/ ReconcileStartFinal
  \/ ReconcileNoFinal
  \/ ReconcileBaselineInProgress
  \/ ReconcileBaselineOverdue
  \/ ReconcileBaselineIdle
  \/ RecordBaseline
  \/ RecordBaseline2
  \/ ReconcileBaselineRecorded
  \/ ReconcileBaselineFailed
  \/ ReconcileBaselineGood
  \/ ReconcileRecordChecks
  \/ ReconcileNothingToDo
  \/ \E c \in Checks :
       RecordChecksAsk(c) \/ RecordChecksInProgress(c) \/ RecordChecksStart(c)
  \/ RecordChecksEnd
============================================================================
