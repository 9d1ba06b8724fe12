----------------------------- MODULE CheckRunner -----------------------------
(***************************************************************************)
(* WorkloadCheckRunner.RunCheck (internal/runner/runner.go): one goroutine *)
(* clones the namespace, applies a security context to the copy of the     *)
(* workload, records it, stores the recording, reports the result in the   *)
(* status and deletes the namespace.  Nothing keeps a second runner of the *)
(* same type from being alive, in the same namespace, at the same time.    *)
(*                                                                         *)
(* A runner r is a pair <<run type, copy>>.                                *)
(***************************************************************************)
EXTENDS HardeningState

TypeOf(r) == r[1]
Cond(r)   == CondOf(TypeOf(r))

At(r, step)   == run[r].pc = step
GoTo(r, step) == run' = [run EXCEPT ![r].pc = step]
Return(r)     == run' = [run EXCEPT ![r] = IdleRunner]

(* What setStatusFailed writes: "transient, and the check can be retried   *)
(* later".                                                                 *)
StatusFailed(r) == SetCondition(status, Cond(r), "Unknown")

(* What setStatusRunning writes.                                           *)
StatusRunning(r) == SetCondition(status, Cond(r), "Recording")

(* GetWorkloadUnderTest in the check namespace can find the workload.  In  *)
(* a terminating namespace it may still be there.                          *)
MayHaveWorkload(t) == ns[t] \in {"ready", "terminating"}

(* RecordMetrics and RecordLogs poll, without a limit, until the workload  *)
(* has pods: without any the runner stays where it is.                     *)
MayHavePods(t) == MayHaveWorkload(t)

(* What a runner never touches.                                            *)
runnerKeeps == <<exists, cache, reconcilerVars>>

---------------------------------------------------------------------------
(* A namespace left over from an unfinished run is deleted, if the         *)
(* snapshot said Unknown.  An error of the deletion is ignored.            *)
RunnerStart(r) ==
  /\ At(r, "start")
  /\ run' = [run EXCEPT ![r].pc = "ensure", ![r].unknown = FALSE]
  /\ \/ /\ ns' = IF run[r].unknown
                 THEN [ns EXCEPT ![TypeOf(r)] = Deleted(@)] ELSE ns
        /\ UNCHANGED faults
     \/ run[r].unknown /\ Fault("api") /\ UNCHANGED ns
  /\ UNCHANGED <<runnerKeeps, status, recordings>>

(* namespaceExists: a namespace that is still terminating exists, and so   *)
(* does one whose Get fails with anything but NotFound.  Without a clone   *)
(* to make, the run is Recording (setStatusRunning) at once.               *)
RunnerEnsureNamespace(r) ==
  /\ At(r, "ensure")
  /\ \/ /\ ns[TypeOf(r)] = "absent"
        /\ GoTo(r, "clone")
        /\ UNCHANGED <<status, faults>>
     \/ /\ ns[TypeOf(r)] # "absent"
        /\ TryUpdate(StatusRunning(r))
        /\ GoTo(r, "prepare")
     \/ /\ Fault("api")
        /\ MayUpdate(StatusRunning(r))
        /\ GoTo(r, "prepare")
  /\ UNCHANGED <<runnerKeeps, ns, recordings>>

(* namespace.Clone up to the creation of the namespace.  When it exists by *)
(* now, or cannot be created, the runner gives up without a trace in the   *)
(* status.                                                                 *)
RunnerClone(r) ==
  /\ At(r, "clone")
  /\ \/ /\ ns[TypeOf(r)] = "absent"
        /\ ns' = [ns EXCEPT ![TypeOf(r)] = "empty"]
        /\ GoTo(r, "populate")
        /\ UNCHANGED faults
     \/ /\ \/ ns[TypeOf(r)] # "absent" /\ UNCHANGED faults
           \/ Fault("api")
        /\ Return(r)
        /\ UNCHANGED ns
  /\ UNCHANGED <<runnerKeeps, status, recordings>>

(* The rest of Clone, the Get that follows it, and setStatusRunning.  A    *)
(* resource that cannot be created is skipped; a ClusterRoleBinding that   *)
(* cannot be created ends the runner and leaves the namespace behind.      *)
RunnerPopulate(r) ==
  /\ At(r, "populate")
  /\ \/ /\ ns[TypeOf(r)] # "absent"
        /\ \/ /\ ns' = [ns EXCEPT ![TypeOf(r)] = IF @ = "empty" THEN "ready" ELSE @]
              /\ TryUpdate(StatusRunning(r))
           \/ /\ Fault("clone") /\ UNCHANGED ns
              /\ MayUpdate(StatusRunning(r))
        /\ GoTo(r, "prepare")
     \/ /\ \/ ns[TypeOf(r)] = "absent" /\ UNCHANGED faults
           \/ Fault("clone")
        /\ Return(r)
        /\ UNCHANGED <<ns, status>>
  /\ UNCHANGED <<runnerKeeps, recordings>>

(* GetWorkloadUnderTest in the check namespace and applySecurityContext.   *)
RunnerPrepare(r) ==
  /\ At(r, "prepare")
  /\ \/ /\ MayHaveWorkload(TypeOf(r))
        /\ GoTo(r, "wait")
        /\ UNCHANGED <<status, faults>>
     \/ /\ \/ ns[TypeOf(r)] # "ready" /\ TryUpdate(StatusFailed(r))
           \/ Fault("api") /\ MayUpdate(StatusFailed(r))
        /\ Return(r)
  /\ UNCHANGED <<runnerKeeps, ns, recordings>>

(* waitForUpdatedPods returns true; setStatusRunning.                      *)
RunnerPodsUpdated(r) ==
  /\ At(r, "wait")
  /\ TryUpdate(StatusRunning(r))
  /\ GoTo(r, "record")
  /\ UNCHANGED <<runnerKeeps, ns, recordings>>

(* waitForUpdatedPods runs into its two-minute timeout ...                 *)
RunnerWaitTimeout(r) ==
  /\ At(r, "wait")
  /\ \/ ns[TypeOf(r)] # "ready" /\ TryUpdate(StatusFailed(r))
     \/ Fault("timeout") /\ MayUpdate(StatusFailed(r))
  /\ GoTo(r, "timedout")
  /\ UNCHANGED <<runnerKeeps, ns, recordings>>

(* ... saves the logs of the previous containers as an unsuccessful        *)
(* recording and deletes the namespace.  RunCheck then reports the failure *)
(* (Unknown), and goes on recording all the same (Recording).              *)
RunnerTimeoutRecord(r) ==
  /\ At(r, "timedout")
  /\ MayHavePods(TypeOf(r))
  /\ \/ /\ StoreRecording(TypeOf(r), "bad")
        /\ ns' = [ns EXCEPT ![TypeOf(r)] = "terminating"]
        /\ Update(SetCondition(StatusFailed(r), Cond(r), "Recording"))
        /\ UNCHANGED faults
     \/ /\ Fault("api")
        /\ StoreRecording(TypeOf(r), "bad") \/ UNCHANGED recordings
        /\ ns' \in {ns, [ns EXCEPT ![TypeOf(r)] = "terminating"]}
        /\ MayUpdate(SetCondition(StatusFailed(r), Cond(r), "Recording"))
  /\ GoTo(r, "record")
  /\ UNCHANGED runnerKeeps

(* Mutant of RunnerRecord: goes on when the recording cannot be stored.    *)
RunnerRecordUnstored(r) ==
  /\ At(r, "record")
  /\ MayHavePods(TypeOf(r))
  /\ \E o \in Outcomes :
       /\ run' = [run EXCEPT ![r].pc = "finish", ![r].outcome = o]
       /\ \/ StoreRecording(TypeOf(r), o) /\ UNCHANGED faults
          \/ Fault("api") /\ UNCHANGED recordings
  /\ UNCHANGED <<runnerKeeps, ns, status>>

(* recordMetrics, recordLogs, VerifyReadiness and StoreRecording.          *)
RunnerRecord(r) ==
  /\ At(r, "record")
  /\ MayHavePods(TypeOf(r))
  /\ \/ /\ \E o \in Outcomes :
             /\ run' = [run EXCEPT ![r].pc = "finish", ![r].outcome = o]
             /\ StoreRecording(TypeOf(r), o)
        /\ UNCHANGED <<status, faults>>
     \/ /\ Fault("api") /\ MayUpdate(StatusFailed(r)) /\ Return(r)
        /\ UNCHANGED recordings
  /\ UNCHANGED <<runnerKeeps, ns>>

(* Mutant of RunnerSetFinished: only a successful run sets its condition.  *)
RunnerSetFinishedOnSuccess(r) ==
  /\ At(r, "finish")
  /\ IF run[r].outcome = "ok"
     THEN TryUpdate(SetCondition(status, Cond(r), "Recorded"))
     ELSE UNCHANGED <<status, faults>>
  /\ GoTo(r, "report")
  /\ UNCHANGED <<runnerKeeps, ns, recordings>>

(* setStatusFinishedSuccessfully and setStatusFinishedFailure: first the   *)
(* condition, then, in a second update, the run itself.                    *)
RunnerSetFinished(r) ==
  /\ At(r, "finish")
  /\ TryUpdate(SetCondition(status, Cond(r), "Recorded"))
  /\ GoTo(r, "report")
  /\ UNCHANGED <<runnerKeeps, ns, recordings>>

RunnerReport(r) ==
  /\ At(r, "report")
  /\ TryUpdate(AddRun(status, TypeOf(r), run[r].outcome))
  /\ GoTo(r, "cleanup")
  /\ UNCHANGED <<runnerKeeps, ns, recordings>>

(* Mutant of RunnerCleanup: only a successful run deletes its namespace.   *)
RunnerCleanupOnSuccess(r) ==
  /\ At(r, "cleanup")
  /\ ns' = IF run[r].outcome = "ok"
           THEN [ns EXCEPT ![TypeOf(r)] = Deleted(@)] ELSE ns
  /\ Return(r)
  /\ UNCHANGED <<runnerKeeps, status, recordings, faults>>

RunnerCleanup(r) ==
  /\ At(r, "cleanup")
  /\ \/ /\ ns' = [ns EXCEPT ![TypeOf(r)] = Deleted(@)]
        /\ UNCHANGED faults
     \/ Fault("api") /\ UNCHANGED ns
  /\ Return(r)
  /\ UNCHANGED <<runnerKeeps, status, recordings>>

RunnerStep(r) ==
  \/ RunnerStart(r)
  \/ RunnerEnsureNamespace(r)
  \/ RunnerClone(r)
  \/ RunnerPopulate(r)
  \/ RunnerPrepare(r)
  \/ RunnerPodsUpdated(r)
  \/ RunnerWaitTimeout(r)
  \/ RunnerTimeoutRecord(r)
  \/ RunnerRecord(r)
  \/ RunnerSetFinished(r)
  \/ RunnerReport(r)
  \/ RunnerCleanup(r)
============================================================================
