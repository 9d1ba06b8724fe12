--------------------------- MODULE WorkloadRollout ---------------------------
(***************************************************************************)
(* One workload under test in the clone of one run: what RunCheck does to  *)
(* it (applySecurityContext, waitForUpdatedPods, the choice of the pods to *)
(* record, VerifyReadiness) beside the workload controller of Kubernetes,  *)
(* which follows the object at its own pace.                               *)
(*                                                                         *)
(* A pod is <<template, ordinal>>; its template is "plain" as cloned or    *)
(* "hardened" with the security context of the run.  What RunCheck reports *)
(* of all this is in CheckRunner.                                          *)
(***************************************************************************)
EXTENDS Naturals, FiniteSets

CONSTANTS
  Kinds,     \* the kinds of workloads considered
  Replicas,  \* how many pods the workload has (DaemonSet: the nodes)
  FaultKinds, MaxFaults

ASSUME RolloutAssumption ==
  /\ Kinds \subseteq {"Deployment", "StatefulSet", "DaemonSet"}
  /\ Replicas \in Nat \ {0} /\ MaxFaults \in Nat

VARIABLES
  kind,      \* the kind of the workload
  harden,    \* the run has a security context to apply
  spec,      \* the object: its replicas and its template
  seen,      \* the object as its controller knows it
  revision,  \* the template of its current revision, a StatefulSet's
  status,    \* the numbers in its status that VerifyUpdated looks at
  pods,
  pc,        \* where RunCheck is
  original,  \* originalReplicaCount
  late,      \* the two minutes of waitForUpdatedPods are over
  doomed,    \* the namespace is being deleted
  recorded,  \* the pods whose metrics are recorded
  success,   \* checkSuccessful
  fresh,     \* history: the wait ended by a status that was up to date
  faults

clusterVars == <<seen, revision, status, pods>>
waitVars == <<late, doomed, recorded, success, fresh>>
vars == <<kind, harden, spec, clusterVars, pc, original, waitVars, faults>>

Templates == {"plain", "hardened"}
Pods == Templates \X (1..Replicas)
PodStates == {"none", "unassigned", "waiting", "ready", "terminating"}
Specs == [replicas : 0..Replicas, template : Templates]

Wanted == IF harden THEN "hardened" ELSE "plain"

Active(t) == {p \in Pods : p[1] = t /\ pods[p] \in {"unassigned", "waiting", "ready"}}
AllActive == Active("plain") \cup Active("hardened")
Ready     == {p \in Pods : pods[p] = "ready"}
Listed    == {p \in Pods : pods[p] # "none"}

TypeOK ==
  /\ kind \in Kinds /\ harden \in BOOLEAN
  /\ spec \in Specs
  /\ seen \in [replicas : 0..Replicas, template : Templates \cup {"none"}]
  /\ revision \in Templates \cup {"none"}
  /\ status \in [desired : 0..Replicas, updated : 0..Replicas]
  /\ pods \in [Pods -> PodStates]
  /\ pc \in {"replicas", "down", "apply", "up", "wait", "list", "record",
             "done", "failed"}
  /\ original \in {0, Replicas}
  /\ late \in BOOLEAN /\ doomed \in BOOLEAN /\ fresh \in BOOLEAN
  /\ recorded \subseteq Pods
  /\ success \in BOOLEAN
  /\ faults \in 0..MaxFaults

(* The workload was just cloned.  A run without a security context goes    *)
(* straight on to the wait.                                                *)
Init ==
  /\ kind \in Kinds /\ harden \in BOOLEAN
  /\ spec = [replicas |-> Replicas, template |-> "plain"]
  /\ seen = [replicas |-> 0, template |-> "none"] /\ revision = "none"
  /\ status = [desired |-> 0, updated |-> 0]
  /\ pods = [p \in Pods |-> "none"]
  /\ pc = IF harden THEN "replicas" ELSE "wait"
  /\ original = 0 /\ recorded = {} /\ success = FALSE
  /\ late = FALSE /\ doomed = FALSE /\ fresh = FALSE
  /\ faults = 0

Fault(f) == f \in FaultKinds /\ faults < MaxFaults /\ faults' = faults + 1

---------------------------------------------------------------------------
(* Mutant of GetReplicaCount: the observed count is taken for the wanted.  *)
GetReplicaCountObserved ==
  /\ pc = "replicas"
  /\ \/ /\ kind # "DaemonSet"
        /\ original' = status.updated /\ pc' = "down" /\ UNCHANGED faults
     \/ /\ kind = "DaemonSet"
        /\ pc' = "apply" /\ UNCHANGED <<original, faults>>
     \/ kind # "DaemonSet" /\ Fault("get") /\ pc' = "apply" /\ UNCHANGED original
  /\ UNCHANGED <<kind, harden, spec, clusterVars, waitVars>>

(* applySecurityContext.  A replica count that cannot be read means that   *)
(* the workload is not scaled at all.                                      *)
GetReplicaCount ==
  /\ pc = "replicas"
  /\ \/ /\ kind # "DaemonSet"
        /\ original' = spec.replicas /\ pc' = "down" /\ UNCHANGED faults
     \/ /\ kind = "DaemonSet"
        /\ pc' = "apply" /\ UNCHANGED <<original, faults>>
     \/ kind # "DaemonSet" /\ Fault("get") /\ pc' = "apply" /\ UNCHANGED original
  /\ UNCHANGED <<kind, harden, spec, clusterVars, waitVars>>

(* The error of the scaling to 0 is dropped.                               *)
ScaleDown ==
  /\ pc = "down" /\ pc' = "apply"
  /\ \/ spec' = [spec EXCEPT !.replicas = 0] /\ UNCHANGED faults
     \/ Fault("update") /\ UNCHANGED spec
  /\ UNCHANGED <<kind, harden, clusterVars, original, waitVars>>

Apply ==
  /\ pc = "apply"
  /\ \/ /\ spec' = [spec EXCEPT !.template = "hardened"]
        /\ pc' = IF original > 0 THEN "up" ELSE "wait"
        /\ UNCHANGED faults
     \/ Fault("update") /\ pc' = "failed" /\ UNCHANGED spec
  /\ UNCHANGED <<kind, harden, clusterVars, original, waitVars>>

ScaleUp ==
  /\ pc = "up"
  /\ \/ spec' = [spec EXCEPT !.replicas = original] /\ pc' = "wait" /\ UNCHANGED faults
     \/ Fault("update") /\ pc' = "failed" /\ UNCHANGED spec
  /\ UNCHANGED <<kind, harden, clusterVars, original, waitVars>>

(* Mutant of VerifyUpdated: pods of any template are counted.             *)
VerifyUpdatedTotal ==
  status.desired = spec.replicas

(* VerifyUpdated compares UpdatedReplicas or CurrentReplicas with the      *)
(* replicas of the spec, and UpdatedNumberScheduled of a DaemonSet with    *)
(* its DesiredNumberScheduled, whether they are of this generation or not. *)
VerifyUpdated ==
  status.updated = IF kind = "DaemonSet" THEN status.desired ELSE spec.replicas

---------------------------------------------------------------------------
(* The controller.  It replaces pods in its own way: a Deployment creates  *)
(* one more and removes a plain pod when enough others are ready or when   *)
(* it is not ready itself, the others take one down at a time and wait     *)
(* until all are ready.  In a namespace that is being deleted there are no *)
(* new pods, and the ones that are there go.                               *)
MayCreate(p) ==
  /\ ~doomed
  /\ p[1] = seen.template /\ pods[p] = "none"
  /\ Cardinality(Active(seen.template)) < seen.replicas
  /\ Cardinality(AllActive) < seen.replicas + (IF kind = "Deployment" THEN 1 ELSE 0)

MayReplace(p) ==
  /\ p[1] # seen.template
  /\ IF kind = "Deployment"
     THEN pods[p] # "ready" \/ Cardinality(Ready \ {p}) >= seen.replicas
     ELSE AllActive \subseteq Ready \cup {p} /\ Cardinality(AllActive) = seen.replicas

MayDelete(p) ==
  /\ p \in AllActive
  /\ \/ Cardinality(AllActive) > seen.replicas /\ (kind # "Deployment" \/ seen.replicas = 0)
     \/ Cardinality(Active(p[1])) > seen.replicas
     \/ MayReplace(p)
     \/ doomed

(* What the controller writes to the status.  The current revision of a    *)
(* StatefulSet is the previous template until all pods of the new one are  *)
(* ready, and CurrentReplicas counts its pods.                             *)
Complete == Ready = AllActive /\ Cardinality(Active(seen.template)) = seen.replicas

CurrentRevision == IF Complete \/ revision = "none" THEN seen.template ELSE revision

CurrentStatus ==
  [desired |-> seen.replicas,
   updated |-> Cardinality(Active(IF kind = "StatefulSet" THEN CurrentRevision
                                                          ELSE seen.template))]

Observe == seen # spec /\ seen' = spec /\ UNCHANGED <<revision, status, pods>>

Report ==
  /\ <<revision, status>> # <<CurrentRevision, CurrentStatus>>
  /\ revision' = CurrentRevision /\ status' = CurrentStatus
  /\ UNCHANGED <<seen, pods>>

Become(p, state) ==
  pods' = [pods EXCEPT ![p] = state] /\ UNCHANGED <<seen, revision, status>>

(* The controller and the kubelets at work.                                *)
Progress ==
  \/ Observe \/ Report
  \/ \E p \in Pods :
       \/ MayCreate(p) /\ Become(p, "unassigned")
       \/ MayDelete(p) /\ Become(p, "terminating")
       \/ pods[p] = "terminating" /\ Become(p, "none")

(* The scheduler finds a node for a pod, the pod becomes ready, or neither *)
(* ever happens.                                                           *)
Assigned == \E p \in Pods : pods[p] = "unassigned" /\ Become(p, "waiting")
BecomesReady == \E p \in Pods : pods[p] = "waiting" /\ Become(p, "ready")

ClusterStep ==
  /\ Progress \/ Assigned \/ BecomesReady
  /\ UNCHANGED <<kind, harden, spec, pc, original, waitVars, faults>>

(* The controller has seen the object and reported what it has.            *)
UpToDate == seen = spec /\ <<revision, status>> = <<CurrentRevision, CurrentStatus>>

---------------------------------------------------------------------------
(* waitForUpdatedPods: the loop reads the workload, and ends when it is    *)
(* updated and two minutes are not over.  The error of the read is         *)
(* dropped: what is compared is then a copy from before.                   *)
WaitUpdated ==
  /\ pc = "wait" /\ ~late
  /\ \/ VerifyUpdated /\ fresh' = UpToDate /\ UNCHANGED faults
     \/ Fault("get") /\ UNCHANGED fresh
  /\ pc' = "list"
  /\ UNCHANGED <<kind, harden, spec, clusterVars, original, late, doomed, recorded, success>>

TwoMinutesPass ==
  /\ pc = "wait" /\ ~late /\ late' = TRUE
  /\ UNCHANGED <<kind, harden, spec, clusterVars, pc, original, doomed, recorded, success, fresh,
                 faults>>

(* Then the wait is given up whatever was read, and the namespace deleted, *)
(* unless the logs cannot be read or the deletion fails.  RunCheck does    *)
(* not return: it goes on as after an update.                              *)
WaitTimeout ==
  /\ pc = "wait" /\ late
  /\ pc' = "list"
  /\ \/ doomed' = TRUE /\ UNCHANGED faults
     \/ Fault("logs") /\ UNCHANGED doomed
  /\ UNCHANGED <<kind, harden, spec, clusterVars, original, late, recorded, success, fresh>>

(* Mutant of ListPods: the poll waits until the pods are ready.            *)
ListPodsReady ==
  /\ pc = "list"
  /\ Listed # {} /\ Listed \subseteq Ready
  /\ recorded' = Listed /\ pc' = "record"
  /\ UNCHANGED <<kind, harden, spec, clusterVars, original, late, doomed, success, fresh, faults>>

(* recordMetrics polls until there are pods and all have a node; those     *)
(* that are being deleted are left out.                                    *)
ListPods ==
  /\ pc = "list"
  /\ \/ /\ Listed # {} /\ \A p \in Listed : pods[p] # "unassigned"
        /\ recorded' = {p \in Listed : pods[p] # "terminating"}
        /\ pc' = "record" /\ UNCHANGED faults
     \/ Fault("list") /\ pc' = "failed" /\ UNCHANGED recorded
  /\ UNCHANGED <<kind, harden, spec, clusterVars, original, late, doomed, success, fresh>>

(* VerifyReadiness, when the recording is over, however short it was.  A   *)
(* pod that is being deleted may still be ready.  Without a list the run   *)
(* counts as not successful.                                               *)
VerifyReadiness ==
  /\ pc = "record"
  /\ \/ /\ success' \in BOOLEAN
        /\ success' => Listed # {} /\ \A p \in Listed : pods[p] \in {"ready", "terminating"}
        /\ Listed # {} /\ Listed \subseteq Ready => success'
        /\ pc' = "done" /\ UNCHANGED faults
     \/ Fault("list") /\ pc' \in {"done", "failed"} /\ UNCHANGED success
  /\ UNCHANGED <<kind, harden, spec, clusterVars, original, late, doomed, recorded, fresh>>

RunStep ==
  \/ GetReplicaCount \/ ScaleDown \/ Apply \/ ScaleUp
  \/ WaitUpdated \/ TwoMinutesPass \/ WaitTimeout \/ ListPods \/ VerifyReadiness

Next == RunStep \/ ClusterStep
Spec == Init /\ [][Next]_vars

(* The runner and the cluster get on.  That pods find a node or become     *)
(* ready is not assumed.                                                   *)
Fairness ==
  /\ WF_vars(RunStep)
  /\ WF_vars(Progress /\ UNCHANGED <<kind, harden, spec, pc, original, waitVars, faults>>)

FairSpec == Spec /\ Fairness

---------------------------------------------------------------------------
(* "We need to ensure that the pods are updated": a run that is reported   *)
(* as successful judged the workload at its full size and with its         *)
(* security context, though it was scaled down and up again, errors were   *)
(* dropped and the recording may be short.  The object has both; and if    *)
(* the status that ended the wait was up to date, all pods of that         *)
(* template were ready, but for a StatefulSet, whose number counts pods of *)
(* the previous template.                                                  *)
SuccessMeansHardened ==
  success =>
    /\ spec = [replicas |-> Replicas, template |-> Wanted]
    /\ fresh /\ kind # "StatefulSet" => {p \in Pods : p[1] = Wanted} \subseteq Ready

(* "they don't need to be started/running, as they could be in a crash     *)
(* loop": if the pods find nodes, every run gets to its end, whether or    *)
(* not they ever become ready and whatever fails; only a run that was      *)
(* given up after two minutes, and goes on in the namespace it has         *)
(* deleted, may poll for pods for ever.                                    *)
RunEnds ==
  <>[](\A p \in Pods : pods[p] # "unassigned") => <>(pc \in {"done", "failed"} \/ doomed)

(* Does not hold of a StatefulSet, whose number counts the pods only when  *)
(* all are ready: when all pods are updated and have a node, and the       *)
(* controller has reported it, the wait can end.                           *)
UpdatedIsSeen ==
  (pc = "wait" /\ UpToDate
     /\ {p \in Pods : p[1] = Wanted} = {p \in AllActive : pods[p] # "unassigned"})
  => VerifyUpdated

(* Does not hold, as the status may be that of an earlier generation: "We  *)
(* need to ensure that the pods are updated and scheduled to nodes before  *)
(* we can record metrics".                                                 *)
RecordsUpdatedPods ==
  ~late => \A p \in recorded : p[1] = Wanted
============================================================================
