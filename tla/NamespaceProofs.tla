-------------------------- MODULE NamespaceProofs --------------------------
(***************************************************************************)
(* Theorems about NamespaceHardening, for every set of workloads, of other *)
(* checks and of check types and any number of faults.                     *)
(***************************************************************************)
EXTENDS NamespaceHardening, TLAPS

(* Every record of a workload check has the fields the proofs look at.     *)
LEMMA CheckFields ==
  /\ NoPromise \in Promises /\ NoCheck \in CheckStates
  /\ \A c \in CheckStates : c.merged \in SUBSET Checks
<1>1. NoPromise \in Promises
  BY DEF NoPromise, Promises
<1>2. NoCheck.merged = {}
  BY DEF NoCheck, NoPromise
<1>. QED BY <1>1, <1>2 DEF CheckStates, Promises

(* What Reconcile collects is a map from workloads to recommendations.     *)
LEMMA CollectedType ==
  ASSUME TypeOK, NEW r \in Collected
  PROVE  r \subseteq Recommendations
<1>1. SeenChecks \in [CheckIds -> CheckStates]
  BY DEF TypeOK, SeenChecks
<1>2. \A i \in CheckIds : TargetRef(i) \in Workloads
  BY OthersAssumption DEF CheckIds, TargetRef
<1>3. \A i \in CheckIds : <<TargetRef(i), SeenChecks[i].merged>> \in Recommendations
  BY <1>1, <1>2, CheckFields DEF Recommendations
<1>. QED BY <1>3 DEF Collected, ListedChecks

(* The parts of TypeOK that the steps have in common.                      *)
LEMMA FaultType ==
  ASSUME faults \in Faults, NEW kind, Fault(kind)
  PROVE  faults' \in Faults
BY NamespaceBounds DEF Fault, Faults

(* A write leaves an object, whether it is lost or not.                    *)
LEMMA UpdateType ==
  ASSUME TypeOK
  PROVE  /\ \A new \in Object : Update(new) => nhc' \in Object /\ faults' \in Faults
         /\ \A new \in Object : Write(new) => nhc' \in Object
         /\ \A c \in InProgress \cup Finished :
              [nhc EXCEPT !.cond = c] \in Object
         /\ \A c \in InProgress \cup Finished :
              SetCondition(c) => nhc' \in Object /\ faults' \in Faults
         /\ \A r \in SUBSET Recommendations :
              [nhc EXCEPT !.recs = r, !.cond = "FinalCheck"] \in Object
<1>1. nhc \in Object /\ faults \in Faults
  BY DEF TypeOK
<1>2. \A new \in Object : Write(new) => nhc' \in Object
  BY <1>1 DEF Write
<1>3. \A new \in Object : Update(new) => nhc' \in Object /\ faults' \in Faults
  BY <1>1, <1>2, FaultType DEF Update
<1>4. \A c \in InProgress \cup Finished : [nhc EXCEPT !.cond = c] \in Object
  BY <1>1 DEF Object
<1>5. \A r \in SUBSET Recommendations :
        [nhc EXCEPT !.recs = r, !.cond = "FinalCheck"] \in Object
  BY <1>1 DEF Object, InProgress
<1>. QED BY <1>2, <1>3, <1>4, <1>5 DEF SetCondition

(* Every step of Reconcile keeps the types,                                *)
LEMMA ReconcileType ==
  ASSUME TypeOK, Reconcile PROVE TypeOK'
<1>. USE DEF TypeOK
<1>1. {"None", "NotFound", "Preparation", "Created", "InProgress", "FinalCheck",
       "NoResources", "Success", "Failed", "Error"} \subseteq InProgress \cup Finished
  BY DEF InProgress, Finished
<1>2. ASSUME NEW b, Return(b)
      PROVE  /\ pc' = "idle" /\ todo' = {} /\ made' = FALSE /\ batch' = {} /\ mem' = {}
             /\ wake' \subseteq {"event", "timer"}
  BY <1>2 DEF Return
<1>3. TakeRequest => pc = "idle" /\ wake' \subseteq {"event", "timer"}
  BY DEF TakeRequest
<1>4. Seen \in Object /\ Seen.recs \subseteq Recommendations
  BY DEF Seen, Object
<1>5. CASE ReconcileSkips
  BY <1>1, <1>3, <1>5, UpdateType DEF ReconcileSkips, reconcileVars, finalVars
<1>6. CASE ReconcileGetFails
  BY <1>6, FaultType DEF ReconcileGetFails, reconcileVars, finalVars
<1>7. CASE ReconcileBegins
  <2>1. nhc' \in Object /\ faults' \in Faults
    BY <1>1, <1>7, UpdateType DEF ReconcileBegins
  <2>. QED BY <1>3, <1>4, <1>7, <2>1 DEF ReconcileBegins, finalVars
<1>8. CASE Discover
  <2>1. nhc' \in Object /\ faults' \in Faults
    BY <1>1, <1>8, UpdateType, FaultType DEF Discover
  <2>2. /\ pc' \in {"create", "idle"} /\ todo' \subseteq Workloads /\ batch' \subseteq Workloads
        /\ made' \in BOOLEAN /\ mem' \subseteq Recommendations
        /\ wake' \subseteq {"event", "timer"}
    BY <1>2, <1>8 DEF Discover
  <2>. QED BY <1>8, <2>1, <2>2 DEF Discover, finalVars
<1>9. ASSUME NEW w \in Workloads, CreateWorkloadHardeningCheck(w) PROVE TypeOK'
  <2>1. checks' \in [CheckIds -> CheckStates]
    BY <1>9, CheckFields DEF CreateWorkloadHardeningCheck, CheckStates
  <2>2. faults' \in Faults
    BY <1>9, FaultType DEF CreateWorkloadHardeningCheck
  <2>3. wake' \subseteq {"event", "timer"} /\ made' \in BOOLEAN /\ todo' \subseteq Workloads
    BY <1>9 DEF CreateWorkloadHardeningCheck
  <2>. QED BY <1>9, <2>1, <2>2, <2>3 DEF CreateWorkloadHardeningCheck, finalVars
<1>10. CASE ChecksCreated
  BY <1>1, <1>10, UpdateType DEF ChecksCreated, finalVars
<1>11. CASE ListFails
  BY <1>2, <1>11, FaultType DEF ListFails, finalVars
<1>12. CASE NotAllFinished
  BY <1>1, <1>2, <1>12, UpdateType DEF NotAllFinished, finalVars
<1>13. CASE AllFinished
  <2>1. PICK r \in Collected : /\ Update([nhc EXCEPT !.recs = r, !.cond = "FinalCheck"])
                               /\ mem' = IF Seen.exists THEN r ELSE mem
    BY <1>13 DEF AllFinished
  <2>2. r \subseteq Recommendations
    BY CollectedType
  <2>3. nhc' \in Object /\ faults' \in Faults /\ mem' \subseteq Recommendations
    BY <2>1, <2>2, UpdateType
  <2>. QED BY <1>13, <2>3 DEF AllFinished, finalVars
<1>14. CASE FinalClone
  <2>1. faults' \in Faults
    BY <1>14, FaultType DEF FinalClone
  <2>2. \A found \in SUBSET Workloads : FinalBegins(found) =>
          /\ pc' \in {"success", "apply"} /\ missed' \subseteq Workloads
          /\ todo' \subseteq Workloads /\ batch' \subseteq Workloads
    BY DEF FinalBegins
  <2>3. /\ pc' \in {"error", "success", "apply"} /\ missed' \subseteq Workloads
        /\ todo' \subseteq Workloads /\ batch' \subseteq Workloads
    BY <1>14, <2>2 DEF FinalClone
  <2>4. /\ finalns' \in {"absent", "active", "terminating"} /\ bindings' \in BOOLEAN
        /\ copy' \in [Workloads -> CopyStates]
    BY <1>14 DEF FinalClone, CopyStates
  <2>. QED BY <1>14, <2>1, <2>3, <2>4 DEF FinalClone
<1>15. CASE FinalApplied \/ FinalVerified
  BY <1>15 DEF FinalApplied, FinalVerified, finalVars
<1>16. CASE FinalDelete
  BY <1>16, FaultType DEF FinalDelete, DeletesFinal
<1>17. CASE Conclude
  BY <1>1, <1>2, <1>17, UpdateType DEF Conclude, finalVars
<1>18. ASSUME NEW w \in Workloads, FinalApply(w) PROVE TypeOK'
  BY <1>18, FaultType DEF FinalApply, Unreadable, CopyStates
<1>19. ASSUME NEW w \in Workloads, FinalUpdated(w) PROVE TypeOK'
  BY <1>19, FaultType DEF FinalUpdated, finalVars
<1>20. ASSUME NEW w \in Workloads, FinalVerify(w) PROVE TypeOK'
  BY <1>20, FaultType DEF FinalVerify, Unreadable
<1>. QED BY <1>5, <1>6, <1>7, <1>8, <1>9, <1>10, <1>11, <1>12, <1>13, <1>14, <1>15, <1>16,
            <1>17, <1>18, <1>19, <1>20 DEF Reconcile

(* and so does its environment.                                            *)
LEMMA EnvironmentType ==
  ASSUME TypeOK, Environment PROVE TypeOK'
<1>. USE DEF TypeOK
<1>1. ASSUME NEW i \in CheckIds, CheckStep(i) PROVE TypeOK'
  BY <1>1 DEF CheckStep, CheckStates, reconcileVars, finalVars
<1>2. ASSUME NEW i \in CheckIds, DeleteWorkloadCheck(i) PROVE TypeOK'
  BY <1>2, CheckFields, FaultType DEF DeleteWorkloadCheck, reconcileVars, finalVars
<1>9. ASSUME NEW i \in CheckIds, CleanupReconcileLoop(i) PROVE TypeOK'
  BY <1>9, FaultType DEF CleanupReconcileLoop, DeletesFinal, reconcileVars
<1>3. ASSUME NEW w \in Workloads, Rollout(w) PROVE TypeOK'
  BY <1>3 DEF Rollout, CopyStates, reconcileVars
<1>4. CASE NamespaceGone
  BY <1>4 DEF NamespaceGone, CopyStates, reconcileVars
<1>5. CASE CacheSync
  BY <1>5 DEF CacheSync, reconcileVars, finalVars
<1>6. CASE DeleteObject
  <2>1. /\ nhc' \in Object /\ checks' \in [CheckIds -> CheckStates]
        /\ sweep' \subseteq CheckIds
    BY <1>6, CheckFields DEF DeleteObject, Object, CheckIds
  <2>. QED BY <1>6, <2>1, FaultType DEF DeleteObject, reconcileVars, finalVars
<1>7. CASE EditSpec \/ CreateTarget
  BY <1>7, FaultType DEF EditSpec, CreateTarget, reconcileVars, finalVars
<1>8. CASE Crash
  BY <1>8, FaultType DEF Crash, finalVars
<1>. QED BY <1>1, <1>2, <1>3, <1>4, <1>5, <1>6, <1>7, <1>8, <1>9 DEF Environment

(* The type invariant of the namespace reconciler.                         *)
THEOREM NamespaceTypeCorrect == Spec => []TypeOK
<1>1. Init => TypeOK
  <2> SUFFICES ASSUME Init PROVE TypeOK
    OBVIOUS
  <2>1. NewObject \in Object
    BY DEF NewObject, Object, InProgress
  <2>2. checks \in [CheckIds -> CheckStates]
    BY CheckFields DEF Init, CheckStates
  <2>3. copy \in [Workloads -> CopyStates] /\ faults \in Faults
    BY NamespaceBounds DEF Init, CopyStates, Faults
  <2>. QED BY <2>1, <2>2, <2>3 DEF Init, TypeOK
<1>2. TypeOK /\ [Next]_vars => TypeOK'
  <2> SUFFICES ASSUME TypeOK, [Next]_vars PROVE TypeOK'
    OBVIOUS
  <2>1. CASE UNCHANGED vars
    BY <2>1 DEF vars, reconcileVars, finalVars, TypeOK
  <2>. QED BY <2>1, ReconcileType, EnvironmentType DEF Next
<1>. QED BY <1>1, <1>2, PTL DEF Spec

---------------------------------------------------------------------------
(* While Reconcile is at work the object is not finished.                  *)
NotFinished == pc # "idle" => nhc.cond \notin Finished

KeepsResult == nhc.cond \in Finished => nhc'.cond = nhc.cond

(* When Reconcile reads the live object, every step keeps both.            *)
LEMMA StepKeepsResult ==
  ASSUME CacheLag = FALSE, TypeOK, NotFinished, [Next]_vars
  PROVE  NotFinished' /\ KeepsResult
<1>1. Seen = nhc
  BY DEF Seen
<1>2. \A c \in InProgress \cup Finished :
        SetCondition(c) \/ Write([nhc EXCEPT !.cond = c]) => nhc'.cond \in {c, nhc.cond}
  BY DEF SetCondition, Update, Write, TypeOK, Object
<1>3. /\ {"None", "NotFound", "Preparation", "Created", "InProgress", "FinalCheck"}
           \cap Finished = {}
      /\ {"NotFound", "Preparation", "Created", "InProgress", "FinalCheck", "NoResources",
          "Success", "Failed", "Error"} \subseteq InProgress \cup Finished
  BY DEF InProgress, Finished
<1>4. CASE UNCHANGED vars
  BY <1>4 DEF vars, reconcileVars, NotFinished, KeepsResult
<1>5. CASE ReconcileSkips \/ ReconcileGetFails
  BY <1>1, <1>2, <1>3, <1>5
  DEF ReconcileSkips, ReconcileGetFails, TakeRequest, reconcileVars, NotFinished, KeepsResult
<1>6. CASE ReconcileBegins
  BY <1>1, <1>2, <1>3, <1>6 DEF ReconcileBegins, NotFinished, KeepsResult
<1>7. CASE Discover
  BY <1>2, <1>3, <1>7 DEF Discover, Return, NotFinished, KeepsResult
<1>8. CASE ChecksCreated
  BY <1>2, <1>3, <1>8 DEF ChecksCreated, NotFinished, KeepsResult
<1>9. CASE ListFails \/ NotAllFinished \/ Conclude
  BY <1>9 DEF ListFails, NotAllFinished, Conclude, Return, NotFinished, KeepsResult
<1>10. CASE AllFinished
  <2>1. nhc'.cond \in {"FinalCheck", nhc.cond}
    BY <1>10 DEF AllFinished, Update, Write, TypeOK, Object
  <2>. QED BY <1>3, <1>10, <2>1 DEF AllFinished, NotFinished, KeepsResult
<1>11. CASE \/ FinalClone \/ FinalApplied \/ FinalVerified \/ FinalDelete
            \/ \E w \in Workloads : \/ CreateWorkloadHardeningCheck(w)
                                    \/ FinalApply(w) \/ FinalUpdated(w) \/ FinalVerify(w)
  BY <1>11
  DEF FinalClone, FinalApplied, FinalVerified, FinalDelete, CreateWorkloadHardeningCheck,
      FinalApply, FinalUpdated, FinalVerify, NotFinished, KeepsResult
<1>12. CASE Environment
  <2>1. nhc'.cond = nhc.cond /\ pc' \in {pc, "idle"}
    BY <1>12
    DEF Environment, CheckStep, DeleteWorkloadCheck, CleanupReconcileLoop, Rollout, NamespaceGone, CacheSync,
        DeleteObject, EditSpec, CreateTarget, Crash, reconcileVars, TypeOK, Object
  <2>. QED BY <2>1 DEF NotFinished, KeepsResult
<1>. QED BY <1>4, <1>5, <1>6, <1>7, <1>8, <1>9, <1>10, <1>11, <1>12 DEF Next, Reconcile

(* When the cache is never behind, a result is never replaced.             *)
THEOREM ResultStays ==
  ASSUME CacheLag = FALSE PROVE Spec => ResultStable
<1>1. Init => NotFinished
  BY DEF Init, NotFinished
<1>2. TypeOK /\ NotFinished /\ [Next]_vars => NotFinished' /\ [KeepsResult]_vars
  BY StepKeepsResult
<1>3. [KeepsResult]_vars => [nhc.cond \in Finished => nhc'.cond = nhc.cond]_vars
  BY DEF KeepsResult
<1>. QED BY <1>1, <1>2, <1>3, NamespaceTypeCorrect, PTL DEF Spec, ResultStable

---------------------------------------------------------------------------
(* What is known during a final run, whatever fails: a workload that was   *)
(* not found is missed; the loop that applies leaves behind workloads that *)
(* are missed, rolled out or gone, the loop that verifies leaves behind    *)
(* workloads that are missed or were seen ready.                           *)
FinalRunInv ==
  /\ pc \in {"apply", "verify"} => Workloads \ batch \subseteq missed
  /\ pc \in {"apply", "verify"} =>
       \A p \in mem : \/ p[1] \in missed
                      \/ pc = "apply" /\ p[1] \in todo
                      \/ copy[p[1]] \in {"hardened", "none"}
  /\ pc = "verify" => \A p \in mem : p[1] \in missed \/ p[1] \in todo \/ p \in shown
  /\ pc \in {"deleteOk", "success"} => Accounted(mem)

(* A step that is not one of the final run.                                *)
LEMMA OutsideFinalRun ==
  ASSUME pc' \notin {"apply", "verify", "deleteOk", "success"}
  PROVE  FinalRunInv'
BY DEF FinalRunInv

(* The steps of the final run.                                             *)
LEMMA FinalRunAccounted ==
  ASSUME TypeOK, FinalRunInv,
         \/ FinalClone \/ FinalApplied \/ FinalVerified \/ FinalDelete
         \/ \E w \in Workloads : FinalApply(w) \/ FinalUpdated(w) \/ FinalVerify(w)
  PROVE  FinalRunInv'
<1>. USE DEF FinalRunInv, Accounted
<1>1. \A p \in mem : p[1] \in Workloads
  BY DEF TypeOK, Recommendations
<1>2. CASE FinalClone
  <2>1. CASE pc' = "error"
    BY <2>1
  <2>2. CASE pc' # "error"
    <3>1. PICK found \in SUBSET Workloads : FinalBegins(found)
      BY <1>2, <2>2 DEF FinalClone
    <3>2. mem' = mem
      BY <1>2 DEF FinalClone
    <3>3. /\ todo' = found /\ batch' = found /\ Workloads \ found \subseteq missed'
          /\ pc' \in {"success", "apply"} /\ (pc' = "success" => found = {})
      BY <3>1 DEF FinalBegins
    <3>. QED BY <1>1, <3>2, <3>3
  <2>. QED BY <2>1, <2>2
<1>3. CASE FinalApplied
  <2>1. /\ pc = "apply" /\ todo = {} /\ pc' = "verify" /\ todo' = batch /\ batch' = batch
        /\ mem' = mem /\ copy' = copy /\ missed' = missed /\ shown' = shown
    BY <1>3 DEF FinalApplied, finalVars
  <2>. QED BY <1>1, <2>1
<1>4. CASE FinalVerified
  BY <1>4 DEF FinalVerified, finalVars
<1>5. CASE FinalDelete
  BY <1>5 DEF FinalDelete
<1>6. ASSUME NEW w \in Workloads, FinalApply(w) PROVE FinalRunInv'
  <2>1. /\ pc = "apply" /\ pc' = "apply" /\ mem' = mem /\ batch' = batch /\ missed \subseteq missed'
        /\ \/ (\A p \in mem : p[1] # w) /\ todo' = todo \ {w} /\ copy' = copy
           \/ copy' = [copy EXCEPT ![w] = "asked"] /\ todo' = todo /\ w \in todo
           \/ w \in missed' /\ todo' = todo \ {w} /\ copy' = copy
    BY <1>6 DEF FinalApply
  <2>. QED BY <1>1, <2>1 DEF TypeOK
<1>7. ASSUME NEW w \in Workloads, FinalUpdated(w) PROVE FinalRunInv'
  <2>1. /\ pc = "apply" /\ pc' = "apply" /\ mem' = mem /\ batch' = batch /\ copy' = copy
        /\ todo' = todo \ {w} /\ missed \subseteq missed'
        /\ w \in missed' \/ copy[w] = "hardened"
    BY <1>7 DEF FinalUpdated, Waiting
  <2>. QED BY <1>1, <2>1
<1>8. ASSUME NEW w \in Workloads, FinalVerify(w) PROVE FinalRunInv'
  <2>1. CASE pc' = "deleteFailed"
    BY <2>1
  <2>2. CASE pc' # "deleteFailed"
    <3>1. /\ pc = "verify" /\ pc' = "verify" /\ mem' = mem /\ batch' = batch /\ copy' = copy
          /\ todo' = todo \ {w} /\ missed \subseteq missed' /\ shown \subseteq shown'
          /\ \/ w \in missed' \/ copy[w] \notin {"none", "hardened"}
             \/ {p \in mem : p[1] = w} \subseteq shown'
      BY <1>8, <2>2 DEF FinalVerify
    <3>2. \A p \in mem : p[1] \in missed' \/ p[1] \in todo' \/ p \in shown'
      BY <3>1
    <3>. QED BY <3>1, <3>2
  <2>. QED BY <2>1, <2>2
<1>. QED BY <1>2, <1>3, <1>4, <1>5, <1>6, <1>7, <1>8

(* The environment takes workloads away, but nothing out of the account.   *)
LEMMA EnvironmentAccounted ==
  ASSUME TypeOK, FinalRunInv, Environment
  PROVE  FinalRunInv'
<1>1. \A p \in mem : p[1] \in Workloads
  BY DEF TypeOK, Recommendations
<1>2. CASE Crash
  BY <1>2, OutsideFinalRun DEF Crash
<1>3. CASE ~Crash
  <2>1. UNCHANGED <<reconcileVars, shown, missed>>
    BY <1>3
    DEF Environment, CheckStep, DeleteWorkloadCheck, CleanupReconcileLoop, Rollout,
        NamespaceGone, CacheSync, DeleteObject, EditSpec, CreateTarget, finalVars
  <2>2. \A w \in Workloads : copy[w] \in {"hardened", "none"} => copy'[w] \in {"hardened", "none"}
    BY <1>3
    DEF Environment, CheckStep, DeleteWorkloadCheck, CleanupReconcileLoop, Rollout,
        NamespaceGone, CacheSync, DeleteObject, EditSpec, CreateTarget, finalVars, TypeOK
  <2>. QED BY <1>1, <2>1, <2>2 DEF FinalRunInv, Accounted, reconcileVars
<1>. QED BY <1>2, <1>3

(* Every step keeps the account.                                           *)
LEMMA StepAccounted ==
  ASSUME TypeOK, FinalRunInv, [Next]_vars
  PROVE  FinalRunInv'
<1>1. CASE UNCHANGED vars
  BY <1>1 DEF vars, reconcileVars, finalVars, FinalRunInv, Accounted
<1>2. CASE \/ ReconcileSkips \/ ReconcileGetFails \/ ReconcileBegins \/ Discover
           \/ \E w \in Workloads : CreateWorkloadHardeningCheck(w)
           \/ ChecksCreated \/ ListFails \/ NotAllFinished \/ AllFinished \/ Conclude
  <2>1. pc' \notin {"apply", "verify", "deleteOk", "success"}
    BY <1>2
    DEF ReconcileSkips, ReconcileGetFails, ReconcileBegins, Discover,
        CreateWorkloadHardeningCheck, ChecksCreated, ListFails, NotAllFinished, AllFinished,
        Conclude, TakeRequest, Return, reconcileVars
  <2>. QED BY <2>1, OutsideFinalRun
<1>. QED BY <1>1, <1>2, FinalRunAccounted, EnvironmentAccounted DEF Next, Reconcile

(* Whatever fails, is deleted or is read from a stale cache: a final run   *)
(* that succeeds has seen each workload ready with what it tried for it,   *)
(* or the workload is one that it has gone on without.                     *)
THEOREM FinalRunIsAccounted == Spec => []RunAccounted
<1>1. Init => FinalRunInv
  BY DEF Init, FinalRunInv
<1>2. TypeOK /\ FinalRunInv /\ [Next]_vars => FinalRunInv'
  BY StepAccounted
<1>3. FinalRunInv => RunAccounted
  BY DEF FinalRunInv, RunAccounted
<1>. QED BY <1>1, <1>2, <1>3, NamespaceTypeCorrect, PTL DEF Spec

---------------------------------------------------------------------------
(* No write of the status is lost.                                         *)
WritesLast == CacheLag = FALSE /\ "api" \notin FaultKinds

(* The final run then tries what the status says.                          *)
TriesStatus ==
  pc \in {"clone", "apply", "verify", "deleteOk", "success"} /\ nhc.exists => nhc.recs = mem

StatusInv == SuccessMeansShown /\ TriesStatus

(* Reconcile reads the object as it is, and writes it.                     *)
LEMMA WritesLastFacts ==
  ASSUME WritesLast, TypeOK
  PROVE  /\ Seen = nhc
         /\ \A new : Update(new) => nhc' = IF nhc.exists THEN new ELSE nhc
         /\ \A c : SetCondition(c) => nhc'.recs = nhc.recs /\ nhc'.cond \in {c, nhc.cond}
         /\ \A c : Write([nhc EXCEPT !.cond = c])
                     => nhc'.recs = nhc.recs /\ nhc'.cond \in {c, nhc.cond}
<1>1. /\ Seen = nhc
      /\ \A new : Update(new) => nhc' = IF nhc.exists THEN new ELSE nhc
  BY DEF WritesLast, Seen, Fault, Update, Write
<1>. QED BY <1>1 DEF SetCondition, Write, TypeOK, Object

(* The account of the workloads only grows.                                *)
LEMMA AccountGrows ==
  ASSUME TypeOK, [Next]_vars
  PROVE  shown \subseteq shown' /\ missed \subseteq missed'
<1>1. CASE UNCHANGED vars
  BY <1>1 DEF vars, finalVars
<1>2. CASE FinalClone
  <2>1. shown' = shown /\ (missed' = missed \/ \E found : FinalBegins(found))
    BY <1>2 DEF FinalClone
  <2>. QED BY <2>1 DEF FinalBegins
<1>3. CASE \/ FinalApplied \/ FinalVerified \/ FinalDelete
           \/ \E w \in Workloads : FinalApply(w) \/ FinalUpdated(w) \/ FinalVerify(w)
  BY <1>3
  DEF FinalApplied, FinalVerified, FinalDelete, FinalApply, FinalUpdated, FinalVerify, finalVars
<1>4. CASE \/ ReconcileSkips \/ ReconcileGetFails \/ ReconcileBegins \/ Discover
           \/ \E w \in Workloads : CreateWorkloadHardeningCheck(w)
           \/ ChecksCreated \/ ListFails \/ NotAllFinished \/ AllFinished \/ Conclude
  BY <1>4
  DEF ReconcileSkips, ReconcileGetFails, ReconcileBegins, Discover,
      CreateWorkloadHardeningCheck, ChecksCreated, ListFails, NotAllFinished, AllFinished,
      Conclude, finalVars
<1>5. CASE Environment
  BY <1>5
  DEF Environment, CheckStep, DeleteWorkloadCheck, CleanupReconcileLoop, Rollout,
      NamespaceGone, CacheSync, DeleteObject, EditSpec, CreateTarget, Crash, finalVars
<1>. QED BY <1>1, <1>2, <1>3, <1>4, <1>5 DEF Next, Reconcile

(* A step that writes neither recommendations nor Success, and begins no   *)
(* final run, keeps the invariant.                                         *)
LEMMA StatusFrame ==
  ASSUME StatusInv, shown \subseteq shown', missed \subseteq missed',
         nhc'.recs = nhc.recs, nhc'.cond = "Success" => nhc.cond = "Success",
         nhc'.exists => nhc.exists,
         pc' \in {"clone", "apply", "verify", "deleteOk", "success"}
           => /\ pc \in {"clone", "apply", "verify", "deleteOk", "success"}
              /\ mem' = mem
  PROVE  StatusInv'
BY DEF StatusInv, SuccessMeansShown, TriesStatus, Accounted

(* Every step keeps the invariant.                                         *)
LEMMA StepStatus ==
  ASSUME WritesLast, TypeOK, FinalRunInv, StatusInv, [Next]_vars
  PROVE  StatusInv'
<1>1. shown \subseteq shown' /\ missed \subseteq missed'
  BY AccountGrows
<1>2. CASE UNCHANGED vars
  BY <1>1, <1>2, StatusFrame DEF vars, reconcileVars
<1>3. CASE \/ ReconcileSkips \/ ReconcileGetFails \/ ReconcileBegins \/ Discover
           \/ \E w \in Workloads : CreateWorkloadHardeningCheck(w)
           \/ ChecksCreated \/ ListFails \/ NotAllFinished
  <2>1. /\ nhc'.recs = nhc.recs
        /\ nhc'.cond \in {"NotFound", "Preparation", "NoResources", "Created", "InProgress",
                          nhc.cond}
    BY <1>3, WritesLastFacts
    DEF ReconcileSkips, ReconcileGetFails, ReconcileBegins, Discover,
        CreateWorkloadHardeningCheck, ChecksCreated, ListFails, NotAllFinished
  <2>2. pc' \notin {"clone", "apply", "verify", "deleteOk", "success"}
    BY <1>3
    DEF ReconcileSkips, ReconcileGetFails, ReconcileBegins, Discover,
        CreateWorkloadHardeningCheck, ChecksCreated, ListFails, NotAllFinished, TakeRequest,
        Return, reconcileVars
  <2>. QED BY <1>1, <2>1, <2>2 DEF StatusInv, SuccessMeansShown, TriesStatus, Accounted
<1>4. CASE AllFinished
  <2>1. PICK r \in Collected : /\ Update([nhc EXCEPT !.recs = r, !.cond = "FinalCheck"])
                               /\ mem' = IF Seen.exists THEN r ELSE mem
    BY <1>4 DEF AllFinished
  <2>2. CASE nhc.exists
    <3>1. nhc' = [nhc EXCEPT !.recs = r, !.cond = "FinalCheck"] /\ mem' = r
      BY <2>1, <2>2, WritesLastFacts
    <3>2. nhc'.recs = r /\ nhc'.cond = "FinalCheck"
      BY <3>1 DEF TypeOK, Object
    <3>. QED BY <3>1, <3>2 DEF StatusInv, SuccessMeansShown, TriesStatus
  <2>3. CASE ~nhc.exists
    <3>1. nhc' = nhc
      BY <2>1, <2>3, WritesLastFacts
    <3>. QED BY <1>1, <2>3, <3>1 DEF StatusInv, SuccessMeansShown, TriesStatus, Accounted
  <2>. QED BY <2>2, <2>3
<1>5. CASE Conclude
  <2>1. pc' = "idle"
    BY <1>5 DEF Conclude, Return
  <2>2. CASE pc # "success"
    <3>1. SetCondition("Failed") \/ SetCondition("Error")
      BY <1>5, <2>2 DEF Conclude
    <3>2. nhc'.recs = nhc.recs /\ nhc'.cond \in {"Failed", "Error", nhc.cond}
      BY <3>1, WritesLastFacts
    <3>. QED BY <1>1, <2>1, <3>2 DEF StatusInv, SuccessMeansShown, TriesStatus, Accounted
  <2>3. CASE pc = "success"
    <3>1. nhc' = IF nhc.exists THEN [nhc EXCEPT !.cond = "Success"] ELSE nhc
      BY <1>5, <2>3, WritesLastFacts DEF Conclude, SetCondition
    <3>2. nhc.exists => Accounted(nhc.recs)
      BY <2>3 DEF StatusInv, TriesStatus, FinalRunInv
    <3>3. nhc'.recs = nhc.recs
      BY <3>1 DEF TypeOK, Object
    <3>. QED BY <1>1, <2>1, <3>1, <3>2, <3>3
             DEF StatusInv, SuccessMeansShown, TriesStatus, Accounted
  <2>. QED BY <2>2, <2>3
<1>6. CASE \/ FinalClone \/ FinalApplied \/ FinalVerified \/ FinalDelete
           \/ \E w \in Workloads : FinalApply(w) \/ FinalUpdated(w) \/ FinalVerify(w)
  <2>1. nhc' = nhc /\ mem' = mem /\ pc \in {"clone", "apply", "verify", "deleteOk", "deleteFailed"}
    BY <1>6
    DEF FinalClone, FinalApplied, FinalVerified, FinalDelete, FinalApply, FinalUpdated, FinalVerify
  <2>2. pc = "deleteFailed" => pc' \in {"failed", "error"}
    BY <1>6
    DEF FinalClone, FinalApplied, FinalVerified, FinalDelete, FinalApply, FinalUpdated, FinalVerify
  <2>. QED BY <1>1, <2>1, <2>2, StatusFrame
<1>7. CASE Environment
  <2>1. /\ nhc'.recs = nhc.recs /\ nhc'.cond = nhc.cond /\ (nhc'.exists => nhc.exists)
        /\ pc' = "idle" \/ (pc' = pc /\ mem' = mem)
    BY <1>7
    DEF Environment, CheckStep, DeleteWorkloadCheck, CleanupReconcileLoop, Rollout,
        NamespaceGone, CacheSync, DeleteObject, EditSpec, CreateTarget, Crash, reconcileVars,
        TypeOK, Object
  <2>. QED BY <1>1, <2>1, StatusFrame
<1>. QED BY <1>2, <1>3, <1>4, <1>5, <1>6, <1>7 DEF Next, Reconcile

(* As long as no write of the status is lost, Success says that every      *)
(* workload was seen ready with what the status recommends for it, or is   *)
(* one the run has gone on without: also with crashes, deletions, slow     *)
(* statuses and resources that cannot be cloned or read.                   *)
THEOREM SuccessIsShown ==
  ASSUME WritesLast PROVE Spec => []SuccessMeansShown
<1>1. Init => FinalRunInv /\ StatusInv
  BY DEF Init, NewObject, FinalRunInv, StatusInv, SuccessMeansShown, TriesStatus
<1>2. TypeOK /\ FinalRunInv /\ [Next]_vars => FinalRunInv'
  BY StepAccounted
<1>3. TypeOK /\ FinalRunInv /\ StatusInv /\ [Next]_vars => StatusInv'
  BY StepStatus
<1>4. StatusInv => SuccessMeansShown
  BY DEF StatusInv
<1>. QED BY <1>1, <1>2, <1>3, <1>4, NamespaceTypeCorrect, PTL DEF Spec
============================================================================
