---------------------------- MODULE RolloutProofs ----------------------------
(***************************************************************************)
(* Proofs about WorkloadRollout: type correctness, and that a successful   *)
(* run judged the hardened workload at its full size, for any number of    *)
(* replicas and any faults.                                                *)
(***************************************************************************)
EXTENDS WorkloadRollout, FiniteSetTheorems, TLAPS

PodsOf(t) == {p \in Pods : p[1] = t}

---------------------------------------------------------------------------
(* A template has as many pods as the workload has replicas.               *)
LEMMA PodCount ==
  ASSUME NEW t \in Templates
  PROVE  IsFiniteSet(PodsOf(t)) /\ Cardinality(PodsOf(t)) = Replicas
<1> DEFINE f == [i \in 1..Replicas |-> <<t, i>>]
<1>1. f \in Bijection(1..Replicas, PodsOf(t))
  <2>1. f \in [1..Replicas -> PodsOf(t)]
    BY DEF PodsOf, Pods
  <2>2. \A p \in PodsOf(t) : \E i \in 1..Replicas : f[i] = p
    BY DEF PodsOf, Pods
  <2>3. \A i, j \in 1..Replicas : f[i] = f[j] => i = j
    OBVIOUS
  <2>. QED
    BY <2>1, <2>2, <2>3 DEF Bijection, Injection, Surjection, IsInjective
<1>2. ExistsBijection(1..Replicas, PodsOf(t))
  BY <1>1 DEF ExistsBijection
<1>3. Replicas \in Nat /\ IsFiniteSet(1..Replicas) /\ Cardinality(1..Replicas) = Replicas
  BY FS_Interval, RolloutAssumption
<1>. QED
  BY <1>2, <1>3, FS_Bijection

(* So any set of them has at most as many, and all of them if as many.     *)
LEMMA SomeOf ==
  ASSUME NEW t \in Templates, NEW S \in SUBSET PodsOf(t)
  PROVE  /\ IsFiniteSet(S)
         /\ Cardinality(S) \in 0..Replicas
         /\ Cardinality(S) = Replicas => S = PodsOf(t)
<1>1. IsFiniteSet(PodsOf(t)) /\ Cardinality(PodsOf(t)) = Replicas
  BY PodCount
<1>2. /\ IsFiniteSet(S)
      /\ Cardinality(S) <= Cardinality(PodsOf(t))
      /\ Cardinality(PodsOf(t)) = Cardinality(S) => PodsOf(t) = S
  BY <1>1, FS_Subset
<1>3. Cardinality(S) \in Nat
  BY <1>2, FS_CardinalityType
<1>. QED
  BY <1>1, <1>2, <1>3, RolloutAssumption

(* The active pods of the two templates, and of both together.             *)
LEMMA ActiveCount ==
  /\ \A t \in Templates :
       /\ Active(t) \subseteq PodsOf(t) /\ IsFiniteSet(Active(t))
       /\ Cardinality(Active(t)) \in 0..Replicas
       /\ Cardinality(Active(t)) = Replicas => Active(t) = PodsOf(t)
  /\ IsFiniteSet(AllActive)
  /\ Cardinality(AllActive) =
       Cardinality(Active("plain")) + Cardinality(Active("hardened"))
<1>1. ASSUME NEW t \in Templates
      PROVE  /\ Active(t) \subseteq PodsOf(t) /\ IsFiniteSet(Active(t))
             /\ Cardinality(Active(t)) \in 0..Replicas
             /\ Cardinality(Active(t)) = Replicas => Active(t) = PodsOf(t)
  <2>1. Active(t) \subseteq PodsOf(t)
    BY DEF Active, PodsOf
  <2>. QED
    BY <2>1, SomeOf
<1>2. IsFiniteSet(Active("plain")) /\ IsFiniteSet(Active("hardened"))
  BY <1>1 DEF Templates
<1>3. Active("plain") \cap Active("hardened") = {}
  BY DEF Active
<1>4. /\ IsFiniteSet(Active("plain") \cup Active("hardened"))
      /\ Cardinality(Active("plain") \cup Active("hardened"))
           = Cardinality(Active("plain")) + Cardinality(Active("hardened"))
               - Cardinality(Active("plain") \cap Active("hardened"))
  BY <1>2, FS_Union
<1>5. Cardinality(Active("plain") \cap Active("hardened")) = 0
  BY <1>3, FS_EmptySet
<1>6. Cardinality(Active("plain")) \in Int /\ Cardinality(Active("hardened")) \in Int
  BY <1>1 DEF Templates
<1>. QED
  BY <1>1, <1>4, <1>5, <1>6 DEF AllActive

---------------------------------------------------------------------------
(* How far the object is, by where RunCheck is: the size that applying the *)
(* security context has to restore is remembered, and past the wait the    *)
(* object has its full size and the template of the run.                   *)
ObjectInv ==
  /\ pc \in {"replicas", "down"} =>
       harden /\ spec = [replicas |-> Replicas, template |-> "plain"]
  /\ pc = "replicas" => original = 0
  /\ pc = "apply" => harden /\ (original = 0 => spec.replicas = Replicas)
  /\ pc = "down" => original = Replicas
  /\ pc = "up" => harden /\ spec.template = "hardened" /\ original = Replicas
  /\ pc \in {"wait", "list", "record", "done"} =>
       spec = [replicas |-> Replicas, template |-> Wanted]

TypeInv == TypeOK /\ ObjectInv

(* The status the controller writes is one, also before it has seen the    *)
(* object.                                                                 *)
LEMMA StatusType ==
  ASSUME TypeOK
  PROVE  /\ CurrentRevision \in Templates \cup {"none"}
         /\ CurrentStatus \in [desired : 0..Replicas, updated : 0..Replicas]
<1>1. CurrentRevision \in Templates \cup {"none"}
  BY DEF TypeOK, CurrentRevision
<1>2. ASSUME NEW t \in Templates \cup {"none"}
      PROVE  Cardinality(Active(t)) \in 0..Replicas
  <2>1. CASE t \in Templates
    BY <2>1, ActiveCount
  <2>2. CASE t = "none"
    <3>1. Active("none") = {}
      BY DEF Active, Pods, Templates
    <3>. QED
      BY <2>2, <3>1, FS_EmptySet, RolloutAssumption
  <2>. QED
    BY <2>1, <2>2
<1>3. seen.replicas \in 0..Replicas /\ seen.template \in Templates \cup {"none"}
  BY DEF TypeOK
<1>. QED
  BY <1>1, <1>2, <1>3 DEF CurrentStatus

(* RunCheck begins with the size, or with the wait if there is nothing to  *)
(* apply.                                                                  *)
LEMMA InitTypeInv == Init => TypeInv
<1> SUFFICES ASSUME Init PROVE TypeInv
  OBVIOUS
<1>. USE RolloutAssumption DEF Init
<1>1. spec \in Specs /\ seen \in [replicas : 0..Replicas, template : Templates \cup {"none"}]
  BY DEF Specs, Templates
<1>2. status \in [desired : 0..Replicas, updated : 0..Replicas]
  OBVIOUS
<1>3. pods \in [Pods -> PodStates]
  BY DEF PodStates
<1>4. (pc = "replicas" /\ harden) \/ (pc = "wait" /\ ~harden)
  OBVIOUS
<1>5. /\ revision \in Templates \cup {"none"} /\ original \in {0, Replicas}
      /\ recorded \subseteq Pods /\ faults \in 0..MaxFaults
  OBVIOUS
<1>6. /\ kind \in Kinds /\ harden \in BOOLEAN /\ success \in BOOLEAN
      /\ late \in BOOLEAN /\ doomed \in BOOLEAN /\ fresh \in BOOLEAN
  OBVIOUS
<1>7. TypeOK
  <2>. HIDE DEF Init
  <2>. QED
    BY <1>1, <1>2, <1>3, <1>4, <1>5, <1>6 DEF TypeOK
<1>8. ObjectInv
  BY <1>4 DEF ObjectInv, Wanted
<1>. QED
  BY <1>7, <1>8 DEF TypeInv

(* The steps of the cluster.                                               *)
LEMMA ClusterTypeInv ==
  ASSUME TypeInv, ClusterStep
  PROVE  TypeInv'
<1>. USE DEF TypeInv
<1>1. ASSUME NEW p \in Pods, NEW state \in PodStates, Become(p, state)
      PROVE  TypeInv'
  <2>1. pods' \in [Pods -> PodStates]
    BY <1>1 DEF Become, TypeOK
  <2>. QED
    BY <1>1, <2>1 DEF Become, ClusterStep, waitVars, TypeOK, ObjectInv, Wanted
<1>2. CASE Observe
  BY <1>2 DEF Observe, ClusterStep, waitVars, TypeOK, ObjectInv, Wanted, Specs
<1>3. CASE Report
  BY <1>3, StatusType DEF Report, ClusterStep, waitVars, TypeOK, ObjectInv, Wanted
<1>4. \/ Observe \/ Report
      \/ \E p \in Pods, state \in PodStates : Become(p, state)
  BY DEF ClusterStep, Progress, Assigned, BecomesReady, PodStates
<1>. QED
  BY <1>1, <1>2, <1>3, <1>4

(* Every step keeps the type invariant and the object as far as RunCheck   *)
(* is.                                                                     *)
LEMMA TypeInvStep == TypeInv /\ [Next]_vars => TypeInv'
<1> SUFFICES ASSUME TypeInv, [Next]_vars PROVE TypeInv'
  OBVIOUS
<1>. USE RolloutAssumption DEF TypeInv
<1>1. CASE GetReplicaCount
  BY <1>1 DEF GetReplicaCount, Fault, clusterVars, waitVars, TypeOK, ObjectInv, Wanted, Specs
<1>2. CASE ScaleDown
  BY <1>2 DEF ScaleDown, Fault, clusterVars, waitVars, TypeOK, ObjectInv, Wanted, Specs
<1>3. CASE Apply
  BY <1>3 DEF Apply, Fault, clusterVars, waitVars, TypeOK, ObjectInv, Wanted, Specs, Templates
<1>4. CASE ScaleUp
  BY <1>4 DEF ScaleUp, Fault, clusterVars, waitVars, TypeOK, ObjectInv, Wanted, Specs
<1>5. CASE WaitUpdated \/ TwoMinutesPass \/ WaitTimeout
  <2>1. /\ UNCHANGED <<kind, harden, spec, clusterVars, original, recorded, success>>
        /\ pc = "wait" /\ pc' \in {"wait", "list"}
        /\ late' \in BOOLEAN /\ doomed' \in BOOLEAN
    BY <1>5 DEF WaitUpdated, TwoMinutesPass, WaitTimeout, TypeOK
  <2>2. faults' \in 0..MaxFaults
    BY <1>5 DEF WaitUpdated, TwoMinutesPass, WaitTimeout, Fault, TypeOK
  <2>3. fresh' \in BOOLEAN
    BY <1>5 DEF WaitUpdated, TwoMinutesPass, WaitTimeout, UpToDate, TypeOK
  <2>. QED
    BY <2>1, <2>2, <2>3 DEF clusterVars, TypeOK, ObjectInv, Wanted
<1>7. CASE ListPods
  <2>1. recorded' \subseteq Pods
    BY <1>7 DEF ListPods, Listed, TypeOK
  <2>2. faults' \in 0..MaxFaults /\ pc = "list" /\ pc' \in {"record", "failed"}
    BY <1>7 DEF ListPods, Fault, TypeOK
  <2>. QED
    BY <1>7, <2>1, <2>2 DEF ListPods, clusterVars, TypeOK, ObjectInv, Wanted
<1>8. CASE VerifyReadiness
  <2>1. success' \in BOOLEAN /\ fresh' \in BOOLEAN
    BY <1>8 DEF VerifyReadiness, TypeOK
  <2>2. faults' \in 0..MaxFaults /\ pc = "record" /\ pc' \in {"done", "failed"}
    BY <1>8 DEF VerifyReadiness, Fault, TypeOK
  <2>. QED
    BY <1>8, <2>1, <2>2 DEF VerifyReadiness, clusterVars, TypeOK, ObjectInv, Wanted
<1>9. CASE ClusterStep
  BY <1>9, ClusterTypeInv
<1>10. CASE UNCHANGED vars
  BY <1>10 DEF vars, clusterVars, waitVars, TypeOK, ObjectInv, Wanted
<1>. QED
  BY <1>1, <1>2, <1>3, <1>4, <1>5, <1>7, <1>8, <1>9, <1>10 DEF Next, RunStep

(* Every variable keeps its type: no status counts more pods than there    *)
(* are replicas, and the size to be restored is that of the source.        *)
THEOREM RolloutTypeCorrect == Spec => []TypeOK
<1>1. TypeInv => TypeOK
  BY DEF TypeInv
<1>. QED
  BY <1>1, InitTypeInv, TypeInvStep, PTL DEF Spec

---------------------------------------------------------------------------
(* Before the wait has ended nothing is judged and the namespace stays.    *)
(* Once it has ended on an up-to-date status the controller has nothing    *)
(* left to change in the pods of the run's template, and they stay as many *)
(* as in the source; those that were judged ready stay ready.              *)
JudgedInv ==
  /\ kind # "Deployment" => Cardinality(AllActive) <= Replicas
  /\ pc \notin {"list", "record", "done", "failed"} => ~doomed /\ ~fresh
  /\ pc # "done" => ~success
  /\ fresh => ~doomed /\ seen = [replicas |-> Replicas, template |-> Wanted]
  /\ fresh => spec = seen
  /\ fresh /\ kind # "StatefulSet" =>
       /\ Active(Wanted) = PodsOf(Wanted)
       /\ success => PodsOf(Wanted) \subseteq Ready

(* The template of the run is a template.                                  *)
LEMMA WantedTemplate == Wanted \in Templates
BY DEF Wanted, Templates

(* No pod of the run's template is then taken away.                        *)
LEMMA UpdatedPodsStay ==
  ASSUME TypeInv, JudgedInv, fresh, kind # "StatefulSet", NEW p \in PodsOf(Wanted)
  PROVE  ~MayDelete(p)
<1>1. /\ ~doomed /\ seen.replicas = Replicas /\ seen.template = Wanted /\ p[1] = Wanted
      /\ Active(Wanted) = PodsOf(Wanted)
  BY DEF JudgedInv, PodsOf
<1>2. Cardinality(Active(Wanted)) = Replicas
  BY <1>1, PodCount, WantedTemplate
<1>3. kind # "Deployment" => Cardinality(AllActive) <= Replicas
  BY DEF JudgedInv
<1>4. /\ Cardinality(AllActive) \in Nat
      /\ ~(kind # "Deployment" /\ Cardinality(AllActive) > Replicas)
  BY <1>3, ActiveCount, FS_CardinalityType, RolloutAssumption
<1>. QED
  BY <1>1, <1>2, <1>4, RolloutAssumption DEF MayDelete, MayReplace

(* A step of one pod changes the active pods by that pod.                  *)
LEMMA PodStep ==
  ASSUME TypeOK, NEW p \in Pods, NEW state \in PodStates, Become(p, state)
  PROVE  /\ \A q \in Pods : q # p => pods'[q] = pods[q]
         /\ pods'[p] = state
         /\ AllActive' \subseteq AllActive \cup {p}
         /\ state \in {"terminating", "none"} \/ p \in AllActive => AllActive' \subseteq AllActive
<1>1. pods' = [pods EXCEPT ![p] = state]
  BY DEF Become
<1>2. (\A q \in Pods : q # p => pods'[q] = pods[q]) /\ pods'[p] = state
  BY <1>1 DEF TypeOK
<1>. QED
  BY <1>2 DEF AllActive, Active

(* The cluster keeps the number of pods in bounds,                         *)
LEMMA ClusterBound ==
  ASSUME TypeInv, JudgedInv, ClusterStep, kind # "Deployment"
  PROVE  Cardinality(AllActive)' <= Replicas
<1>. USE DEF TypeInv
<1>1. Cardinality(AllActive) <= Replicas /\ IsFiniteSet(AllActive) /\ Cardinality(AllActive) \in Nat
  BY ActiveCount, FS_CardinalityType DEF JudgedInv
<1>2. ASSUME AllActive' \subseteq AllActive PROVE Cardinality(AllActive)' <= Replicas
  <2>1. Cardinality(AllActive') <= Cardinality(AllActive) /\ IsFiniteSet(AllActive')
    BY <1>1, <1>2, FS_Subset
  <2>2. Cardinality(AllActive') \in Nat
    BY <2>1, FS_CardinalityType
  <2>. QED
    BY <1>1, <2>1, <2>2, RolloutAssumption
<1>3. CASE Observe \/ Report
  <2>1. AllActive' = AllActive
    BY <1>3 DEF Observe, Report, AllActive, Active
  <2>. QED
    BY <1>2, <2>1
<1>4. ASSUME NEW p \in Pods, MayCreate(p), Become(p, "unassigned")
      PROVE  Cardinality(AllActive)' <= Replicas
  <2>1. AllActive' \subseteq AllActive \cup {p}
    BY <1>4, PodStep DEF PodStates
  <2>2. Cardinality(AllActive) < seen.replicas /\ seen.replicas \in 0..Replicas
    BY <1>1, <1>4 DEF MayCreate, TypeOK
  <2>3. /\ IsFiniteSet(AllActive \cup {p})
        /\ Cardinality(AllActive \cup {p}) <= Cardinality(AllActive) + 1
        /\ Cardinality(AllActive \cup {p}) \in Nat
    <3>1. /\ IsFiniteSet(AllActive \cup {p})
          /\ Cardinality(AllActive \cup {p}) =
               IF p \in AllActive THEN Cardinality(AllActive) ELSE Cardinality(AllActive) + 1
      BY <1>1, FS_AddElement
    <3>. QED
      BY <1>1, <3>1
  <2>4. IsFiniteSet(AllActive') /\ Cardinality(AllActive') <= Cardinality(AllActive \cup {p})
    BY <2>1, <2>3, FS_Subset
  <2>5. Cardinality(AllActive') \in Nat
    BY <2>4, FS_CardinalityType
  <2>. QED
    BY <1>1, <2>2, <2>3, <2>4, <2>5, RolloutAssumption
<1>5. ASSUME NEW p \in Pods, NEW state \in PodStates, Become(p, state),
             state \in {"terminating", "none"} \/ pods[p] \in {"unassigned", "waiting"}
      PROVE  Cardinality(AllActive)' <= Replicas
  <2>1. pods[p] \in {"unassigned", "waiting"} => p \in AllActive
    BY DEF AllActive, Active, Pods, Templates
  <2>. QED
    BY <1>2, <1>5, <2>1, PodStep
<1>. QED
  BY <1>3, <1>4, <1>5 DEF ClusterStep, Progress, Assigned, BecomesReady, PodStates

(* and leaves the updated pods alone.                                      *)
LEMMA ClusterKeepsUpdated ==
  ASSUME TypeInv, JudgedInv, ClusterStep, fresh, kind # "StatefulSet",
         NEW q \in PodsOf(Wanted)
  PROVE  q \in Active(Wanted)' /\ (q \in Ready => q \in Ready')
<1>. USE DEF TypeInv
<1>1. /\ q \in Pods /\ q[1] = Wanted /\ Wanted' = Wanted
      /\ pods[q] \in {"unassigned", "waiting", "ready"}
  BY DEF JudgedInv, PodsOf, Active, ClusterStep, Wanted
<1>2. ~MayDelete(q)
  BY UpdatedPodsStay
<1>3. pods'[q] = pods[q] \/ (pods[q] = "unassigned" /\ pods'[q] = "waiting")
        \/ (pods[q] = "waiting" /\ pods'[q] = "ready")
  <2>1. CASE Observe \/ Report
    BY <2>1 DEF Observe, Report
  <2>2. ASSUME NEW p \in Pods, NEW state \in PodStates, Become(p, state), p # q
        PROVE  pods'[q] = pods[q]
    BY <1>1, <2>2, PodStep
  <2>3. ASSUME NEW state \in PodStates, Become(q, state) PROVE pods'[q] = state
    BY <1>1, <2>3, PodStep
  <2>4. ~MayCreate(q) /\ pods[q] # "terminating"
    BY <1>1 DEF MayCreate
  <2>. QED
    BY <1>2, <2>1, <2>2, <2>3, <2>4 DEF ClusterStep, Progress, Assigned, BecomesReady, PodStates
<1>. QED
  BY <1>1, <1>3 DEF Active, Ready

(* The wait that ends on an up-to-date status leaves all pods updated.     *)
LEMMA UpdatedMeansAll ==
  ASSUME TypeInv, pc = "wait", VerifyUpdated, UpToDate
  PROVE  /\ seen = [replicas |-> Replicas, template |-> Wanted] /\ spec = seen
         /\ kind # "StatefulSet" => Active(Wanted) = PodsOf(Wanted)
<1>1. seen = [replicas |-> Replicas, template |-> Wanted] /\ spec = seen
  BY DEF TypeInv, ObjectInv, UpToDate
<1>2. ASSUME kind # "StatefulSet" PROVE Active(Wanted) = PodsOf(Wanted)
  <2>1. status.desired = Replicas /\ status.updated = Cardinality(Active(Wanted))
    BY <1>1, <1>2 DEF UpToDate, CurrentStatus
  <2>2. status.updated = Replicas
    BY <1>1, <2>1 DEF VerifyUpdated
  <2>. QED
    BY <2>1, <2>2, ActiveCount, WantedTemplate
<1>. QED
  BY <1>1, <1>2

(* Every step keeps what was judged.                                       *)
LEMMA JudgedInvStep == TypeInv /\ JudgedInv /\ [Next]_vars => JudgedInv'
<1> SUFFICES ASSUME TypeInv, JudgedInv, [Next]_vars PROVE JudgedInv'
  OBVIOUS
<1>1. ASSUME UNCHANGED <<kind, harden, clusterVars>>
      PROVE  /\ AllActive' = AllActive /\ Ready' = Ready /\ Wanted' = Wanted
             /\ Cardinality(AllActive)' = Cardinality(AllActive)
             /\ Active(Wanted)' = Active(Wanted) /\ PodsOf(Wanted)' = PodsOf(Wanted)
  BY <1>1 DEF clusterVars, AllActive, Active, Ready, Wanted, PodsOf
<1>2. CASE GetReplicaCount \/ ScaleDown \/ Apply \/ ScaleUp
  <2>1. /\ UNCHANGED <<kind, harden, clusterVars, waitVars>>
        /\ pc \notin {"list", "record", "done", "failed"} /\ pc' # "done"
    BY <1>2 DEF GetReplicaCount, ScaleDown, Apply, ScaleUp
  <2>2. ~fresh' /\ ~doomed' /\ ~success'
    BY <2>1 DEF JudgedInv, waitVars
  <2>. QED
    BY <1>1, <2>1, <2>2 DEF JudgedInv
<1>3. CASE WaitUpdated
  <2>1. /\ UNCHANGED <<kind, harden, spec, clusterVars, doomed, success>>
        /\ pc = "wait" /\ pc' = "list" /\ ~fresh /\ ~doomed /\ ~success
    BY <1>3 DEF WaitUpdated, JudgedInv
  <2>2. fresh' => VerifyUpdated /\ UpToDate
    BY <1>3, <2>1 DEF WaitUpdated
  <2>3. fresh' => /\ seen = [replicas |-> Replicas, template |-> Wanted] /\ spec = seen
                  /\ kind # "StatefulSet" => Active(Wanted) = PodsOf(Wanted)
    BY <2>1, <2>2, UpdatedMeansAll
  <2>4. UNCHANGED <<seen, spec, kind>> /\ ~success' /\ ~doomed'
    BY <2>1 DEF clusterVars
  <2>. QED
    BY <1>1, <2>1, <2>3, <2>4 DEF JudgedInv
<1>4. CASE TwoMinutesPass \/ WaitTimeout
  <2>1. /\ UNCHANGED <<kind, harden, clusterVars, success, fresh>>
        /\ pc = "wait" /\ ~fresh /\ ~success /\ pc' \in {"wait", "list"}
        /\ pc' = "wait" => doomed' = doomed
    BY <1>4 DEF TwoMinutesPass, WaitTimeout, JudgedInv
  <2>. QED
    BY <1>1, <2>1 DEF JudgedInv
<1>5. CASE ListPods
  <2>1. /\ UNCHANGED <<kind, harden, spec, clusterVars, doomed, success, fresh>>
        /\ pc = "list" /\ pc' \in {"record", "failed"}
    BY <1>5 DEF ListPods
  <2>2. UNCHANGED seen
    BY <2>1 DEF clusterVars
  <2>. QED
    BY <1>1, <2>1, <2>2 DEF JudgedInv
<1>6. CASE VerifyReadiness
  <2>1. /\ UNCHANGED <<kind, harden, spec, clusterVars, doomed>>
        /\ pc = "record" /\ pc' \in {"done", "failed"} /\ ~success
        /\ success' => pc' = "done"
        /\ fresh' => fresh
    BY <1>6 DEF VerifyReadiness, JudgedInv
  <2>2. ASSUME success', fresh', kind # "StatefulSet", NEW p \in PodsOf(Wanted)
        PROVE  p \in Ready
    <3>1. \A q \in Listed : pods[q] \in {"ready", "terminating"}
      BY <1>6, <2>1, <2>2 DEF VerifyReadiness
    <3>2. p \in Active(Wanted)
      BY <2>1, <2>2 DEF JudgedInv
    <3>. QED
      BY <3>1, <3>2 DEF Active, Listed, Ready
  <2>3. UNCHANGED seen
    BY <2>1 DEF clusterVars
  <2>. QED
    BY <1>1, <2>1, <2>2, <2>3 DEF JudgedInv
<1>7. CASE ClusterStep
  <2>1. UNCHANGED <<kind, harden, spec, pc, doomed, success, fresh>>
    BY <1>7 DEF ClusterStep, waitVars
  <2>2. kind' # "Deployment" => Cardinality(AllActive)' <= Replicas
    BY <1>7, <2>1, ClusterBound
  <2>3. Wanted' = Wanted /\ PodsOf(Wanted)' = PodsOf(Wanted)
    BY <2>1 DEF Wanted, PodsOf
  <2>4. fresh' => seen' = seen
    BY <1>7, <2>1 DEF ClusterStep, Progress, Assigned, BecomesReady, Observe, Report, Become, JudgedInv
  <2>5. ASSUME fresh', kind' # "StatefulSet"
        PROVE  /\ Active(Wanted)' = PodsOf(Wanted)'
               /\ success' => PodsOf(Wanted)' \subseteq Ready'
    <3>1. \A q \in PodsOf(Wanted) : q \in Active(Wanted)' /\ (q \in Ready => q \in Ready')
      BY <1>7, <2>1, <2>5, ClusterKeepsUpdated
    <3>2. Active(Wanted)' \subseteq PodsOf(Wanted)'
      BY DEF Active, PodsOf
    <3>3. success => PodsOf(Wanted) \subseteq Ready
      BY <2>1, <2>5 DEF JudgedInv
    <3>. QED
      BY <2>1, <2>3, <3>1, <3>2, <3>3
  <2>. QED
    BY <2>1, <2>2, <2>3, <2>4, <2>5 DEF JudgedInv
<1>8. CASE UNCHANGED vars
  <2>1. UNCHANGED <<kind, harden, spec, clusterVars, seen, pc, doomed, success, fresh>>
    BY <1>8 DEF vars, clusterVars, waitVars
  <2>. QED
    BY <1>1, <2>1 DEF JudgedInv
<1>. QED
  BY <1>2, <1>3, <1>4, <1>5, <1>6, <1>7, <1>8 DEF Next, RunStep

(* A run that was judged a success judged an object of full size with the  *)
(* run's template, and, when neither the status that ended the wait nor    *)
(* the list of pods was behind, all pods of it ready (StatefulSets aside), *)
(* however short the recording: for any number of replicas, any faults and *)
(* any pace of the cluster.                                                *)
THEOREM SuccessIsHardened == Spec => []SuccessMeansHardened
<1>1. Init => JudgedInv
  <2> SUFFICES ASSUME Init PROVE JudgedInv
    OBVIOUS
  <2>1. AllActive = {}
    BY DEF Init, AllActive, Active
  <2>2. Cardinality(AllActive) = 0
    BY <2>1, FS_EmptySet
  <2>3. /\ pc \in {"replicas", "wait"} /\ doomed = FALSE /\ fresh = FALSE /\ success = FALSE
    BY DEF Init
  <2>. QED
    BY <2>2, <2>3, RolloutAssumption DEF JudgedInv
<1>2. TypeInv /\ JudgedInv => SuccessMeansHardened
  BY DEF TypeInv, ObjectInv, JudgedInv, SuccessMeansHardened, PodsOf
<1>. QED
  BY <1>1, <1>2, InitTypeInv, TypeInvStep, JudgedInvStep, PTL DEF Spec
============================================================================
