------------------------- MODULE NamespaceHardening -------------------------
(***************************************************************************)
(* One NamespaceHardeningCheck: Reconcile makes a WorkloadHardeningCheck   *)
(* for each workload of the target namespace, waits for them, and tries    *)
(* all recommendations together in a clone of the namespace (the final     *)
(* run).  Of each workload check only what CheckPromise says of it is      *)
(* known here.                                                             *)
(*                                                                         *)
(* Everything Reconcile reads, but the lists of GetTopLevelResources,      *)
(* comes from the manager's cache.                                         *)
(***************************************************************************)
EXTENDS Naturals, CheckPromise

CONSTANTS
  Workloads,    \* Deployments and StatefulSets of the target namespace
  Others,       \* checks in it that the user has made
  OtherTarget,  \* the workload each of them is about
  CacheLag,     \* the cache may be behind
  FaultKinds,   \* the kinds of faults that may happen
  MaxFaults     \* and how many of them

ASSUME OthersAssumption ==
  /\ Others \cap Workloads = {} /\ OtherTarget \in [Others -> Workloads]
  /\ FailureReasons \cap {"no", "absent"} = {}
ASSUME NamespaceBounds == MaxFaults \in Nat /\ CacheLag \in BOOLEAN

(* The check Reconcile makes for a workload goes by the workload's name.   *)
CheckIds == Workloads \cup Others
TargetRef(i) == IF i \in Workloads THEN i ELSE OtherTarget[i]

VARIABLES
  target,       \* the target namespace exists
  nhc,          \* the NamespaceHardeningCheck
  checks,       \* the WorkloadHardeningChecks of the target namespace
  ncache,       \* nhc and
  wcache,       \*   checks, in the manager's cache
  sweep,        \* the deleted checks to be cleaned up after
  pc,           \* where Reconcile is
  todo,         \* what its current loop has still to visit
  made,         \* it found or made a check
  batch,        \* the workloads found in the final namespace
  mem,          \* the recommendations of its copy of the object
  wake,         \* the work queue
  finalns,      \* the namespace of the final run
  fcache,       \*   and whether the manager's cache has it
  bindings,     \* ClusterRoleBindings were cloned for it and are still there
  copy,         \* the workloads in it
  shown,        \* history: recommendations a workload was seen ready with
  missed,       \* history: workloads a final run has gone on without
  faults        \* history: how many faults there were, and of which kinds

reconcileVars == <<pc, todo, made, batch, mem>>
finalVars == <<finalns, fcache, bindings, copy, shown, missed>>
vars == <<target, nhc, checks, ncache, wcache, sweep, reconcileVars, wake, finalVars, faults>>

---------------------------------------------------------------------------
(* The Finished condition, by its reason.                                  *)
InProgress == {"None", "NotFound", "Preparation", "Created", "InProgress", "FinalCheck"}
Finished == {"NoResources", "Success", "Failed", "Error"}

(* A map from workloads to what is recommended for them, as pairs.         *)
Recommendations == Workloads \X SUBSET Checks

Object == [exists : BOOLEAN, cond : InProgress \cup Finished, recs : SUBSET Recommendations]

NoCheck == [NoPromise EXCEPT !.finished = "absent"]
CheckStates == Promises \cup {NoCheck}

(* What a workload in the final namespace is: not there, as cloned, told   *)
(* to use its recommendation, and rolled out with it.                      *)
CopyStates == {"none", "plain", "asked", "hardened"}

Faults == [count : 0..MaxFaults, kinds : SUBSET FaultKinds]

TypeOK ==
  /\ target \in BOOLEAN
  /\ nhc \in Object /\ ncache \in Object
  /\ checks \in [CheckIds -> CheckStates] /\ wcache \in [CheckIds -> CheckStates]
  /\ sweep \subseteq CheckIds
  /\ pc \in {"idle", "discover", "create", "list", "clone", "apply", "verify",
             "deleteOk", "deleteFailed", "success", "failed", "error"}
  /\ todo \subseteq Workloads /\ batch \subseteq Workloads
  /\ made \in BOOLEAN
  /\ mem \subseteq Recommendations /\ shown \subseteq Recommendations
  /\ wake \subseteq {"event", "timer"}
  /\ finalns \in {"absent", "active", "terminating"}
  /\ fcache \in BOOLEAN /\ bindings \in BOOLEAN
  /\ copy \in [Workloads -> CopyStates] /\ missed \subseteq Workloads
  /\ faults \in Faults

---------------------------------------------------------------------------
Fault(kind) ==
  /\ kind \in FaultKinds /\ faults.count < MaxFaults
  /\ faults' = [count |-> faults.count + 1, kinds |-> faults.kinds \cup {kind}]

Seen == IF CacheLag THEN ncache ELSE nhc
SeenChecks == IF CacheLag THEN wcache ELSE checks
SeenFinal == IF CacheLag THEN fcache ELSE finalns # "absent"

IsFinished(check) == check.finished \notin {"no", "absent"}

(* Read from the cache, change and write.  A copy that is behind is a      *)
(* conflict, and after a few retries, through which the cache does not     *)
(* catch up, the write is lost, as it is when the call fails.  All callers *)
(* ignore the error.                                                       *)
Write(new) == nhc' = IF nhc.exists /\ Seen = nhc THEN new ELSE nhc

Update(new) ==
  \/ Write(new) /\ UNCHANGED faults
  \/ Fault("api") /\ UNCHANGED nhc

SetCondition(reason) == Update([nhc EXCEPT !.cond = reason])

(* Reconcile returns, to be called again after a while or not.             *)
Return(again) ==
  /\ pc' = "idle" /\ todo' = {} /\ made' = FALSE /\ batch' = {} /\ mem' = {}
  /\ wake' = IF again THEN wake \cup {"timer"} ELSE wake

TakeRequest == pc = "idle" /\ \E request \in wake : wake' = wake \ {request}

(* A deleted object is not cleaned up after, a finished one is skipped,    *)
(* and one without a namespace is left alone.                              *)
ReconcileSkips ==
  /\ TakeRequest
  /\ \/ ~Seen.exists /\ UNCHANGED <<nhc, faults>>
     \/ Seen.exists /\ Seen.cond \in Finished /\ UNCHANGED <<nhc, faults>>
     \/ Seen.exists /\ Seen.cond \notin Finished /\ ~target /\ SetCondition("NotFound")
  /\ UNCHANGED <<target, checks, ncache, wcache, sweep, reconcileVars, finalVars>>

(* The object or the namespace cannot be read.                             *)
ReconcileGetFails ==
  /\ pc = "idle" /\ wake # {}
  /\ wake' = {"timer"}
  /\ Fault("api")
  /\ UNCHANGED <<target, nhc, checks, ncache, wcache, sweep, reconcileVars, finalVars>>

(* Mutant of ReconcileBegins: a finished object is not skipped.            *)
ReconcileBeginsAlways ==
  /\ TakeRequest
  /\ Seen.exists /\ target
  /\ IF Seen.cond = "None" THEN SetCondition("Preparation") ELSE UNCHANGED <<nhc, faults>>
  /\ pc' = "discover" /\ mem' = Seen.recs
  /\ UNCHANGED <<target, checks, ncache, wcache, sweep, todo, made, batch, finalVars>>

ReconcileBegins ==
  /\ TakeRequest
  /\ Seen.exists /\ Seen.cond \notin Finished /\ target
  /\ IF Seen.cond = "None" THEN SetCondition("Preparation") ELSE UNCHANGED <<nhc, faults>>
  /\ pc' = "discover" /\ mem' = Seen.recs
  /\ UNCHANGED <<target, checks, ncache, wcache, sweep, todo, made, batch, finalVars>>

(* getTopLevelResourcesToCheck: kinds that cannot be listed are left out,  *)
(* and a namespace in which nothing is found is finished.                  *)
Discover ==
  /\ pc = "discover"
  /\ \/ /\ Workloads # {}
        /\ \/ todo' = Workloads /\ UNCHANGED faults
           \/ todo' \in SUBSET Workloads \ {{}} /\ Fault("api")
        /\ pc' = "create"
        /\ UNCHANGED <<nhc, made, batch, mem, wake>>
     \/ Workloads = {} /\ SetCondition("NoResources") /\ Return(FALSE)
     \/ Fault("api") /\ Write([nhc EXCEPT !.cond = "NoResources"]) /\ Return(FALSE)
  /\ UNCHANGED <<target, checks, ncache, wcache, sweep, finalVars>>

(* A check that is already in the cache is counted, one that is not is     *)
(* created; the error of a Create that fails only skips the workload: the  *)
(* check is there already, or the webhook finds the workload not running.  *)
CreateWorkloadHardeningCheck(w) ==
  /\ pc = "create" /\ w \in todo
  /\ todo' = todo \ {w}
  /\ \/ /\ SeenChecks[w] # NoCheck
        /\ made' = TRUE /\ UNCHANGED <<checks, wake, faults>>
     \/ /\ SeenChecks[w] = NoCheck /\ checks[w] = NoCheck
        /\ checks' = [checks EXCEPT ![w] = NoPromise]
        /\ made' = TRUE
        /\ wake' = IF CacheLag THEN wake ELSE wake \cup {"event"}
        /\ UNCHANGED faults
     \/ /\ SeenChecks[w] = NoCheck /\ checks[w] # NoCheck
        /\ UNCHANGED <<checks, made, wake, faults>>
     \/ Fault("rejected") /\ UNCHANGED <<checks, made, wake>>
  /\ UNCHANGED <<target, nhc, ncache, wcache, sweep, pc, batch, mem, finalVars>>

ChecksCreated ==
  /\ pc = "create" /\ todo = {}
  /\ IF made THEN SetCondition("Created") ELSE UNCHANGED <<nhc, faults>>
  /\ pc' = "list"
  /\ UNCHANGED <<target, checks, ncache, wcache, sweep, todo, made, batch, mem, wake, finalVars>>

ListedChecks == {i \in CheckIds : SeenChecks[i] # NoCheck}

ListFails ==
  /\ pc = "list" /\ Fault("api")
  /\ Return(TRUE)
  /\ UNCHANGED <<target, nhc, checks, ncache, wcache, sweep, finalVars>>


NotAllFinished ==
  /\ pc = "list"
  /\ \E i \in ListedChecks : ~IsFinished(SeenChecks[i])
  /\ SetCondition("InProgress") /\ Return(TRUE)
  /\ UNCHANGED <<target, checks, ncache, wcache, sweep, finalVars>>

(* Mutant of Collected: the recommendations by check.                      *)
CollectedByCheck ==
  {{<<i, SeenChecks[i].merged>> : i \in {j \in ListedChecks : SeenChecks[j].recommended}}}

(* The recommendations by workload; of several for one workload the last   *)
(* in the list is kept.                                                    *)
Collected ==
  {r \in SUBSET {<<TargetRef(i), SeenChecks[i].merged>> :
                   i \in {j \in ListedChecks : SeenChecks[j].recommended}} :
     /\ \A i \in ListedChecks : SeenChecks[i].recommended => \E p \in r : p[1] = TargetRef(i)
     /\ \A p, q \in r : p[1] = q[1] => p = q}

(* The write may be lost, the copy in memory has the recommendations       *)
(* nevertheless, unless the object is gone.                                *)
AllFinished ==
  /\ pc = "list"
  /\ \A i \in ListedChecks : IsFinished(SeenChecks[i])
  /\ \E r \in Collected :
       /\ Update([nhc EXCEPT !.recs = r, !.cond = "FinalCheck"])
       /\ mem' = IF Seen.exists THEN r ELSE mem
  /\ pc' = "clone"
  /\ UNCHANGED <<target, checks, ncache, wcache, sweep, todo, made, batch, wake, finalVars>>

---------------------------------------------------------------------------
(* What GetTopLevelResources, which asks the API server, finds of the      *)
(* workloads.  Where it finds nothing at all the run is a success, and the *)
(* namespace stays; other resources may be there without a workload.       *)
FinalBegins(found) ==
  /\ todo' = found /\ batch' = found
  /\ missed' = missed \cup (Workloads \ found)
  /\ IF found = {} THEN pc' \in {"success", "apply"} ELSE pc' = "apply"

(* createFinalCheckRun.  Clone refuses a namespace that is in the cache;   *)
(* what is not and exists nevertheless, the namespace or one of the        *)
(* ClusterRoleBindings an earlier run has left, is AlreadyExists: nothing  *)
(* is cloned and the run goes on with what there is.  Resources that       *)
(* cannot be cloned or listed are left out.                                *)
FinalClone ==
  /\ pc = "clone"
  /\ \/ /\ SeenFinal /\ pc' = "error"
        /\ UNCHANGED <<todo, batch, finalns, bindings, copy, missed, faults>>
     \/ /\ ~SeenFinal /\ finalns # "absent"
        /\ FinalBegins({w \in Workloads : copy[w] # "none"})
        /\ UNCHANGED <<finalns, bindings, copy, faults>>
     \/ /\ ~SeenFinal /\ finalns = "absent" /\ bindings
        /\ finalns' = "active" /\ FinalBegins({})
        /\ UNCHANGED <<bindings, copy, faults>>
     \/ /\ ~SeenFinal /\ finalns = "absent" /\ ~bindings
        /\ finalns' = "active" /\ bindings' \in BOOLEAN
        /\ \E cloned \in SUBSET Workloads :
             /\ IF cloned = Workloads THEN UNCHANGED faults ELSE Fault("clone")
             /\ copy' = [w \in Workloads |-> IF w \in cloned THEN "plain" ELSE "none"]
             /\ FinalBegins(cloned)
     \/ /\ ~SeenFinal /\ finalns = "absent" /\ Fault("clone")
        /\ finalns' \in {"absent", "active"} /\ pc' = "error"
        /\ bindings' \in BOOLEAN /\ (finalns' = "absent" => bindings' = bindings)
        /\ UNCHANGED <<todo, batch, copy, missed>>
  /\ UNCHANGED <<target, nhc, checks, ncache, wcache, sweep, made, mem, wake, fcache, shown>>

(* Where the loop that applies the recommendations waits.                  *)
Waiting == {w \in todo : copy[w] \in {"asked", "hardened"}}

(* A workload that cannot be read: a call fails, it goes away with its     *)
(* namespace, or it has not reached the cache.                             *)
Unreadable ==
  \/ Fault("get")
  \/ (finalns # "active" \/ CacheLag) /\ UNCHANGED faults

(* Such a workload is skipped.  The error of the update of one that can be *)
(* read is ignored, and the wait for a workload that goes away goes by the *)
(* status it had.                                                          *)
FinalApply(w) ==
  /\ pc = "apply" /\ w \in todo /\ Waiting = {}
  /\ \/ /\ \A p \in mem : p[1] # w
        /\ todo' = todo \ {w} /\ UNCHANGED <<copy, missed, faults>>
     \/ /\ copy[w] # "none" /\ \E p \in mem : p[1] = w
        /\ copy' = [copy EXCEPT ![w] = "asked"] /\ UNCHANGED <<todo, missed, faults>>
     \/ /\ Unreadable \/ Fault("api")
        /\ todo' = todo \ {w} /\ missed' = missed \cup {w} /\ UNCHANGED copy
  /\ UNCHANGED <<target, nhc, checks, ncache, wcache, sweep, pc, made, batch, mem, wake,
                 finalns, fcache, bindings, shown>>

(* Mutant of FinalUpdated: the update is not waited for.                   *)
FinalUpdatedAtOnce(w) ==
  /\ pc = "apply" /\ w \in Waiting
  /\ todo' = todo \ {w}
  /\ UNCHANGED <<target, nhc, checks, ncache, wcache, sweep, pc, made, batch, mem, wake, finalVars, faults>>

(* VerifyUpdated compares two numbers of the workload's status, which are  *)
(* equal before Kubernetes has noticed the update as well.                 *)
FinalUpdated(w) ==
  /\ pc = "apply" /\ w \in Waiting
  /\ IF copy[w] = "asked"
     THEN Fault("slow") /\ missed' = missed \cup {w}
     ELSE UNCHANGED <<faults, missed>>
  /\ todo' = todo \ {w}
  /\ UNCHANGED <<target, nhc, checks, ncache, wcache, sweep, pc, made, batch, mem, wake,
                 finalns, fcache, bindings, copy, shown>>

FinalApplied ==
  /\ pc = "apply" /\ todo = {}
  /\ pc' = "verify" /\ todo' = batch
  /\ UNCHANGED <<target, nhc, checks, ncache, wcache, sweep, made, batch, mem, wake, finalVars, faults>>

(* Mutant of FinalVerify: the timeout ends the wait for one workload.      *)
FinalVerifyGoesOn(w) ==
  /\ pc = "verify" /\ w \in todo
  /\ todo' = todo \ {w}
  /\ \/ copy[w] = "hardened" /\ shown' = shown \cup {p \in mem : p[1] = w}
     \/ UNCHANGED shown
  /\ UNCHANGED <<target, nhc, checks, ncache, wcache, sweep, pc, made, batch, mem, wake,
                 finalns, fcache, bindings, copy, missed, faults>>

(* VerifyReadiness of a workload, until it is ready or two minutes after   *)
(* the recommendations were applied are over.                              *)
FinalVerify(w) ==
  /\ pc = "verify" /\ w \in todo
  /\ \/ /\ copy[w] # "none" /\ todo' = todo \ {w} /\ pc' = pc
        /\ shown' = IF copy[w] = "hardened" THEN shown \cup {p \in mem : p[1] = w} ELSE shown
        /\ UNCHANGED <<missed, faults>>
     \/ todo' = {} /\ pc' = "deleteFailed" /\ UNCHANGED <<shown, missed, faults>>
     \/ /\ Unreadable
        /\ todo' = todo \ {w} /\ missed' = missed \cup {w} /\ UNCHANGED <<pc, shown>>
  /\ UNCHANGED <<target, nhc, checks, ncache, wcache, sweep, made, batch, mem, wake,
                 finalns, fcache, bindings, copy>>

FinalVerified ==
  /\ pc = "verify" /\ todo = {}
  /\ pc' = "deleteOk"
  /\ UNCHANGED <<target, nhc, checks, ncache, wcache, sweep, todo, made, batch, mem, wake, finalVars, faults>>

(* Mutant of FinalDelete: the namespace of a failed run is kept.           *)
FinalDeleteOnSuccess ==
  /\ pc \in {"deleteOk", "deleteFailed"}
  /\ finalns' = IF pc = "deleteOk" THEN "terminating" ELSE finalns
  /\ pc' = IF pc = "deleteOk" THEN "success" ELSE "failed"
  /\ UNCHANGED <<target, nhc, checks, ncache, wcache, sweep, todo, made, batch, mem, wake,
                 fcache, bindings, copy, shown, missed, faults>>

(* namespace.Delete takes the namespace away and then its bindings, those  *)
(* that are in the cache.                                                  *)
DeletesFinal ==
  /\ finalns # "absent" /\ finalns' = "terminating"
  /\ bindings' \in {FALSE, CacheLag /\ bindings}

(* A namespace that is not in the cache counts as deleted; it is an error  *)
(* that one that is cannot be deleted or is gone.                          *)
FinalDelete ==
  /\ pc \in {"deleteOk", "deleteFailed"}
  /\ \/ /\ \/ SeenFinal /\ DeletesFinal
           \/ ~SeenFinal /\ UNCHANGED <<finalns, bindings>>
        /\ pc' = IF pc = "deleteOk" THEN "success" ELSE "failed"
        /\ UNCHANGED faults
     \/ /\ \/ SeenFinal /\ finalns = "absent" /\ UNCHANGED faults
           \/ Fault("api")
        /\ pc' = "error" /\ UNCHANGED <<finalns, bindings>>
  /\ UNCHANGED <<target, nhc, checks, ncache, wcache, sweep, todo, made, batch, mem, wake,
                 fcache, copy, shown, missed>>

(* The result is written; an error is returned as well.                    *)
Conclude ==
  /\ \/ pc = "success" /\ SetCondition("Success") /\ Return(FALSE)
     \/ pc = "failed" /\ SetCondition("Failed") /\ Return(FALSE)
     \/ pc = "error" /\ SetCondition("Error") /\ Return(TRUE)
  /\ UNCHANGED <<target, checks, ncache, wcache, sweep, finalVars>>

Reconcile ==
  \/ ReconcileSkips \/ ReconcileGetFails \/ ReconcileBegins \/ Discover
  \/ \E w \in Workloads : CreateWorkloadHardeningCheck(w)
  \/ ChecksCreated \/ ListFails \/ NotAllFinished \/ AllFinished
  \/ FinalClone \/ FinalApplied \/ FinalVerified \/ FinalDelete \/ Conclude
  \/ \E w \in Workloads : FinalApply(w) \/ FinalUpdated(w) \/ FinalVerify(w)

---------------------------------------------------------------------------
(* A workload check goes on, as it has promised.                           *)
CheckStep(i) ==
  /\ checks[i] # NoCheck
  /\ \E q \in Promises : PromiseStep(checks[i], q) /\ checks' = [checks EXCEPT ![i] = q]
  /\ UNCHANGED <<target, nhc, ncache, wcache, sweep, reconcileVars, wake, finalVars, faults>>

(* Kubernetes replaces the pods of an updated workload.                    *)
Rollout(w) ==
  /\ copy[w] = "asked"
  /\ copy' = [copy EXCEPT ![w] = "hardened"]
  /\ UNCHANGED <<target, nhc, checks, ncache, wcache, sweep, reconcileVars, wake,
                 finalns, fcache, bindings, shown, missed, faults>>

NamespaceGone ==
  /\ finalns = "terminating"
  /\ finalns' = "absent" /\ copy' = [w \in Workloads |-> "none"]
  /\ UNCHANGED <<target, nhc, checks, ncache, wcache, sweep, reconcileVars, wake,
                 fcache, bindings, shown, missed, faults>>

(* The watches deliver; a check made by Reconcile that has appeared or     *)
(* gone since is an event for its owner.                                   *)
CacheSync ==
  /\ CacheLag
  /\ \/ /\ ncache # nhc /\ ncache' = nhc
        /\ UNCHANGED <<wcache, wake, fcache>>
     \/ /\ wcache # checks /\ wcache' = checks
        /\ wake' = IF \E w \in Workloads : (wcache[w] = NoCheck) # (checks[w] = NoCheck)
                     THEN wake \cup {"event"} ELSE wake
        /\ UNCHANGED <<ncache, fcache>>
     \/ /\ fcache # (finalns # "absent") /\ fcache' = (finalns # "absent")
        /\ UNCHANGED <<ncache, wcache, wake>>
  /\ UNCHANGED <<target, nhc, checks, sweep, reconcileVars,
                 finalns, bindings, copy, shown, missed, faults>>

(* The user deletes a check of a workload,                                 *)
DeleteWorkloadCheck(i) ==
  /\ checks[i] # NoCheck
  /\ Fault("delete")
  /\ checks' = [checks EXCEPT ![i] = NoCheck]
  /\ sweep' = sweep \cup {i}
  /\ wake' = IF CacheLag \/ i \in Others THEN wake ELSE wake \cup {"event"}
  /\ UNCHANGED <<target, nhc, ncache, wcache, reconcileVars, finalVars>>

(* or the object itself, and with it the checks it owns,                   *)
DeleteObject ==
  /\ nhc.exists
  /\ Fault("delete")
  /\ nhc' = [nhc EXCEPT !.exists = FALSE]
  /\ checks' = [i \in CheckIds |-> IF i \in Workloads THEN NoCheck ELSE checks[i]]
  /\ sweep' = sweep \cup {w \in Workloads : checks[w] # NoCheck}
  /\ wake' = wake \cup {"event"}
  /\ UNCHANGED <<target, ncache, wcache, reconcileVars, finalVars>>

(* The controller of the workload checks reconciles one that is gone, and  *)
(* deletes what carries the label of their namespace: also the namespace   *)
(* of the final run.                                                       *)
CleanupReconcileLoop(i) ==
  /\ i \in sweep
  /\ sweep' = sweep \ {i}
  /\ \/ SeenChecks[i] = NoCheck /\ SeenFinal /\ DeletesFinal /\ UNCHANGED faults
     \/ /\ SeenChecks[i] # NoCheck \/ ~SeenFinal \/ finalns = "absent"
        /\ UNCHANGED <<finalns, bindings, faults>>
     \/ Fault("api") /\ UNCHANGED <<finalns, bindings>>
  /\ UNCHANGED <<target, nhc, checks, ncache, wcache, reconcileVars, wake,
                 fcache, copy, shown, missed>>

(* The user changes the spec, or makes the namespace, which is no event.   *)
EditSpec ==
  /\ nhc.exists /\ Fault("edit")
  /\ wake' = wake \cup {"event"}
  /\ UNCHANGED <<target, nhc, checks, ncache, wcache, sweep, reconcileVars, finalVars>>

CreateTarget ==
  /\ ~target /\ Fault("edit")
  /\ target' = TRUE
  /\ UNCHANGED <<nhc, checks, ncache, wcache, sweep, reconcileVars, wake, finalVars>>

(* The operator dies, perhaps between the two halves of a deletion, and    *)
(* starts again with fresh caches.                                         *)
Crash ==
  /\ Fault("crash")
  /\ pc' = "idle" /\ todo' = {} /\ made' = FALSE /\ batch' = {} /\ mem' = {}
  /\ wake' = IF nhc.exists THEN {"event"} ELSE {}
  /\ \/ UNCHANGED finalns
     \/ /\ pc \in {"deleteOk", "deleteFailed"} /\ finalns = "active"
        /\ finalns' = "terminating"
  /\ ncache' = (IF CacheLag THEN nhc ELSE ncache)
  /\ wcache' = (IF CacheLag THEN checks ELSE wcache)
  /\ fcache' = (IF CacheLag THEN finalns' # "absent" ELSE fcache)
  /\ sweep' = {}
  /\ UNCHANGED <<target, nhc, checks, bindings, copy, shown, missed>>

Environment ==
  \/ \E i \in CheckIds : CheckStep(i) \/ DeleteWorkloadCheck(i) \/ CleanupReconcileLoop(i)
  \/ \E w \in Workloads : Rollout(w)
  \/ NamespaceGone \/ CacheSync \/ DeleteObject \/ EditSpec \/ CreateTarget \/ Crash

---------------------------------------------------------------------------
NewObject == [exists |-> TRUE, cond |-> "None", recs |-> {}]

(* The object was just created.  The user's checks may be there.           *)
Init ==
  /\ target \in BOOLEAN
  /\ nhc = NewObject /\ ncache = NewObject
  /\ checks = [i \in CheckIds |-> IF i \in Others THEN NoPromise ELSE NoCheck]
  /\ wcache = checks
  /\ sweep = {}
  /\ pc = "idle" /\ todo = {} /\ made = FALSE /\ batch = {} /\ mem = {}
  /\ wake = {"event"}
  /\ finalns = "absent" /\ fcache = FALSE /\ bindings = FALSE
  /\ copy = [w \in Workloads |-> "none"]
  /\ shown = {} /\ missed = {}
  /\ faults = [count |-> 0, kinds |-> {}]

Next == Reconcile \/ Environment
Spec == Init /\ [][Next]_vars

(* The work queue is served and Reconcile goes on, Kubernetes rolls out    *)
(* and deletes, the watches deliver.  That a workload check gets anywhere  *)
(* is not assumed.                                                         *)
Fairness ==
  /\ WF_vars(Reconcile)
  /\ \A w \in Workloads : WF_vars(Rollout(w))
  /\ WF_vars(NamespaceGone)
  /\ WF_vars(CacheSync)

FairSpec == Spec /\ Fairness

---------------------------------------------------------------------------
(* "All WorkloadHardeningChecks are finished, we can run a final check     *)
(* with all workloads hardened at once": every workload has a finished     *)
(* check when the final run begins.                                        *)
FinalAfterAllFinished ==
  pc = "clone" => \A w \in Workloads : IsFinished(checks[w])

Accounted(recs) == \A p \in recs : p \in shown \/ p[1] \in missed

(* "Make sure all resources are successfully running after applying        *)
(* security context": a final run succeeds only when each workload was     *)
(* seen ready with what is recommended for it, or was one the run has gone *)
(* on without, whatever fails, is deleted or is read from a stale cache.   *)
RunAccounted == pc = "success" => Accounted(mem)

(* And as long as no write of the status is lost, Success says that of     *)
(* what the status recommends.                                             *)
SuccessMeansShown == nhc.cond = "Success" => Accounted(nhc.recs)

(* "NamespaceHardeningCheck is already finished, skipping reconciliation": *)
(* a result is never replaced.                                             *)
ResultStable == [][nhc.cond \in Finished => nhc'.cond = nhc.cond]_vars


(* "to ensure it gets cleaned up automatically": no namespace of a final   *)
(* run is left in the end, unless its resources could not be cloned or the *)
(* operator died.                                                          *)
FinalNamespaceGone ==
  <>[](faults.kinds \cap {"clone", "crash"} = {} => finalns = "absent" /\ ~bindings)
============================================================================
