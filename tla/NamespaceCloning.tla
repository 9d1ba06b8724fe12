-------------------------- MODULE NamespaceCloning --------------------------
(***************************************************************************)
(* internal/namespace (Clone, Delete, GetTopLevelResources) and the two    *)
(* callers that share it: RunCheck (internal/runner/runner.go), which      *)
(* clones the source namespace for one run and deletes the clone after it, *)
(* and cleanupReconcileLoop, which sweeps after a deleted check.  The      *)
(* WorkloadHardeningChecks of ONE source namespace work side by side.      *)
(*                                                                         *)
(* A runner is <<check, run type, copy>>, the sweeper of a deleted check   *)
(* is <<check, "cleanup", 0>>.  A name is what tells the target namespaces *)
(* of one source apart: <<suffix, the characters left of the run type>>.   *)
(* When the reconciler starts a run, and what a recording holds, is        *)
(* abstracted here; WorkloadReconciler and CheckRunner model it.           *)
(***************************************************************************)
EXTENDS Naturals, FiniteSets, Sequences

CONSTANTS
  Checks,      \* the WorkloadHardeningChecks of the source namespace
  SuffixOf,    \* spec.suffix of each
  Types,       \* the run types of each
  Spelling,    \* the characters of each run type, in lower case
  Copies,      \* how many runners of one run may be alive at a time
  BaseLength,  \* the length of the source namespace's name
  SuffixLength,\* the length of a suffix
  Bindings,    \* ClusterRoleBindings of the source's service accounts
  Resources,   \* the objects in the source namespace
  FaultKinds, MaxFaults

ASSUME CloningAssumption ==
  /\ "baseline" \in Types /\ "cleanup" \notin Types
  /\ SuffixOf \in [Checks -> STRING]
  /\ Spelling \in [Types -> Seq(STRING)]
  /\ BaseLength \in 1..63 /\ SuffixLength \in 1..15
  /\ Bindings \cap Resources = {}
  /\ \A x \in Resources : x.owned \in BOOLEAN /\ x.auto \in BOOLEAN
  /\ Copies \subseteq Nat /\ MaxFaults \in Nat

VARIABLES
  exists,   \* the checks that are not deleted
  cond,     \* the condition of each run of each check
  ns,       \* the target namespaces
  content,  \* what each holds of the source's objects
  crbs,     \* the cloned ClusterRoleBindings: <<binding, target>>
  act,      \* the runners and the sweepers
  names,    \* the namespaces a sweeper still has to delete
  spoiled,  \* history: the conditions a run of which was reported as failed
  faults    \* history: how many faults there were, and of which kinds

vars == <<exists, cond, ns, content, crbs, act, names, spoiled, faults>>

---------------------------------------------------------------------------
AtMost(n, limit) == IF n > limit THEN limit ELSE n

(* The base is cut to 45 characters, base-suffix-type to 63: the type gets *)
(* the room that is left.                                                  *)
generateTargetNamespaceName(c, t) ==
  <<SuffixOf[c],
    SubSeq(Spelling[t], 1,
           AtMost(Len(Spelling[t]),
                  63 - AtMost(BaseLength, 45) - SuffixLength - 2))>>

(* The API server takes no name that ends in a hyphen.                     *)
ValidName(n) == n[2][Len(n[2])] # "-"

Names == {generateTargetNamespaceName(c, t) : c \in Checks, t \in Types}

Runners  == Checks \X Types \X Copies
Sweeper(c) == <<c, "cleanup", 0>>
Sweepers == {Sweeper(c) : c \in Checks}
Actors   == Runners \cup Sweepers

(* Both baseline runs report in one condition.                             *)
CondOf(t) == IF t = "baseline-2" THEN "baseline" ELSE t
Conds == {CondOf(t) : t \in Types}

(* The entries are plurals, and are compared with the lower-cased Kind.    *)
resourcesToSkip ==
  {"bindings", "localsubjectaccessreviews", "endpointslices", "endpoints",
   "events", "ingresses", "httproutes", "gateways", "podmetrics",
   "controllerrevisions", "workloadhardeningchecks",
   "namespacehardeningchecks"}

getAllResources == {x \in Resources : x.kind \notin resourcesToSkip}
GetTopLevelResources == {x \in getAllResources : ~x.owned}

(* Every namespace gets the default service account and the root           *)
(* certificate by itself.                                                  *)
ToClone == {x \in GetTopLevelResources : ~x.auto}

---------------------------------------------------------------------------
Steps == {"idle", "start", "ensure", "create", "bind", "copy", "fetch", "wait",
          "resume", "record", "delete", "list", "unbind", "sweep", "next"}

Actor == [pc : Steps, then : {"idle", "ensure", "resume", "next"},
          left : SUBSET (Bindings \cup Resources), target : Names,
          unknown : BOOLEAN]

Idle(n) == [pc |-> "idle", then |-> "idle", left |-> {}, target |-> n,
            unknown |-> FALSE]

NameOf(r) == generateTargetNamespaceName(r[1], r[2])

CondValues == {"absent", "Recording", "Recorded", "Unknown"}
Faults == [count : 0..MaxFaults, kinds : SUBSET FaultKinds]

TypeOK ==
  /\ exists \subseteq Checks
  /\ cond \in [Checks \X Conds -> CondValues]
  /\ ns \in [Names -> {"absent", "present", "terminating"}]
  /\ content \in [Names -> SUBSET Resources]
  /\ crbs \subseteq Bindings \X Names
  /\ act \in [Actors -> Actor]
  /\ \A r \in Runners : act[r].target = NameOf(r)
  /\ names \in [Checks -> SUBSET Names]
  /\ spoiled \subseteq Checks \X Conds
  /\ faults \in Faults

Init ==
  /\ exists = Checks
  /\ cond = [k \in Checks \X Conds |-> "absent"]
  /\ ns = [n \in Names |-> "absent"]
  /\ content = [n \in Names |-> {}]
  /\ crbs = {}
  /\ act = [a \in Actors |-> Idle(IF a \in Runners THEN NameOf(a)
                                  ELSE CHOOSE n \in Names : TRUE)]
  /\ names = [c \in Checks |-> {}]
  /\ spoiled = {}
  /\ faults = [count |-> 0, kinds |-> {}]

Fault(kind) ==
  /\ kind \in FaultKinds /\ faults.count < MaxFaults
  /\ faults' = [count |-> faults.count + 1, kinds |-> faults.kinds \cup {kind}]

At(a, step)   == act[a].pc = step
Target(a)     == act[a].target
GoTo(a, step) == act' = [act EXCEPT ![a].pc = step, ![a].left = {}]
Loop(a, step, todo) == act' = [act EXCEPT ![a].pc = step, ![a].left = todo]
Return(a)     == act' = [act EXCEPT ![a] = Idle(Target(a))]

Key(r) == <<r[1], CondOf(r[2])>>

(* SetCondition on a check that is gone changes nothing.                   *)
Set(r, value) ==
  cond' = IF r[1] \in exists THEN [cond EXCEPT ![Key(r)] = value] ELSE cond

setStatusRunning(r) == Set(r, "Recording") /\ UNCHANGED spoiled
setStatusFailed(r)  == Set(r, "Unknown") /\ spoiled' = spoiled \cup {Key(r)}

---------------------------------------------------------------------------
Of(c, k) == {r \in Runners : r[1] = c /\ CondOf(r[2]) = k}

Preparing(c, k) ==
  \E r \in Of(c, k) :
    \/ act[r].pc \in {"start", "ensure", "create", "bind", "copy"}
    \/ act[r].pc \in {"delete", "list", "unbind"} /\ act[r].then = "ensure"

(* The reconciler starts the runs of a condition that is neither in        *)
(* progress nor recorded, both baselines together, and the checks after    *)
(* the baseline.  It comes back when a run should be over, which is long   *)
(* after its namespace was prepared, unless that was slow.                 *)
StartRuns(c, k) ==
  LET types == {t \in Types : CondOf(t) = k}
  IN
  /\ c \in exists
  /\ cond[<<c, k>>] \in {"absent", "Unknown"}
  /\ \/ ~Preparing(c, k) /\ UNCHANGED faults
     \/ Preparing(c, k) /\ Fault("slow")
  /\ k # "baseline" => cond[<<c, "baseline">>] = "Recorded"
  /\ \E copyOf \in [types -> Copies] :
       /\ \A t \in types :
            /\ At(<<c, t, copyOf[t]>>, "idle")
            /\ \A i \in Copies : i < copyOf[t] => ~At(<<c, t, i>>, "idle")
       /\ act' = [a \in Actors |->
            IF a \in {<<c, t, copyOf[t]>> : t \in types}
            THEN [act[a] EXCEPT !.pc = "start",
                                !.unknown = cond[<<c, k>>] = "Unknown"]
            ELSE act[a]]
  /\ UNCHANGED <<exists, cond, ns, content, crbs, names, spoiled>>

Deployed(n) == \E x \in content[n] : x.kind = "deployment"

(* A runner is on its way and gets on: it does not wait for pods that do   *)
(* not come.                                                               *)
Underway(c, k) ==
  \E r \in Of(c, k) : ~At(r, "idle") /\ (At(r, "record") => Deployed(Target(r)))

(* CheckOverdue and BaselineOverdue: the condition has said Recording for  *)
(* longer than a run takes.                                                *)
Overdue(c, k) ==
  /\ c \in exists
  /\ cond[<<c, k>>] = "Recording" /\ ~Underway(c, k)
  /\ cond' = [cond EXCEPT ![<<c, k>>] = "Unknown"]
  /\ spoiled' = spoiled \cup {<<c, k>>}
  /\ UNCHANGED <<exists, ns, content, crbs, act, names, faults>>

(* RunCheck: what an unfinished run has left over is deleted, which the    *)
(* API server only begins.                                                 *)
RunnerStart(r) ==
  /\ At(r, "start")
  /\ IF ns[Target(r)] # "absent" /\ act[r].unknown
     THEN act' = [act EXCEPT ![r].pc = "delete", ![r].then = "ensure"]
     ELSE GoTo(r, "ensure")
  /\ UNCHANGED <<exists, cond, ns, content, crbs, names, spoiled, faults>>

(* The second namespaceExists: a namespace that is still there, whatever   *)
(* its state, is used as it is (setStatusRunning).                         *)
RunnerEnsure(r) ==
  /\ At(r, "ensure")
  /\ \/ /\ ns[Target(r)] = "absent" /\ GoTo(r, "create")
        /\ UNCHANGED <<cond, spoiled>>
     \/ ns[Target(r)] # "absent" /\ GoTo(r, "fetch") /\ setStatusRunning(r)
  /\ UNCHANGED <<exists, ns, content, crbs, names, faults>>

(* Clone up to the creation of the namespace.  When it exists by now, or   *)
(* cannot be created, RunCheck returns without a word in the status.       *)
CloneCreate(r) ==
  /\ At(r, "create")
  /\ \/ /\ ns[Target(r)] = "absent" /\ ValidName(Target(r))
        /\ ns' = [ns EXCEPT ![Target(r)] = "present"]
        /\ Loop(r, "bind", Bindings)
        /\ UNCHANGED faults
     \/ /\ \/ ns[Target(r)] # "absent" \/ ~ValidName(Target(r))
           /\ UNCHANGED faults
        /\ Return(r) /\ UNCHANGED ns
     \/ Fault("create") /\ Return(r) /\ UNCHANGED ns
  /\ UNCHANGED <<exists, cond, content, crbs, names, spoiled>>

(* Mutant of CloneBind: the bindings of the target's service accounts are  *)
(* looked for, of which there are none.                                    *)
CloneBindOfTarget(r) ==
  /\ At(r, "bind") /\ Loop(r, "copy", ToClone)
  /\ UNCHANGED <<exists, cond, ns, content, crbs, names, spoiled, faults>>

(* cloneClusterRoleBindings, one by one; an error ends the run and leaves  *)
(* the namespace.  The error of the List is dropped: nothing is bound.     *)
CloneBind(r) ==
  /\ At(r, "bind")
  /\ \/ \E b \in act[r].left :
          \/ /\ <<b, Target(r)>> \notin crbs
             /\ crbs' = crbs \cup {<<b, Target(r)>>}
             /\ Loop(r, "bind", act[r].left \ {b})
             /\ UNCHANGED faults
          \/ /\ <<b, Target(r)>> \in crbs /\ Return(r)
             /\ UNCHANGED <<crbs, faults>>
          \/ Fault("create") /\ Return(r) /\ UNCHANGED crbs
     \/ /\ act[r].left = {} /\ Loop(r, "copy", ToClone)
        /\ UNCHANGED <<crbs, faults>>
     \/ /\ act[r].left = Bindings /\ Bindings # {} /\ Fault("list")
        /\ Loop(r, "copy", ToClone) /\ UNCHANGED crbs
  /\ UNCHANGED <<exists, cond, ns, content, names, spoiled>>

(* The resources, one by one; one that cannot be created, as in a          *)
(* terminating namespace, is only counted.                                 *)
CloneCopy(r) ==
  /\ At(r, "copy")
  /\ \E x \in act[r].left :
       /\ Loop(r, "copy", act[r].left \ {x})
       /\ \/ /\ content' = IF ns[Target(r)] = "present"
                           THEN [content EXCEPT ![Target(r)] = @ \cup {x}]
                           ELSE content
             /\ UNCHANGED faults
          \/ Fault("create") /\ UNCHANGED content
  /\ UNCHANGED <<exists, cond, ns, crbs, names, spoiled>>

(* createCheckNamespace gets the namespace once more; setStatusRunning.    *)
Cloned(r) ==
  /\ At(r, "copy") /\ act[r].left = {}
  /\ \/ ns[Target(r)] = "absent" /\ Return(r) /\ UNCHANGED <<cond, spoiled>>
     \/ ns[Target(r)] # "absent" /\ GoTo(r, "fetch") /\ setStatusRunning(r)
  /\ UNCHANGED <<exists, ns, content, crbs, names, faults>>

(* GetWorkloadUnderTest in the target namespace, and applySecurityContext. *)
(* After setStatusFailed the namespace is left to the next try.            *)
RunnerFetch(r) ==
  /\ At(r, "fetch")
  /\ \/ /\ Deployed(Target(r)) /\ GoTo(r, "wait")
        /\ UNCHANGED <<cond, spoiled, faults>>
     \/ /\ \/ /\ ~Deployed(Target(r)) \/ ns[Target(r)] = "terminating"
              /\ UNCHANGED faults
           \/ Fault("record")
        /\ Return(r) /\ setStatusFailed(r)
  /\ UNCHANGED <<exists, ns, content, crbs, names>>

(* waitForUpdatedPods.  After two minutes, which no pods come up in in a   *)
(* namespace on its way out, the run is reported as failed and its         *)
(* namespace deleted, unless the logs cannot be read.                      *)
RunnerWait(r) ==
  /\ At(r, "wait")
  /\ \/ GoTo(r, "record") /\ setStatusRunning(r) /\ UNCHANGED faults
     \/ /\ \/ ns[Target(r)] # "present" /\ UNCHANGED faults
           \/ Fault("timeout")
        /\ setStatusFailed(r)
        /\ \/ act' = [act EXCEPT ![r].pc = "delete", ![r].then = "resume"]
           \/ ns[Target(r)] # "present" /\ GoTo(r, "resume")
  /\ UNCHANGED <<exists, ns, content, crbs, names>>

(* RunCheck does not return after that: setStatusRunning, and it records.  *)
RunnerResume(r) ==
  /\ At(r, "resume")
  /\ GoTo(r, "record") /\ setStatusRunning(r)
  /\ UNCHANGED <<exists, ns, content, crbs, names, faults>>

(* Mutant of RunnerRecord: a run that has succeeded keeps its clone.       *)
RunnerRecordKeeps(r) ==
  /\ At(r, "record") /\ Deployed(Target(r))
  /\ Set(r, "Recorded") /\ Return(r)
  /\ UNCHANGED <<exists, ns, content, crbs, names, spoiled, faults>>

(* The recording, which waits for pods as long as there are none, whoever  *)
(* made them, and the report of it; then namespace.Delete.  The logs of a  *)
(* pod that goes away may not be there any more.                           *)
RunnerRecord(r) ==
  /\ At(r, "record") /\ Deployed(Target(r))
  /\ \/ /\ act' = [act EXCEPT ![r].pc = "delete", ![r].then = "idle"]
        /\ Set(r, "Recorded") /\ UNCHANGED <<spoiled, faults>>
     \/ /\ \/ ns[Target(r)] = "terminating" /\ UNCHANGED faults
           \/ Fault("record")
        /\ Return(r) /\ setStatusFailed(r)
  /\ UNCHANGED <<exists, ns, content, crbs, names>>

---------------------------------------------------------------------------
(* Mutant of DeleteNamespace: the bindings are left alone.                 *)
DeleteNamespaceOnly(a) ==
  /\ At(a, "delete")
  /\ ns' = [ns EXCEPT ![Target(a)] = IF @ = "absent" THEN @ ELSE "terminating"]
  /\ GoTo(a, act[a].then)
  /\ UNCHANGED <<exists, cond, content, crbs, names, spoiled, faults>>

(* namespace.Delete: without a namespace there is nothing to do.  Both     *)
(* callers go on after an error.                                           *)
DeleteNamespace(a) ==
  /\ At(a, "delete")
  /\ \/ /\ ns[Target(a)] # "absent"
        /\ ns' = [ns EXCEPT ![Target(a)] = "terminating"]
        /\ GoTo(a, "list") /\ UNCHANGED faults
     \/ /\ ns[Target(a)] = "absent"
        /\ GoTo(a, act[a].then) /\ UNCHANGED <<ns, faults>>
     \/ Fault("delete") /\ GoTo(a, act[a].then) /\ UNCHANGED ns
  /\ UNCHANGED <<exists, cond, content, crbs, names, spoiled>>

(* The bindings that carry the target's label; the error of the List is    *)
(* dropped.                                                                *)
DeleteList(a) ==
  /\ At(a, "list")
  /\ \/ /\ Loop(a, "unbind", {b \in Bindings : <<b, Target(a)>> \in crbs})
        /\ UNCHANGED faults
     \/ Fault("list") /\ GoTo(a, "unbind")
  /\ UNCHANGED <<exists, cond, ns, content, crbs, names, spoiled>>

(* ... are deleted one by one; an error is logged.                         *)
DeleteBinding(a) ==
  /\ At(a, "unbind")
  /\ \/ \E b \in act[a].left :
          /\ Loop(a, "unbind", act[a].left \ {b})
          /\ \/ crbs' = crbs \ {<<b, Target(a)>>} /\ UNCHANGED faults
             \/ Fault("delete") /\ UNCHANGED crbs
     \/ /\ act[a].left = {} /\ GoTo(a, act[a].then)
        /\ UNCHANGED <<crbs, faults>>
  /\ UNCHANGED <<exists, cond, ns, content, names, spoiled>>

(* Mutant of CleanupList: the source namespace is swept with its clones.   *)
CleanupListSource(c) ==
  /\ At(Sweeper(c), "sweep")
  /\ names' = [names EXCEPT ![c] = {n \in Names : ns[n] # "absent"} \cup {<<"", <<>>>>}]
  /\ GoTo(Sweeper(c), "next")
  /\ UNCHANGED <<exists, cond, ns, content, crbs, spoiled, faults>>

(* cleanupReconcileLoop: every namespace with the source's label ...       *)
CleanupList(c) ==
  /\ At(Sweeper(c), "sweep")
  /\ names' = [names EXCEPT ![c] = {n \in Names : ns[n] # "absent"}]
  /\ GoTo(Sweeper(c), "next")
  /\ UNCHANGED <<exists, cond, ns, content, crbs, spoiled, faults>>

(* ... is deleted, one after the other.                                    *)
CleanupNext(c) ==
  /\ At(Sweeper(c), "next")
  /\ \/ \E n \in names[c] :
          /\ act' = [act EXCEPT ![Sweeper(c)].pc = "delete",
                                ![Sweeper(c)].then = "next",
                                ![Sweeper(c)].target = n]
          /\ names' = [names EXCEPT ![c] = @ \ {n}]
     \/ names[c] = {} /\ Return(Sweeper(c)) /\ UNCHANGED names
  /\ UNCHANGED <<exists, cond, ns, content, crbs, spoiled, faults>>

---------------------------------------------------------------------------
(* The namespace controller ends a terminating namespace.                  *)
NamespaceGone(n) ==
  /\ ns[n] = "terminating"
  /\ ns' = [ns EXCEPT ![n] = "absent"]
  /\ content' = [content EXCEPT ![n] = {}]
  /\ UNCHANGED <<exists, cond, crbs, act, names, spoiled, faults>>

DeleteCheck(c) ==
  /\ c \in exists /\ Fault("deleteCheck")
  /\ exists' = exists \ {c}
  /\ GoTo(Sweeper(c), "sweep")
  /\ UNCHANGED <<cond, ns, content, crbs, names, spoiled>>

(* The operator dies: the goroutines, and the sweeps, are gone.            *)
Crash ==
  /\ Fault("crash")
  /\ act' = [a \in Actors |-> Idle(Target(a))]
  /\ names' = [c \in Checks |-> {}]
  /\ UNCHANGED <<exists, cond, ns, content, crbs, spoiled>>

RunnerStep(r) ==
  \/ RunnerStart(r) \/ RunnerEnsure(r) \/ CloneCreate(r) \/ CloneBind(r)
  \/ CloneCopy(r) \/ Cloned(r) \/ RunnerFetch(r) \/ RunnerWait(r)
  \/ RunnerResume(r) \/ RunnerRecord(r)

DeleteStep(a) == DeleteNamespace(a) \/ DeleteList(a) \/ DeleteBinding(a)

Next ==
  \/ \E c \in Checks, k \in Conds : StartRuns(c, k) \/ Overdue(c, k)
  \/ \E r \in Runners : RunnerStep(r)
  \/ \E a \in Actors : DeleteStep(a)
  \/ \E c \in Checks : CleanupList(c) \/ CleanupNext(c)
  \/ \E n \in Names : NamespaceGone(n)
  \/ \E c \in Checks : DeleteCheck(c)
  \/ Crash

Spec == Init /\ [][Next]_vars

(* A goroutine gets on, the reconciler requeues a check until it is        *)
(* recorded, and the cluster ends its namespaces.                          *)
Fairness ==
  /\ \A c \in Checks, k \in Conds : WF_vars(StartRuns(c, k) \/ Overdue(c, k))
  /\ \A r \in Runners : WF_vars(RunnerStep(r) \/ DeleteStep(r))
  /\ \A c \in Checks :
       WF_vars(CleanupList(c) \/ CleanupNext(c) \/ DeleteStep(Sweeper(c)))
  /\ \A n \in Names : WF_vars(NamespaceGone(n))

FairSpec == Spec /\ Fairness

---------------------------------------------------------------------------
Recording(r) == At(r, "record") /\ r[1] \in exists

Whole(n) == ns[n] = "present" /\ content[n] = ToClone
            /\ \A b \in Bindings : <<b, n>> \in crbs

Alone(r) == \A q \in Runners : Recording(q) /\ Target(q) = Target(r) => q = r

(* A run of a check that was not deleted records a workload that stands in *)
(* a complete clone, with every resource and every binding and nothing of  *)
(* it on its way out.                                                      *)
WholeClone == \A r \in Runners : Recording(r) => Whole(Target(r))

(* "This suffix is used to create a unique name for the cloned             *)
(* namespaces": two runs never record in one.                              *)
OneRunPerNamespace == \A r \in Runners : Recording(r) => Alone(r)

(* Both hold for a run as long as no run of ITS condition has failed,      *)
(* whatever runs of other conditions and other checks of the source        *)
(* namespace do: they fail or time out, delete their own namespaces under  *)
(* themselves, are started again and record where they should not.         *)
OwnClone ==
  faults.kinds \subseteq {"timeout", "record", "delete"} =>
    \A r \in Runners :
      Recording(r) /\ Key(r) \notin spoiled => Whole(Target(r)) /\ Alone(r)

(* "Target namespace already exists, and check is in unknown state         *)
(* indicating a previous run was not finished": a run that is started      *)
(* again records in a clone of its own, not in what is left of the         *)
(* unfinished one.                                                         *)
RetryDiscards ==
  \A r \in Runners : Recording(r) /\ act[r].unknown => Whole(Target(r))

(* No ClusterRoleBinding outlives the namespace whose service accounts it  *)
(* binds, unless its deletion is under way.                                *)
Orphan(b, n) ==
  /\ <<b, n>> \in crbs /\ ns[n] = "absent"
  /\ \A a \in Actors :
       ~(/\ Target(a) = n
         /\ At(a, "list") \/ (At(a, "unbind") /\ b \in act[a].left))

OrphanFree == \A b \in Bindings, n \in Names : ~Orphan(b, n)

(* The runs of a condition that has not failed leave no such binding       *)
(* behind, whatever fails elsewhere.                                       *)
BindingsFollow ==
  faults.kinds \subseteq {"timeout", "record"} =>
    \A b \in Bindings, r \in Runners :
      Key(r) \notin spoiled => ~Orphan(b, NameOf(r))

(* In the end the runs of a condition that has not failed leave neither a  *)
(* clone nor a binding behind, whatever fails elsewhere.                   *)
NothingLeft ==
  <>[](faults.kinds \subseteq {"timeout", "record"} =>
         \A r \in Runners :
           Key(r) \notin spoiled =>
             /\ ns[NameOf(r)] = "absent"
             /\ \A b \in Bindings : <<b, NameOf(r)>> \notin crbs)
============================================================================
