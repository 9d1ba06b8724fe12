-------------------------- MODULE WorkloadHardening --------------------------
(***************************************************************************)
(* One WorkloadHardeningCheck, from its creation on: the reconciler, its   *)
(* runners and their environment (the cluster, Valkey, the user and the    *)
(* passage of time) composed, and what they are to achieve together.       *)
(***************************************************************************)
EXTENDS WorkloadReconciler, CheckRunner

(* Kubernetes finishes the deletion of a namespace.                        *)
NamespaceGone(t) ==
  /\ ns[t] = "terminating"
  /\ ns' = [ns EXCEPT ![t] = "absent"]
  /\ UNCHANGED <<exists, status, cache, reconcilerVars, run, recordings, faults>>

(* A runner that polls for pods nobody will create gets nowhere.           *)
Spinning(r) ==
  /\ run[r].pc \in {"timedout", "record"}
  /\ ~MayHavePods(TypeOf(r))

Progressing(c) ==
  \E r \in Runners : Cond(r) = c /\ run[r].pc # "idle" /\ ~Spinning(r)

(* More than d + 1 minute has passed since a condition became False.       *)
TimePasses(c) ==
  /\ status.cond[c] = "Recording"
  /\ status' = [status EXCEPT !.cond[c] = "Overdue"]
  /\ IF Progressing(c) THEN Fault("slow") ELSE UNCHANGED faults
  /\ UNCHANGED <<exists, cache, reconcilerVars, run, ns, recordings>>

(* The watch delivers the object to the cached client.                     *)
CacheSync ==
  /\ CacheLag /\ exists
  /\ cache # View(status)
  /\ cache' = View(status)
  /\ UNCHANGED <<exists, status, reconcilerVars, run, ns, recordings, faults>>

(* A recording reaches its time to live.                                   *)
ExpireRecording(t) ==
  /\ t \in valkey
  /\ Fault("expire")
  /\ valkey' = valkey \ {t}
  /\ UNCHANGED <<exists, status, cache, reconcilerVars, run, ns, stored, ready>>

(* An update that changes the generation passes the event filter.          *)
EditSpec ==
  /\ exists
  /\ Fault("edit")
  /\ wake' = wake \cup {"event"}
  /\ UNCHANGED <<exists, status, cache, rpc, snap, mruns, todo, held, run, ns, recordings>>

DeleteCheck ==
  /\ exists
  /\ Fault("delete")
  /\ exists' = FALSE
  /\ wake' = wake \cup {"event"}
  /\ UNCHANGED <<status, cache, rpc, snap, mruns, todo, held, run, ns, recordings>>

(* The operator dies and starts again: goroutines and work queue are lost, *)
(* the first list of the new process is a create event for each object.    *)
Crash ==
  /\ Fault("crash")
  /\ run' = [r \in Runners |-> IdleRunner]
  /\ rpc' = "idle" /\ snap' = EmptyStatus /\ mruns' = NoRuns /\ todo' = LoopDone /\ held' = FALSE
  /\ wake' = IF exists THEN {"event"} ELSE {}
  /\ cache' = IF CacheLag THEN View(status) ELSE cache
  /\ UNCHANGED <<exists, status, ns, recordings>>

---------------------------------------------------------------------------
Init ==
  /\ exists = TRUE
  /\ status = EmptyStatus
  /\ cache = EmptyStatus
  /\ rpc = "idle"
  /\ snap = EmptyStatus
  /\ mruns = NoRuns
  /\ todo = LoopDone
  /\ held = FALSE
  /\ wake = {"event"}
  /\ run = [r \in Runners |-> IdleRunner]
  /\ ns = [t \in RunTypes |-> "absent"]
  /\ valkey = {}
  /\ stored = {}
  /\ ready = {}
  /\ faults = 0

Environment ==
  \/ \E t \in RunTypes : NamespaceGone(t) \/ ExpireRecording(t)
  \/ \E c \in Conds : TimePasses(c)
  \/ CacheSync
  \/ EditSpec
  \/ DeleteCheck
  \/ Crash

(* The others wait for a Reconcile that is between two reads, unless it    *)
(* waits for a runner to return.                                           *)
OthersMayStep == held => Crowded

Next ==
  \/ ReconcileStep
  \/ OthersMayStep /\ \E r \in Runners : RunnerStep(r)
  \/ OthersMayStep /\ Environment

Spec == Init /\ [][Next]_vars

(* The work queue serves its entries, the Go scheduler runs every          *)
(* goroutine, namespaces that are being deleted go away, time passes and   *)
(* the watch delivers.  No fault ever has to happen.                       *)
Fairness ==
  /\ WF_vars(ReconcileStep)
  /\ \A r \in Runners : WF_vars(RunnerStep(r))
  /\ \A t \in RunTypes : WF_vars(NamespaceGone(t))
  /\ \A c \in Conds : WF_vars(TimePasses(c))
  /\ WF_vars(CacheSync)

FairSpec == Spec /\ Fairness

---------------------------------------------------------------------------
(* A recommendation is made only from what was seen: both baselines were   *)
(* recorded, and each check merged into it has a recording of a run in     *)
(* which the workload became ready (AnalyzeCheckRuns, SetRecommendation).  *)
RecommendationWitnessed ==
  status.recommended =>
    /\ Baselines \subseteq stored
    /\ status.merged \subseteq ready

(* Finished with the reason Finished: there is a recommendation, and it    *)
(* was tried in a final run whose recording was stored.                    *)
FinishedMeansTried ==
  status.finished = "Finished" => status.recommended /\ "final" \in stored

(* A condition that says recorded, and a run in the status that says       *)
(* successful, follow a stored recording of such a run.                    *)
ReportsAreBacked ==
  /\ \A c \in Conds : Recorded(status, c) =>
       \E t \in stored : CondOf(t) = c
  /\ \A c \in Checks : status.checkRuns[c] = "ok" => c \in ready
  /\ status.finalRun = "ok" => "final" \in ready

(* No final run before there is a recommendation to run it with.           *)
FinalNeedsRecommendation ==
  /\ status.cond["FinalCheck"] # "Absent" => status.recommended
  /\ \A r \in Runners : TypeOf(r) = "final" /\ run[r].pc # "idle" => status.recommended

(* What the four invariants above rest on.  A runner that is past its      *)
(* recording has stored it, with the outcome it is about to report; the    *)
(* analysis looks only at reports that were true and, once it has read     *)
(* them, at baselines that were stored; a recommendation that was seen, in *)
(* a snapshot, in the cache or by its final run, is never withdrawn.       *)
RunnersBacked ==
  \A r \in Runners : run[r].pc \in {"finish", "report", "cleanup"} =>
    /\ TypeOf(r) \in stored
    /\ run[r].outcome = "ok" => TypeOf(r) \in ready

AnalysisBacked ==
  /\ valkey \subseteq stored
  /\ \A c \in Checks : mruns[c] = "ok" => c \in ready
  /\ rpc \in {"overwrite", "recommend"} => Baselines \subseteq stored

RecommendationSeen ==
  snap.recommended \/ cache.recommended \/ rpc = "finalOverdue" => status.recommended

(* The inductive invariant.                                                *)
IInv ==
  /\ TypeOK
  /\ RecommendationWitnessed
  /\ FinishedMeansTried
  /\ ReportsAreBacked
  /\ FinalNeedsRecommendation
  /\ RunnersBacked
  /\ AnalysisBacked
  /\ RecommendationSeen

(* "already finished, we skip the reconciliation": Finished is never taken *)
(* back or given another reason.                                           *)
FinishedStable ==
  [][status.finished # "no" => status'.finished = status.finished]_vars

(* What the status promises to its readers, see HardeningPromise.          *)
Promised ==
  [baselines   |-> Baselines \subseteq stored,
   ready       |-> ready \cap Checks,
   tried       |-> "final" \in stored,
   recommended |-> status.recommended,
   merged      |-> status.merged,
   finished    |-> status.finished]

Promise == INSTANCE HardeningPromise
  WITH FailureReasons <- FinishedValues \ {"no", "Finished"}, promise <- Promised

(* Reconciler, runners and faults together keep the promise: what is       *)
(* recommended, and that the check is finished, changes only as stated     *)
(* there, whoever writes to the status in between.                         *)
PromiseKept == Promise!Spec

(* In sequential mode "the checks are started one after another".          *)
OneCheckAtATime ==
  RunMode = "sequential" =>
    \A r, q \in Runners :
      /\ run[r].pc # "idle" /\ TypeOf(r) \in Checks
      /\ run[q].pc # "idle" /\ TypeOf(q) \in Checks
      => TypeOf(r) = TypeOf(q)

(* "If we are here, it means that the baseline recording is done           *)
(* successfully": recordChecks runs only once the workload was ready in both. *)
BaselineDoneBeforeChecks ==
  rpc = "record" => Baselines \subseteq ready

(* The baseline condition becomes Recorded in the end: recordBaseline is   *)
(* entered again until a recording is stored.                              *)
BaselineEventually == <>(~exists \/ Recorded(status, "Baseline"))

(* "If the final check run is already finished, we set the Finished        *)
(* condition to true": every check is Finished in the end.                 *)
EventuallyFinished == <>(~exists \/ status.finished # "no")

(* In the end no check namespace is left, also when the check is deleted   *)
(* while runners are creating theirs (cleanupReconcileLoop runs once).     *)
NamespacesEventuallyGone == <>[](\A t \in RunTypes : ns[t] = "absent")
============================================================================
