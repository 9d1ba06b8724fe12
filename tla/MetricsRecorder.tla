--------------------------- MODULE MetricsRecorder ---------------------------
(***************************************************************************)
(* internal/recording/metrics.go: RecordMetrics lists the pods of a run    *)
(* and starts a goroutine for each, which takes a data point every 15      *)
(* seconds.  The goroutines of all runs share one cache of the kubelets'   *)
(* statistics, which any of them refreshes, under a mutex, when it is      *)
(* older than 10 seconds; they read it without the mutex.                  *)
(*                                                                         *)
(* Time is counted in units of 5 seconds.  A statistic is the number of    *)
(* the refresh it came with, 0 when the cache does not have the pod.       *)
(***************************************************************************)
EXTENDS Naturals, FiniteSets

CONSTANTS
  Runs,      \* the runs that record at the same time
  Pods,
  RunOf,     \* the run each pod belongs to
  Nodes,
  NodeOf,    \* the node each pod is assigned to
  Duration,  \* GetCheckDuration
  LastStart, \* bound: by then a run has found its pods, or it never does
  MaxTime,   \* bound: the recordings are over by then
  FaultKinds, MaxFaults

metricsRecordingInterval == 3  \* 15 seconds
refreshAfter == 2              \* 10 seconds
retryAfter   == 1              \* 5 seconds

ASSUME RecorderAssumption ==
  /\ RunOf \in [Pods -> Runs] /\ NodeOf \in [Pods -> Nodes]
  /\ Duration \in Nat \ {0} /\ MaxTime \in Nat /\ MaxFaults \in Nat
  /\ LastStart + Duration + metricsRecordingInterval + MaxFaults <= MaxTime

NoPod == "free"
ASSUME NoPodAssumption == NoPod \notin Pods

VARIABLES
  clock, pod,    \* the time, and each pod in the cluster
  main,          \* RecordMetrics of each run
  rec,           \* recordPodMetrics of each pod
  usage,         \* its data points: <<time, statistic>>
  refreshMutex,  \* the goroutine that holds it
  podMetrics, podMetricsLastUpdate, fetched,
  refreshes,     \* how often the kubelets were asked
  panicked, faults

cacheVars == <<refreshMutex, podMetrics, podMetricsLastUpdate, fetched, refreshes>>
vars == <<clock, pod, main, rec, usage, cacheVars, panicked, faults>>

Never == MaxTime + 1   \* the zero time
Stats == [Pods -> 0..(MaxTime + 1)]

MainSteps == {"list", "filter", "wait", "done", "failed"}
RecSteps  == {"off", "loop", "lock", "nodes", "stamp", "publish", "read",
              "sleep", "done", "error"}
Recorder  == [pc : RecSteps, start : 0..MaxTime, lastLoop : BOOLEAN,
              wake : 0..(MaxTime + metricsRecordingInterval)]

TypeOK ==
  /\ clock \in 0..MaxTime
  /\ pod \in [Pods -> {"absent", "unassigned", "assigned", "running", "ended", "gone"}]
  /\ main \in [Runs -> MainSteps]
  /\ rec \in [Pods -> Recorder]
  /\ usage \in [Pods -> SUBSET ((0..MaxTime) \X (1..(MaxTime + 1)))]
  /\ refreshMutex \in Pods \cup {NoPod}
  /\ podMetrics \in Stats /\ fetched \in Stats
  /\ podMetricsLastUpdate \in 0..Never
  /\ refreshes \in 0..(MaxTime + 1)
  /\ panicked \in BOOLEAN /\ faults \in 0..MaxFaults

Init ==
  /\ clock = 0
  /\ pod = [p \in Pods |-> "absent"]
  /\ main = [r \in Runs |-> "list"]
  /\ rec = [p \in Pods |-> [pc |-> "off", start |-> 0, lastLoop |-> FALSE, wake |-> 0]]
  /\ usage = [p \in Pods |-> {}]
  /\ refreshMutex = NoPod
  /\ podMetrics = [p \in Pods |-> 0] /\ fetched = [p \in Pods |-> 0]
  /\ podMetricsLastUpdate = Never
  /\ refreshes = 0 /\ panicked = FALSE /\ faults = 0

Fault(kind) ==
  kind \in FaultKinds /\ faults < MaxFaults /\ faults' = faults + 1

At(p, step)   == rec[p].pc = step /\ ~panicked
GoTo(p, step) == rec' = [rec EXCEPT ![p].pc = step]
PodsOf(r)     == {p \in Pods : RunOf[p] = r}
Listed(r)     == {p \in PodsOf(r) : pod[p] \notin {"absent", "gone"}}

---------------------------------------------------------------------------
(* RecordMetrics polls until it finds pods and all have a node, for ever   *)
(* if there are none.                                                      *)
ListPods(r) ==
  /\ main[r] = "list" /\ ~panicked
  /\ \/ /\ Listed(r) # {} /\ \A p \in Listed(r) : pod[p] # "unassigned"
        /\ clock <= LastStart
        /\ main' = [main EXCEPT ![r] = "filter"]
        /\ UNCHANGED faults
     \/ Fault("api") /\ main' = [main EXCEPT ![r] = "failed"]
  /\ UNCHANGED <<clock, pod, rec, usage, cacheVars, panicked>>

(* It leaves out the pods that have ended or are being deleted, and starts *)
(* a goroutine for each of the others.                                     *)
StartRecorders(r) ==
  /\ main[r] = "filter" /\ ~panicked
  /\ main' = [main EXCEPT ![r] = "wait"]
  /\ rec' = [p \in Pods |->
       IF RunOf[p] = r /\ pod[p] \in {"assigned", "running"}
       THEN [rec[p] EXCEPT !.pc = "loop", !.start = clock] ELSE rec[p]]
  /\ UNCHANGED <<clock, pod, usage, cacheVars, panicked, faults>>

(* After wg.Wait the results are collected.  A goroutine that failed has   *)
(* sent nil, and result.Usage of nil panics, which ends the process.       *)
Collect(r) ==
  /\ main[r] = "wait" /\ ~panicked
  /\ \A p \in PodsOf(r) : rec[p].pc \in {"off", "done", "error"}
  /\ main' = [main EXCEPT ![r] = "done"]
  /\ panicked' = (\E p \in PodsOf(r) : rec[p].pc = "error")
  /\ UNCHANGED <<clock, pod, rec, usage, cacheVars, faults>>

---------------------------------------------------------------------------
(* recordPodMetrics: the head of the loop.                                 *)
LoopHead(p) ==
  /\ At(p, "loop")
  /\ rec' = [rec EXCEPT ![p].pc = "lock",
                        ![p].lastLoop = @ \/ clock - rec[p].start >= Duration]
  /\ UNCHANGED <<clock, pod, main, usage, cacheVars, panicked, faults>>

Stale == \/ podMetricsLastUpdate = Never
         \/ clock - podMetricsLastUpdate >= refreshAfter

(* Mutant of RefreshLock: no mutex.                                        *)
RefreshUnlocked(p) ==
  /\ At(p, "lock")
  /\ GoTo(p, IF Stale THEN "nodes" ELSE "read")
  /\ UNCHANGED <<clock, pod, main, usage, cacheVars, panicked, faults>>

(* refreshPodMetrics: with the mutex, a cache of less than 10 seconds is   *)
(* left as it is.                                                          *)
RefreshLock(p) ==
  /\ At(p, "lock") /\ refreshMutex = NoPod
  /\ \/ ~Stale /\ GoTo(p, "read") /\ UNCHANGED refreshMutex
     \/ Stale /\ GoTo(p, "nodes") /\ refreshMutex' = p
  /\ UNCHANGED <<clock, pod, main, usage, podMetrics, podMetricsLastUpdate,
                 fetched, refreshes, panicked, faults>>

(* getNodes, and refreshPodMetricsPerNode of all nodes in parallel.  The   *)
(* pods of a node that does not answer are missing from the result.        *)
RefreshNodes(p) ==
  /\ At(p, "nodes")
  /\ \/ /\ \E answer \in SUBSET Nodes :
             /\ \/ answer = Nodes /\ UNCHANGED faults
                \/ answer # Nodes /\ Fault("kubelet")
             /\ fetched' = [q \in Pods |->
                  IF NodeOf[q] \in answer /\ pod[q] = "running"
                  THEN refreshes + 1 ELSE 0]
        /\ refreshes' = refreshes + 1
        /\ GoTo(p, "stamp")
        /\ UNCHANGED refreshMutex
     \/ /\ Fault("nodes") /\ GoTo(p, "error")
        /\ refreshMutex' = NoPod /\ UNCHANGED <<fetched, refreshes>>
  /\ UNCHANGED <<clock, pod, main, usage, podMetrics, podMetricsLastUpdate, panicked>>

(* The time of the update is set before the statistics are.                *)
RefreshStamp(p) ==
  /\ At(p, "stamp")
  /\ podMetricsLastUpdate' = clock
  /\ GoTo(p, "publish")
  /\ UNCHANGED <<clock, pod, main, usage, refreshMutex, podMetrics, fetched,
                 refreshes, panicked, faults>>

(* Mutant of RefreshPublish: the old statistics stay when there are no new *)
(* ones.                                                                   *)
RefreshPublishKeeps(p) ==
  /\ At(p, "publish")
  /\ podMetrics' = [q \in Pods |-> IF fetched[q] = 0 THEN podMetrics[q] ELSE fetched[q]]
  /\ refreshMutex' = NoPod
  /\ GoTo(p, "read")
  /\ UNCHANGED <<clock, pod, main, usage, podMetricsLastUpdate, fetched,
                 refreshes, panicked, faults>>

RefreshPublish(p) ==
  /\ At(p, "publish")
  /\ podMetrics' = fetched
  /\ refreshMutex' = NoPod
  /\ GoTo(p, "read")
  /\ UNCHANGED <<clock, pod, main, usage, podMetricsLastUpdate, fetched,
                 refreshes, panicked, faults>>

(* Mutant of RecordUsage: in the last loop the recorder waits for the pod. *)
RecordUsageWaits(p) ==
  /\ At(p, "read")
  /\ LET found == podMetrics[p] # 0 IN
     /\ usage' = IF found
                 THEN [usage EXCEPT ![p] = @ \cup {<<clock, podMetrics[p]>>}]
                 ELSE usage
     /\ rec' = [rec EXCEPT ![p].pc =
                  IF found /\ rec[p].lastLoop THEN "done" ELSE "sleep",
                ![p].wake = clock + (IF found THEN metricsRecordingInterval
                                     ELSE retryAfter)]
  /\ UNCHANGED <<clock, pod, main, cacheVars, panicked, faults>>

(* getPodResourceUsage, outside of the mutex, and the rest of the loop.    *)
RecordUsage(p) ==
  /\ At(p, "read")
  /\ LET found == podMetrics[p] # 0 IN
     /\ usage' = IF found
                 THEN [usage EXCEPT ![p] = @ \cup {<<clock, podMetrics[p]>>}]
                 ELSE usage
     /\ rec' = [rec EXCEPT ![p].pc = IF rec[p].lastLoop THEN "done" ELSE "sleep",
                ![p].wake = clock + (IF found THEN metricsRecordingInterval
                                     ELSE retryAfter)]
  /\ UNCHANGED <<clock, pod, main, cacheVars, panicked, faults>>

Wake(p) ==
  /\ At(p, "sleep") /\ rec[p].wake <= clock
  /\ GoTo(p, "loop")
  /\ UNCHANGED <<clock, pod, main, usage, cacheVars, panicked, faults>>

---------------------------------------------------------------------------
(* A pod is created, gets a node, starts, and may end and disappear before *)
(* the recording is over; none of this need happen.                        *)
Become(p, before, after) == pod[p] \in before /\ pod' = [pod EXCEPT ![p] = after]

PodStep(p) ==
  /\ ~panicked
  /\ \/ Become(p, {"absent"}, "unassigned") /\ UNCHANGED faults
     \/ Become(p, {"unassigned"}, "assigned") /\ UNCHANGED faults
     \/ Become(p, {"assigned"}, "running") /\ UNCHANGED faults
     \/ Become(p, {"unassigned", "assigned", "running"}, "ended") /\ Fault("pod")
     \/ Become(p, {"ended"}, "gone") /\ UNCHANGED faults
  /\ UNCHANGED <<clock, main, rec, usage, cacheVars, panicked>>

(* What a goroutine does between two sleeps takes no time, unless it is    *)
(* held up.                                                                *)
Asleep(p) == rec[p].pc \in {"off", "done", "error"}
             \/ (rec[p].pc = "sleep" /\ rec[p].wake > clock)

Tick ==
  /\ clock < MaxTime /\ ~panicked
  /\ \/ (\A p \in Pods : Asleep(p)) /\ UNCHANGED faults
     \/ (\E p \in Pods : ~Asleep(p)) /\ Fault("slow")
  /\ \A r \in Runs : main[r] # "filter"
  /\ clock' = clock + 1
  /\ UNCHANGED <<pod, main, rec, usage, cacheVars, panicked>>

MainStep(r) == ListPods(r) \/ StartRecorders(r) \/ Collect(r)

RecorderStep(p) ==
  \/ LoopHead(p) \/ RefreshLock(p) \/ RefreshNodes(p) \/ RefreshStamp(p)
  \/ RefreshPublish(p) \/ RecordUsage(p) \/ Wake(p)

Next ==
  \/ \E r \in Runs : MainStep(r)
  \/ \E p \in Pods : RecorderStep(p) \/ PodStep(p)
  \/ Tick

Spec == Init /\ [][Next]_vars

(* Goroutines get on and time passes.                                      *)
Fairness ==
  /\ \A r \in Runs : WF_vars(MainStep(r))
  /\ \A p \in Pods : SF_vars(RefreshLock(p)) /\ WF_vars(RecorderStep(p))
  /\ WF_vars(Tick)

FairSpec == Spec /\ Fairness

---------------------------------------------------------------------------
(* The kubelets are asked at most once in 10 seconds, however many         *)
(* recorders find the cache too old at the same time.                      *)
RefreshSpaced ==
  [][refreshes' # refreshes =>
       podMetricsLastUpdate = Never \/ clock - podMetricsLastUpdate >= refreshAfter]_vars

(* Two data points of a pod never repeat one statistic: between them the   *)
(* cache was refreshed, by whichever recorder, although it is read while   *)
(* another one may be replacing it.                                        *)
DistinctSamples ==
  \A p \in Pods : \A u, v \in usage[p] : u[2] = v[2] => u = v

(* An error of one goroutine is logged, and RecordMetrics goes on: the     *)
(* operator does not panic over it.                                        *)
NoPanic == ~panicked

(* A run that has found its pods gets its metrics, though kubelets do not  *)
(* answer, goroutines are held up and pods disappear, and though another   *)
(* run may poll for pods for ever; unless a goroutine of some run fails    *)
(* and the process dies of it.                                             *)
RecordingEnds == \A r \in Runs : main[r] = "filter" ~> (main[r] = "done" \/ panicked)
============================================================================
