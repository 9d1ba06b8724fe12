--------------------------- MODULE RecorderProofs ---------------------------
(***************************************************************************)
(* Proofs about MetricsRecorder: type correctness, that the kubelets are   *)
(* not asked more often than they should be, and that no data point is     *)
(* taken twice, for any runs, pods, nodes, times and faults.               *)
(***************************************************************************)
EXTENDS MetricsRecorder, TLAPS

(* Who holds the mutex is asking the kubelets, and the cache it found too  *)
(* old stays so until it sets the time of the update.                      *)
Holding == {"nodes", "stamp", "publish"}

LockInv ==
  /\ \A p \in Pods : rec[p].pc \in Holding <=> refreshMutex = p
  /\ \A p \in Pods : rec[p].pc \in {"nodes", "stamp"} => Stale

(* Between the answer of the kubelets and the end of the refresh, the      *)
(* cache holds the statistics of the refresh before.                       *)
Stamping == \E p \in Pods : rec[p].pc = "stamp"
Writing  == \E p \in Pods : rec[p].pc \in {"stamp", "publish"}
Cached   == IF Writing THEN refreshes - 1 ELSE refreshes

CacheInv ==
  /\ \A q \in Pods : podMetrics[q] \in {0, Cached}
  /\ Writing => refreshes >= 1 /\ \A q \in Pods : fetched[q] \in {0, refreshes}

(* There are no more refreshes than units of time.                         *)
CountInv ==
  /\ podMetricsLastUpdate # Never => podMetricsLastUpdate <= clock
  /\ Stamping => refreshes <= clock + 1
  /\ ~Stamping /\ podMetricsLastUpdate = Never => refreshes = 0
  /\ ~Stamping /\ podMetricsLastUpdate # Never => refreshes <= podMetricsLastUpdate + 1

(* A data point is of a statistic that was in the cache, and the one that  *)
(* is in it now was there when it was taken.  A recorder that is awake     *)
(* took its last data point an interval ago, one that sleeps will have;    *)
(* and one that is about to read the cache has no data point of it.        *)
Awake == {"loop", "lock", "nodes", "stamp", "publish", "read"}

Past(p, u) ==
  /\ u[2] <= Cached /\ u[1] <= clock
  /\ u[2] = refreshes => podMetricsLastUpdate <= u[1]
  /\ rec[p].pc = "read" => u[2] < Cached
  /\ rec[p].pc \in Awake => u[1] + metricsRecordingInterval <= clock
  /\ rec[p].pc = "sleep" => u[1] + metricsRecordingInterval <= rec[p].wake

SampleInv ==
  /\ \A p \in Pods : \A u \in usage[p] : Past(p, u)
  /\ \A p \in Pods : main[RunOf[p]] \in {"list", "filter"} =>
       rec[p].pc = "off" /\ usage[p] = {}
  /\ DistinctSamples

RecorderInv == TypeOK /\ LockInv /\ CacheInv /\ CountInv /\ SampleInv

---------------------------------------------------------------------------
(* The times of the recorder, in units of five seconds.                    *)
LEMMA Times ==
  /\ MaxTime \in Nat /\ MaxFaults \in Nat
  /\ metricsRecordingInterval = 3 /\ refreshAfter = 2 /\ retryAfter = 1
  /\ Never = MaxTime + 1
BY RecorderAssumption DEF metricsRecordingInterval, refreshAfter, retryAfter, Never

(* A fault is counted.                                                     *)
LEMMA FaultType ==
  ASSUME TypeOK, NEW kind, Fault(kind)
  PROVE  faults' \in 0..MaxFaults
BY Times DEF TypeOK, Fault

(* The invariant is about the clock, the runs, the recorders, the data     *)
(* points and the cache, and not about the pods in the cluster.            *)
LEMMA RecorderTypes ==
  ASSUME TypeOK
  PROVE  /\ clock \in Nat /\ clock <= MaxTime
         /\ podMetricsLastUpdate \in Nat /\ refreshes \in Nat
         /\ \A p \in Pods : /\ podMetrics[p] \in Nat /\ fetched[p] \in Nat
                            /\ rec[p] \in Recorder /\ rec[p].wake \in Nat
                            /\ rec[p].pc \in RecSteps
                            /\ \A u \in usage[p] :
                                 u[1] \in Nat /\ u[2] \in Nat /\ u[2] # 0 /\ u[1] <= MaxTime
<1>1. \A p \in Pods : \A u \in usage[p] :
        u[1] \in Nat /\ u[2] \in Nat /\ u[2] # 0 /\ u[1] <= MaxTime
  <2> SUFFICES ASSUME NEW p \in Pods, NEW u \in usage[p]
               PROVE  u[1] \in Nat /\ u[2] \in Nat /\ u[2] # 0 /\ u[1] <= MaxTime
    OBVIOUS
  <2>1. u \in (0..MaxTime) \X (1..(MaxTime + 1))
    BY DEF TypeOK
  <2>. QED
    BY <2>1, Times
<1>. QED
  BY <1>1, Times DEF TypeOK, Recorder, Stats, Never

(* A goroutine that goes on to its next step.                              *)
LEMMA Moved ==
  ASSUME TypeOK, NEW p \in Pods, NEW step \in RecSteps, GoTo(p, step)
  PROVE  /\ rec' \in [Pods -> Recorder]
         /\ rec'[p].pc = step /\ rec'[p].wake = rec[p].wake
         /\ \A q \in Pods : q # p => rec'[q] = rec[q]
BY DEF TypeOK, GoTo, Recorder

(* Who writes, by the mutex.                                               *)
LEMMA Writer ==
  ASSUME LockInv, NEW p \in Pods, rec[p].pc \in Holding
  PROVE  /\ \A q \in Pods : q # p => rec[q].pc \notin Holding
         /\ Writing <=> rec[p].pc \in {"stamp", "publish"}
         /\ Stamping <=> rec[p].pc = "stamp"
BY DEF LockInv, Holding, Writing, Stamping

(* While the mutex is free nobody replaces the cache.                      *)
LEMMA NoWriter ==
  ASSUME LockInv, refreshMutex = NoPod
  PROVE  ~Writing /\ ~Stamping /\ \A p \in Pods : rec[p].pc \notin Holding
BY NoPodAssumption DEF LockInv, Holding, Writing, Stamping

---------------------------------------------------------------------------
(* Initially there are neither statistics nor data points.                 *)
LEMMA InitRecorderInv == Init => RecorderInv
<1> SUFFICES ASSUME Init PROVE RecorderInv
  OBVIOUS
<1>. USE RecorderAssumption, Times DEF Init
<1>1. rec \in [Pods -> Recorder]
  BY DEF Recorder, RecSteps
<1>2. /\ pod \in [Pods -> {"absent", "unassigned", "assigned", "running", "ended", "gone"}]
      /\ main \in [Runs -> MainSteps]
      /\ usage \in [Pods -> SUBSET ((0..MaxTime) \X (1..(MaxTime + 1)))]
      /\ podMetrics \in Stats /\ fetched \in Stats
  BY DEF MainSteps, Stats
<1>3. TypeOK
  <2>1. /\ clock \in 0..MaxTime /\ refreshes \in 0..(MaxTime + 1) /\ faults \in 0..MaxFaults
        /\ podMetricsLastUpdate \in 0..Never /\ refreshMutex \in Pods \cup {NoPod}
    OBVIOUS
  <2>2. panicked \in BOOLEAN
    OBVIOUS
  <2>. HIDE DEF Init
  <2>. QED
    BY <1>1, <1>2, <2>1, <2>2 DEF TypeOK
<1>4. \A p \in Pods : rec[p].pc = "off" /\ usage[p] = {} /\ podMetrics[p] = 0
  OBVIOUS
<1>5. LockInv
  BY <1>4, NoPodAssumption DEF LockInv, Holding
<1>6. ~Writing /\ ~Stamping
  BY <1>4 DEF Writing, Stamping
<1>7. CacheInv /\ CountInv
  BY <1>4, <1>6 DEF CacheInv, CountInv, Cached
<1>8. SampleInv
  BY <1>4 DEF SampleInv, DistinctSamples
<1>. QED
  BY <1>3, <1>5, <1>7, <1>8 DEF RecorderInv

(* Steps that leave clock, recorders, data points and cache alone keep the *)
(* parts about them.                                                       *)
LEMMA SameInv ==
  ASSUME RecorderInv, UNCHANGED <<clock, rec, usage, cacheVars>>
  PROVE  LockInv' /\ CacheInv' /\ CountInv' /\ DistinctSamples'
         /\ \A p \in Pods : \A u \in usage'[p] : Past(p, u)'
BY DEF RecorderInv, cacheVars, LockInv, Stale, CacheInv, CountInv, Cached, Writing, Stamping,
       SampleInv, Past, DistinctSamples

(* The steps of RecordMetrics before and after its goroutines.             *)
LEMMA MainInv ==
  ASSUME RecorderInv, NEW r \in Runs, ListPods(r) \/ Collect(r)
  PROVE  RecorderInv'
<1>1. UNCHANGED <<clock, pod, rec, usage, cacheVars>>
  BY DEF ListPods, Collect
<1>2. main \in [Runs -> MainSteps] /\ faults \in 0..MaxFaults /\ panicked \in BOOLEAN
  BY DEF RecorderInv, TypeOK
<1>3. faults' \in 0..MaxFaults
  BY <1>2, FaultType DEF RecorderInv, ListPods, Collect
<1>4. /\ main' \in [Runs -> MainSteps]
      /\ \A q \in Runs : main'[q] \in {"list", "filter"} => main[q] \in {"list", "filter"}
  BY <1>2 DEF ListPods, Collect, MainSteps
<1>5. panicked' \in BOOLEAN
  BY <1>2 DEF ListPods, Collect
<1>6. TypeOK'
  BY <1>1, <1>3, <1>4, <1>5 DEF RecorderInv, TypeOK, cacheVars
<1>7. \A p \in Pods : main'[RunOf[p]] \in {"list", "filter"} =>
        rec'[p].pc = "off" /\ usage'[p] = {}
  BY <1>1, <1>4, RecorderAssumption DEF RecorderInv, SampleInv
<1>. QED
  BY <1>1, <1>6, <1>7, SameInv DEF RecorderInv, SampleInv

(* The steps of the pods.                                                  *)
LEMMA PodInv ==
  ASSUME RecorderInv, NEW p \in Pods, PodStep(p)
  PROVE  RecorderInv'
<1>1. UNCHANGED <<clock, main, rec, usage, cacheVars, panicked>>
  BY DEF PodStep
<1>2. faults' \in 0..MaxFaults
  <2>1. UNCHANGED faults \/ Fault("pod")
    BY DEF PodStep
  <2>. QED
    BY <2>1, FaultType DEF RecorderInv, TypeOK
<1>3. pod' \in [Pods -> {"absent", "unassigned", "assigned", "running", "ended", "gone"}]
  BY DEF PodStep, Become, RecorderInv, TypeOK
<1>4. TypeOK'
  BY <1>1, <1>2, <1>3 DEF RecorderInv, TypeOK, cacheVars
<1>. QED
  BY <1>1, <1>4, SameInv DEF RecorderInv, SampleInv

---------------------------------------------------------------------------
(* The recorders of a run start with no data point.                        *)
LEMMA StartInv ==
  ASSUME RecorderInv, NEW r \in Runs, StartRecorders(r)
  PROVE  RecorderInv'
<1>. USE DEF RecorderInv
<1>1. /\ UNCHANGED <<clock, pod, usage, cacheVars, panicked, faults>>
      /\ main[r] = "filter" /\ main' = [main EXCEPT ![r] = "wait"]
  BY DEF StartRecorders
<1>2. /\ rec' \in [Pods -> Recorder]
      /\ \A p \in Pods : \/ rec'[p] = rec[p]
                         \/ RunOf[p] = r /\ rec'[p].pc = "loop"
  <2>1. rec \in [Pods -> Recorder] /\ clock \in 0..MaxTime
    BY DEF TypeOK
  <2>2. \A p \in Pods : [rec[p] EXCEPT !.pc = "loop", !.start = clock] \in Recorder
    BY <2>1 DEF Recorder, RecSteps
  <2>. QED
    BY <2>1, <2>2 DEF StartRecorders, Recorder
<1>3. main' \in [Runs -> MainSteps]
  BY <1>1 DEF TypeOK, MainSteps
<1>4. \A p \in Pods : RunOf[p] = r => rec[p].pc = "off" /\ usage[p] = {}
  BY <1>1 DEF SampleInv
<1>5. \A p \in Pods : rec'[p] = rec[p] \/ (rec[p].pc = "off" /\ rec'[p].pc = "loop" /\ usage[p] = {})
  BY <1>2, <1>4
<1>6. TypeOK'
  BY <1>1, <1>2, <1>3 DEF TypeOK, cacheVars
<1>7. (Writing' <=> Writing) /\ (Stamping' <=> Stamping)
  BY <1>5 DEF Writing, Stamping
<1>8. LockInv'
  BY <1>1, <1>5 DEF LockInv, Holding, Stale, cacheVars
<1>9. CacheInv' /\ CountInv' /\ Cached' = Cached
  BY <1>1, <1>7 DEF CacheInv, CountInv, Cached, cacheVars
<1>10. \A p \in Pods : \A u \in usage'[p] : Past(p, u)'
  BY <1>1, <1>5, <1>9 DEF SampleInv, Past, cacheVars
<1>11. \A p \in Pods : main'[RunOf[p]] \in {"list", "filter"} =>
         rec'[p].pc = "off" /\ usage'[p] = {}
  <2> SUFFICES ASSUME NEW p \in Pods, main'[RunOf[p]] \in {"list", "filter"}
               PROVE  rec'[p].pc = "off" /\ usage'[p] = {}
    OBVIOUS
  <2>1. RunOf[p] # r /\ main'[RunOf[p]] = main[RunOf[p]]
    BY <1>1, RecorderAssumption DEF TypeOK
  <2>. QED
    BY <1>1, <1>2, <2>1 DEF SampleInv
<1>. QED
  BY <1>1, <1>6, <1>8, <1>9, <1>10, <1>11 DEF SampleInv, DistinctSamples

(* What a step of one recorder leaves to show, when it changes neither the *)
(* runs nor the data points.                                               *)
LEMMA StepInv ==
  ASSUME RecorderInv, NEW p \in Pods, rec[p].pc # "off",
         \A q \in Pods : q # p => rec'[q] = rec[q],
         UNCHANGED <<main, usage>>,
         TypeOK', LockInv', CacheInv', CountInv',
         \A q \in Pods : \A u \in usage[q] : Past(q, u)'
  PROVE  RecorderInv'
<1>. USE DEF RecorderInv
<1>1. \A q \in Pods : main'[RunOf[q]] \in {"list", "filter"} =>
        rec'[q].pc = "off" /\ usage'[q] = {}
  BY DEF SampleInv
<1>2. DistinctSamples'
  BY DEF SampleInv, DistinctSamples
<1>. QED
  BY <1>1, <1>2 DEF SampleInv

(* The head of the loop and the end of a sleep.                            *)
LEMMA LoopInv ==
  ASSUME RecorderInv, NEW p \in Pods, LoopHead(p) \/ Wake(p)
  PROVE  RecorderInv'
<1>. USE DEF RecorderInv
<1>1. /\ UNCHANGED <<clock, pod, main, usage, cacheVars, panicked, faults>>
      /\ rec[p].pc \in {"loop", "sleep"}
      /\ rec[p].pc = "sleep" => rec[p].wake <= clock
  BY DEF LoopHead, Wake, At
<1>2. /\ rec' \in [Pods -> Recorder] /\ rec'[p].pc \in {"loop", "lock"}
      /\ \A q \in Pods : q # p => rec'[q] = rec[q]
  <2>1. CASE Wake(p)
    BY <2>1, Moved DEF Wake, RecSteps
  <2>2. CASE LoopHead(p)
    <3>1. (rec[p].lastLoop \/ clock - rec[p].start >= Duration) \in BOOLEAN
      OBVIOUS
    <3>. QED
      BY <2>2, <3>1 DEF LoopHead, TypeOK, Recorder, RecSteps
  <2>. QED
    BY <2>1, <2>2
<1>3. TypeOK'
  BY <1>1, <1>2 DEF TypeOK, cacheVars
<1>4. (Writing' <=> Writing) /\ (Stamping' <=> Stamping)
  BY <1>1, <1>2 DEF Writing, Stamping
<1>5. LockInv'
  BY <1>1, <1>2 DEF LockInv, Holding, Stale, cacheVars
<1>6. CacheInv' /\ CountInv' /\ Cached' = Cached
  BY <1>1, <1>4 DEF CacheInv, CountInv, Cached, cacheVars
<1>7. \A q \in Pods : \A u \in usage[q] : Past(q, u)'
  <2> SUFFICES ASSUME NEW q \in Pods, NEW u \in usage[q] PROVE Past(q, u)'
    OBVIOUS
  <2>1. Past(q, u)
    BY DEF SampleInv
  <2>2. u[1] \in Nat /\ clock \in Nat /\ rec[p].wake \in Nat
    BY RecorderTypes
  <2>. QED
    BY <1>1, <1>2, <1>6, <2>1, <2>2, Times DEF Past, Awake, cacheVars
<1>. QED
  BY <1>1, <1>2, <1>3, <1>5, <1>6, <1>7, StepInv

(* The mutex is taken for a cache that is too old; a younger one is newer  *)
(* than any data point of the recorder.                                    *)
LEMMA LockStepInv ==
  ASSUME RecorderInv, NEW p \in Pods, RefreshLock(p)
  PROVE  RecorderInv'
<1>. USE DEF RecorderInv
<1>1. /\ UNCHANGED <<clock, pod, main, usage, podMetrics, podMetricsLastUpdate,
                     fetched, refreshes, panicked, faults>>
      /\ rec[p].pc = "lock" /\ refreshMutex = NoPod
      /\ \/ ~Stale /\ GoTo(p, "read") /\ refreshMutex' = NoPod
         \/ Stale /\ GoTo(p, "nodes") /\ refreshMutex' = p
  BY DEF RefreshLock, At
<1>2. /\ rec' \in [Pods -> Recorder]
      /\ \/ ~Stale /\ rec'[p].pc = "read" /\ refreshMutex' = NoPod
         \/ Stale /\ rec'[p].pc = "nodes" /\ refreshMutex' = p
      /\ \A q \in Pods : q # p => rec'[q] = rec[q]
  BY <1>1, Moved DEF RecSteps
<1>3. ~Writing /\ ~Stamping /\ \A q \in Pods : rec[q].pc \notin Holding
  BY <1>1, NoWriter
<1>4. ~Writing' /\ ~Stamping'
  BY <1>2, <1>3 DEF Writing, Stamping, Holding
<1>5. Stale' <=> Stale
  BY <1>1 DEF Stale
<1>6. TypeOK'
  BY <1>1, <1>2 DEF TypeOK
<1>7. LockInv'
  BY <1>2, <1>3, <1>5, NoPodAssumption DEF LockInv, Holding
<1>8. CacheInv' /\ CountInv' /\ Cached = refreshes /\ Cached' = refreshes
  BY <1>1, <1>3, <1>4 DEF CacheInv, CountInv, Cached
<1>9. \A q \in Pods : \A u \in usage[q] : Past(q, u)'
  <2> SUFFICES ASSUME NEW q \in Pods, NEW u \in usage[q] PROVE Past(q, u)'
    OBVIOUS
  <2>1. Past(q, u)
    BY DEF SampleInv
  <2>2. CASE q # p
    BY <1>1, <1>2, <1>8, <2>1, <2>2 DEF Past
  <2>3. CASE q = p /\ ~Stale
    <3>1. /\ u[1] \in Nat /\ u[2] \in Nat /\ clock \in Nat /\ refreshes \in Nat
          /\ podMetricsLastUpdate \in Nat
      BY RecorderTypes
    <3>2. u[1] + 3 <= clock /\ u[2] <= refreshes
      BY <1>1, <1>8, <2>1, <2>3, Times DEF Past, Awake
    <3>3. clock - podMetricsLastUpdate < 2
      BY <2>3, <3>1, Times DEF Stale
    <3>4. u[2] # refreshes
      BY <2>1, <3>1, <3>2, <3>3 DEF Past
    <3>5. u[2] < refreshes
      BY <3>1, <3>2, <3>4
    <3>. QED
      BY <1>1, <1>2, <1>8, <2>1, <2>3, <3>5 DEF Past, Awake
  <2>4. CASE q = p /\ Stale
    BY <1>1, <1>2, <1>8, <2>1, <2>4 DEF Past, Awake
  <2>. QED
    BY <2>2, <2>3, <2>4
<1>. QED
  BY <1>1, <1>2, <1>6, <1>7, <1>8, <1>9, StepInv

(* The kubelets answer, or the nodes cannot be listed.                     *)
LEMMA NodesInv ==
  ASSUME RecorderInv, NEW p \in Pods, RefreshNodes(p)
  PROVE  RecorderInv'
<1>. USE DEF RecorderInv
<1>1. /\ UNCHANGED <<clock, pod, main, usage, podMetrics, podMetricsLastUpdate, panicked>>
      /\ rec[p].pc = "nodes"
  BY DEF RefreshNodes, At
<1>2. ~Writing /\ ~Stamping /\ refreshMutex = p /\ Stale /\ Cached = refreshes
      /\ \A q \in Pods : q # p => rec[q].pc \notin Holding
  BY <1>1, Writer DEF Holding, LockInv, Cached
<1>3. /\ clock \in Nat /\ clock <= MaxTime /\ refreshes \in Nat
      /\ podMetricsLastUpdate \in Nat
  BY RecorderTypes
<1>4. refreshes <= clock
  BY <1>2, <1>3, Times DEF CountInv, Stale
<1>5. CASE Fault("nodes") /\ GoTo(p, "error") /\ refreshMutex' = NoPod
           /\ UNCHANGED <<fetched, refreshes>>
  <2>1. /\ rec' \in [Pods -> Recorder] /\ rec'[p].pc = "error"
        /\ \A q \in Pods : q # p => rec'[q] = rec[q]
    BY <1>5, Moved DEF RecSteps
  <2>2. faults' \in 0..MaxFaults
    BY <1>5, FaultType
  <2>3. ~Writing' /\ ~Stamping' /\ Cached' = Cached
    BY <1>2, <1>5, <2>1 DEF Writing, Stamping, Holding, Cached
  <2>4. TypeOK'
    BY <1>1, <1>5, <2>1, <2>2 DEF TypeOK
  <2>5. LockInv'
    BY <1>2, <1>5, <2>1, NoPodAssumption DEF LockInv, Holding
  <2>6. CacheInv' /\ CountInv'
    BY <1>1, <1>2, <1>5, <2>3 DEF CacheInv, CountInv
  <2>7. \A q \in Pods : \A u \in usage[q] : Past(q, u)'
    BY <1>1, <1>5, <2>1, <2>3 DEF SampleInv, Past, Awake
  <2>. QED
    BY <1>1, <2>1, <2>4, <2>5, <2>6, <2>7, StepInv
<1>6. CASE /\ \E answer \in SUBSET Nodes :
                /\ \/ answer = Nodes /\ UNCHANGED faults
                   \/ answer # Nodes /\ Fault("kubelet")
                /\ fetched' = [q \in Pods |->
                     IF NodeOf[q] \in answer /\ pod[q] = "running"
                     THEN refreshes + 1 ELSE 0]
           /\ refreshes' = refreshes + 1
           /\ GoTo(p, "stamp")
           /\ UNCHANGED refreshMutex
  <2>1. /\ rec' \in [Pods -> Recorder] /\ rec'[p].pc = "stamp"
        /\ \A q \in Pods : q # p => rec'[q] = rec[q]
    BY <1>6, Moved DEF RecSteps
  <2>2. faults' \in 0..MaxFaults
    BY <1>6, FaultType DEF TypeOK
  <2>3. Writing' /\ Stamping' /\ Cached' = refreshes
    BY <1>3, <1>6, <2>1 DEF Writing, Stamping, Cached
  <2>4. /\ \A q \in Pods : fetched'[q] \in {0, refreshes'}
        /\ DOMAIN fetched' = Pods /\ fetched' = [q \in Pods |-> fetched'[q]]
    BY <1>6
  <2>5. refreshes' \in 0..(MaxTime + 1) /\ refreshes' = refreshes + 1
    BY <1>3, <1>4, <1>6, Times
  <2>6. TypeOK'
    <3>1. fetched' \in Stats
      BY <2>4, <2>5, Times DEF Stats
    <3>. QED
      BY <1>1, <1>6, <2>1, <2>2, <2>5, <3>1 DEF TypeOK, Stats
  <2>7. LockInv'
    BY <1>1, <1>2, <1>6, <2>1, NoPodAssumption DEF LockInv, Holding, Stale
  <2>8. CacheInv' /\ CountInv'
    BY <1>1, <1>2, <1>3, <1>4, <2>3, <2>4, <2>5 DEF CacheInv, CountInv
  <2>9. \A q \in Pods : \A u \in usage[q] : Past(q, u)'
    <3> SUFFICES ASSUME NEW q \in Pods, NEW u \in usage[q] PROVE Past(q, u)'
      OBVIOUS
    <3>1. Past(q, u) /\ u[2] \in Nat
      BY RecorderTypes DEF SampleInv
    <3>2. u[2] <= refreshes /\ u[2] # refreshes'
      BY <1>2, <1>3, <2>5, <3>1 DEF Past
    <3>. QED
      BY <1>1, <1>2, <2>1, <2>3, <3>1, <3>2 DEF Past, Awake
  <2>. QED
    BY <1>1, <2>1, <2>6, <2>7, <2>8, <2>9, StepInv
<1>. QED
  BY <1>5, <1>6 DEF RefreshNodes

(* The time of the update is set while the cache is still the old one.     *)
LEMMA StampInv ==
  ASSUME RecorderInv, NEW p \in Pods, RefreshStamp(p)
  PROVE  RecorderInv'
<1>. USE DEF RecorderInv
<1>1. /\ UNCHANGED <<clock, pod, main, usage, refreshMutex, podMetrics, fetched,
                     refreshes, panicked, faults>>
      /\ rec[p].pc = "stamp" /\ podMetricsLastUpdate' = clock /\ GoTo(p, "publish")
  BY DEF RefreshStamp, At
<1>2. /\ rec' \in [Pods -> Recorder] /\ rec'[p].pc = "publish"
      /\ \A q \in Pods : q # p => rec'[q] = rec[q]
  BY <1>1, Moved DEF RecSteps
<1>3. Writing /\ Stamping /\ refreshMutex = p
      /\ \A q \in Pods : q # p => rec[q].pc \notin Holding
  BY <1>1, Writer DEF Holding, LockInv
<1>4. /\ clock \in Nat /\ clock <= MaxTime /\ refreshes \in Nat
  BY RecorderTypes
<1>5. Writing' /\ ~Stamping' /\ Cached' = Cached /\ Cached = refreshes - 1
  BY <1>1, <1>2, <1>3 DEF Writing, Stamping, Holding, Cached
<1>6. TypeOK'
  <2>1. podMetricsLastUpdate' \in 0..Never
    BY <1>1, <1>4, Times
  <2>. QED
    BY <1>1, <1>2, <2>1 DEF TypeOK
<1>7. LockInv'
  BY <1>1, <1>2, <1>3 DEF LockInv, Holding
<1>8. CacheInv' /\ CountInv'
  BY <1>1, <1>3, <1>4, <1>5, Times DEF CacheInv, CountInv
<1>9. \A q \in Pods : \A u \in usage[q] : Past(q, u)'
  <2> SUFFICES ASSUME NEW q \in Pods, NEW u \in usage[q] PROVE Past(q, u)'
    OBVIOUS
  <2>1. Past(q, u) /\ u[2] \in Nat
    BY RecorderTypes DEF SampleInv
  <2>2. u[2] # refreshes
    BY <1>4, <1>5, <2>1 DEF Past
  <2>. QED
    BY <1>1, <1>2, <1>5, <2>1, <2>2 DEF Past, Awake
<1>. QED
  BY <1>1, <1>2, <1>6, <1>7, <1>8, <1>9, StepInv

(* The statistics are replaced and the mutex is free: the cache is newer   *)
(* than every data point.                                                  *)
LEMMA PublishInv ==
  ASSUME RecorderInv, NEW p \in Pods, RefreshPublish(p)
  PROVE  RecorderInv'
<1>. USE DEF RecorderInv
<1>1. /\ UNCHANGED <<clock, pod, main, usage, podMetricsLastUpdate, fetched,
                     refreshes, panicked, faults>>
      /\ rec[p].pc = "publish" /\ podMetrics' = fetched /\ refreshMutex' = NoPod
      /\ GoTo(p, "read")
  BY DEF RefreshPublish, At
<1>2. /\ rec' \in [Pods -> Recorder] /\ rec'[p].pc = "read"
      /\ \A q \in Pods : q # p => rec'[q] = rec[q]
  BY <1>1, Moved DEF RecSteps
<1>3. Writing /\ ~Stamping /\ refreshMutex = p
      /\ \A q \in Pods : q # p => rec[q].pc \notin Holding
  BY <1>1, Writer DEF Holding, LockInv
<1>4. clock \in Nat /\ refreshes \in Nat
  BY RecorderTypes
<1>5. ~Writing' /\ ~Stamping' /\ Cached' = refreshes /\ Cached = refreshes - 1
  BY <1>1, <1>2, <1>3 DEF Writing, Stamping, Holding, Cached
<1>6. TypeOK'
  BY <1>1, <1>2 DEF TypeOK
<1>7. LockInv'
  BY <1>1, <1>2, <1>3, NoPodAssumption DEF LockInv, Holding
<1>8. CacheInv' /\ CountInv'
  BY <1>1, <1>3, <1>4, <1>5 DEF CacheInv, CountInv
<1>9. \A q \in Pods : \A u \in usage[q] : Past(q, u)'
  <2> SUFFICES ASSUME NEW q \in Pods, NEW u \in usage[q] PROVE Past(q, u)'
    OBVIOUS
  <2>1. Past(q, u) /\ u[2] \in Nat
    BY RecorderTypes DEF SampleInv
  <2>2. u[2] < refreshes
    BY <1>4, <1>5, <2>1 DEF Past
  <2>. QED
    BY <1>1, <1>2, <1>4, <1>5, <2>1, <2>2 DEF Past, Awake
<1>. QED
  BY <1>1, <1>2, <1>6, <1>7, <1>8, <1>9, StepInv

(* The data point that is taken is of a statistic the recorder does not    *)
(* have yet.                                                               *)
LEMMA UsageInv ==
  ASSUME RecorderInv, NEW p \in Pods, RecordUsage(p)
  PROVE  RecorderInv'
<1> DEFINE new == IF podMetrics[p] # 0 THEN {<<clock, podMetrics[p]>>} ELSE {}
<1>. USE DEF RecorderInv
<1>1. /\ UNCHANGED <<clock, pod, main, cacheVars, panicked, faults>>
      /\ rec[p].pc = "read"
  BY DEF RecordUsage, At
<1>2. /\ clock \in Nat /\ clock <= MaxTime /\ refreshes \in Nat
      /\ podMetricsLastUpdate \in Nat /\ podMetrics[p] \in Nat
  BY RecorderTypes
<1>3. /\ usage \in [Pods -> SUBSET ((0..MaxTime) \X (1..(MaxTime + 1)))]
      /\ podMetrics[p] \in 0..(MaxTime + 1) /\ rec \in [Pods -> Recorder]
  BY DEF TypeOK, Stats
<1>4. usage' = [usage EXCEPT ![p] = @ \cup new]
  BY <1>3 DEF RecordUsage
<1>5. usage' \in [Pods -> SUBSET ((0..MaxTime) \X (1..(MaxTime + 1)))]
  <2>1. new \subseteq (0..MaxTime) \X (1..(MaxTime + 1))
    BY <1>2, <1>3, Times
  <2>. HIDE DEF new
  <2>. QED
    BY <1>3, <1>4, <2>1
<1>6. /\ rec' \in [Pods -> Recorder]
      /\ \A q \in Pods : q # p => rec'[q] = rec[q]
      /\ rec'[p].pc \in {"done", "sleep"} /\ rec'[p].wake >= clock
      /\ podMetrics[p] # 0 => rec'[p].wake = clock + 3
  <2> DEFINE step == IF rec[p].lastLoop THEN "done" ELSE "sleep"
             wake == clock + (IF podMetrics[p] # 0 THEN metricsRecordingInterval
                              ELSE retryAfter)
  <2>1. rec' = [rec EXCEPT ![p].pc = step, ![p].wake = wake]
    BY DEF RecordUsage
  <2>2. /\ step \in RecSteps /\ step \in {"done", "sleep"}
        /\ wake \in 0..(MaxTime + metricsRecordingInterval) /\ wake >= clock
        /\ podMetrics[p] # 0 => wake = clock + 3
    BY <1>2, Times DEF RecSteps
  <2>. HIDE DEF step, wake
  <2>. QED
    BY <1>3, <2>1, <2>2 DEF Recorder
<1>7. (Writing' <=> Writing) /\ (Stamping' <=> Stamping)
  BY <1>1, <1>6 DEF Writing, Stamping
<1>8. TypeOK'
  BY <1>1, <1>5, <1>6 DEF TypeOK, cacheVars
<1>9. LockInv'
  BY <1>1, <1>6 DEF LockInv, Holding, Stale, cacheVars
<1>10. CacheInv' /\ CountInv' /\ Cached' = Cached
  BY <1>1, <1>7 DEF CacheInv, CountInv, Cached, cacheVars
<1>11. ASSUME NEW q \in Pods, NEW u \in usage[q] PROVE Past(q, u)'
  <2>1. Past(q, u) /\ u[1] \in Nat
    BY RecorderTypes DEF SampleInv
  <2>2. q = p => u[1] + 3 <= clock
    BY <1>1, <2>1, Times DEF Past, Awake
  <2>. QED
    BY <1>1, <1>2, <1>6, <1>10, <2>1, <2>2, Times DEF Past, Awake, cacheVars, Recorder
<1>12. ASSUME NEW u \in new PROVE Past(p, u)' /\ u[2] = Cached
  <2>1. u = <<clock, podMetrics[p]>> /\ podMetrics[p] # 0 /\ u[1] = clock /\ u[2] = podMetrics[p]
    OBVIOUS
  <2>2. u[2] = Cached
    BY <2>1 DEF CacheInv
  <2>3. u[2] = refreshes => podMetricsLastUpdate <= clock
    <3> SUFFICES ASSUME Cached = refreshes, refreshes # 0
                 PROVE  podMetricsLastUpdate <= clock
      BY <2>1, <2>2
    <3>1. ~Stamping
      BY <1>2 DEF Cached, Stamping, Writing
    <3>. QED
      BY <3>1 DEF CountInv
  <2>. QED
    BY <1>1, <1>2, <1>6, <1>10, <2>1, <2>2, <2>3, Times DEF Past, Awake, cacheVars
<1>13. \A q \in Pods : \A u \in usage'[q] : Past(q, u)'
  BY <1>3, <1>4, <1>11, <1>12
<1>14. \A q \in Pods : main'[RunOf[q]] \in {"list", "filter"} =>
         rec'[q].pc = "off" /\ usage'[q] = {}
  BY <1>1, <1>3, <1>4, <1>6 DEF SampleInv
<1>15. DistinctSamples'
  <2>1. \A u \in usage[p] : u[2] < Cached /\ u[2] \in Nat
    BY <1>1, RecorderTypes DEF SampleInv, Past
  <2>2. Cached \in Nat
    BY <1>2 DEF Cached, CacheInv
  <2>3. \A u \in usage[p], v \in new : u[2] # v[2]
    BY <1>12, <2>1, <2>2
  <2>4. \A u, v \in new : u = v
    OBVIOUS
  <2>. HIDE DEF new
  <2>. QED
    BY <1>3, <1>4, <2>3, <2>4 DEF SampleInv, DistinctSamples
<1>. QED
  BY <1>8, <1>9, <1>10, <1>13, <1>14, <1>15 DEF SampleInv

(* Time passes: the cache and the last data points get older.              *)
LEMMA TickInv ==
  ASSUME RecorderInv, Tick
  PROVE  RecorderInv'
<1>. USE DEF RecorderInv
<1>1. UNCHANGED <<pod, main, rec, usage, cacheVars, panicked>> /\ clock' = clock + 1
      /\ clock < MaxTime
  BY DEF Tick
<1>2. faults' \in 0..MaxFaults
  <2>1. UNCHANGED faults \/ Fault("slow")
    BY DEF Tick
  <2>. QED
    BY <2>1, FaultType DEF TypeOK
<1>3. clock \in Nat /\ podMetricsLastUpdate \in Nat /\ refreshes \in Nat
  BY RecorderTypes
<1>4. TypeOK'
  BY <1>1, <1>2, <1>3, Times DEF TypeOK, cacheVars
<1>5. LockInv'
  BY <1>1, <1>3, Times DEF LockInv, Stale, cacheVars
<1>6. CacheInv' /\ CountInv' /\ Cached' = Cached
  BY <1>1, <1>3 DEF CacheInv, CountInv, Cached, Writing, Stamping, cacheVars
<1>7. \A p \in Pods : \A u \in usage'[p] : Past(p, u)'
  BY <1>1, <1>3, <1>6, RecorderTypes, Times DEF SampleInv, Past, cacheVars
<1>. QED
  BY <1>1, <1>4, <1>5, <1>6, <1>7 DEF SampleInv, DistinctSamples

(* Every step keeps the invariant.                                         *)
LEMMA RecorderInvStep == RecorderInv /\ [Next]_vars => RecorderInv'
<1> SUFFICES ASSUME RecorderInv, [Next]_vars PROVE RecorderInv'
  OBVIOUS
<1>1. CASE UNCHANGED vars
  <2>1. TypeOK'
    BY <1>1 DEF RecorderInv, TypeOK, vars, cacheVars
  <2>2. UNCHANGED <<clock, main, rec, usage, cacheVars>>
    BY <1>1 DEF vars
  <2>. QED
    BY <2>1, <2>2, SameInv DEF RecorderInv, SampleInv
<1>2. ASSUME NEW r \in Runs, MainStep(r) PROVE RecorderInv'
  BY <1>2, MainInv, StartInv DEF MainStep
<1>3. ASSUME NEW p \in Pods, RecorderStep(p) PROVE RecorderInv'
  BY <1>3, LoopInv, LockStepInv, NodesInv, StampInv, PublishInv, UsageInv DEF RecorderStep
<1>4. ASSUME NEW p \in Pods, PodStep(p) PROVE RecorderInv'
  BY <1>4, PodInv
<1>5. CASE Tick
  BY <1>5, TickInv
<1>. QED
  BY <1>1, <1>2, <1>3, <1>4, <1>5 DEF Next

---------------------------------------------------------------------------
(* Every variable keeps its type: there are never more refreshes than      *)
(* units of time, which is what bounds the numbers of the statistics.      *)
THEOREM RecorderTypeCorrect == Spec => []TypeOK
<1>1. RecorderInv => TypeOK
  BY DEF RecorderInv
<1>. QED
  BY <1>1, InitRecorderInv, RecorderInvStep, PTL DEF Spec

(* No data point repeats a statistic, though recorders read the cache      *)
(* without the mutex while another one is replacing it: the time of an     *)
(* update is set before the statistics are, and the interval between two   *)
(* data points is longer than the one after which the cache is too old.    *)
THEOREM SamplesAreDistinct == Spec => []DistinctSamples
<1>1. RecorderInv => DistinctSamples
  BY DEF RecorderInv, SampleInv
<1>. QED
  BY <1>1, InitRecorderInv, RecorderInvStep, PTL DEF Spec

(* The kubelets are asked again only 10 seconds after the last update,     *)
(* because the age of the cache is looked at with the mutex held.          *)
THEOREM RefreshesAreSpaced == Spec => RefreshSpaced
<1>1. ASSUME RecorderInv, [Next]_vars, refreshes' # refreshes
      PROVE  podMetricsLastUpdate = Never \/ clock - podMetricsLastUpdate >= refreshAfter
  <2>1. PICK p \in Pods : RefreshNodes(p)
    BY <1>1 DEF Next, vars, cacheVars, MainStep, ListPods, StartRecorders, Collect, RecorderStep,
                LoopHead, RefreshLock, RefreshStamp, RefreshPublish, RecordUsage, Wake,
                PodStep, Tick
  <2>2. Stale
    BY <1>1, <2>1 DEF RefreshNodes, At, RecorderInv, LockInv
  <2>. QED
    BY <2>2 DEF Stale
<1>2. RecorderInv /\ [Next]_vars =>
        [refreshes' # refreshes =>
           podMetricsLastUpdate = Never \/ clock - podMetricsLastUpdate >= refreshAfter]_vars
  BY <1>1
<1>. QED
  BY <1>2, InitRecorderInv, RecorderInvStep, PTL DEF Spec, RefreshSpaced
============================================================================
