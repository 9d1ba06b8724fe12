------------------------- MODULE MCWorkloadHardening -------------------------
(***************************************************************************)
(* WorkloadHardening for TLC.  Besides the whole life of a check, from     *)
(* Init, there are two states Init leads to.  InitBaselineDone: both       *)
(* baselines were recorded without a fault and their namespaces are gone.  *)
(* It leaves out the interleavings with the baseline runs and makes room   *)
(* for more faults and more runners.  InitBaselineLost: neither baseline   *)
(* run saw its workload updated in time, nor could Valkey be reached; both *)
(* deleted their namespace and said running again; then the operator died. *)
(* It is back, the namespaces are gone, and no run is left to report: the  *)
(* baseline has to become overdue.  No other fault follows.                *)
(***************************************************************************)
EXTENDS WorkloadHardening

InitBaselineDone ==
  /\ exists = TRUE
  /\ status = [EmptyStatus EXCEPT !.cond["Baseline"] = "Recorded"]
  /\ cache = EmptyStatus
  /\ rpc = "idle"
  /\ snap = EmptyStatus
  /\ mruns = NoRuns
  /\ todo = LoopDone
  /\ held = FALSE
  /\ wake = {"timer"}
  /\ run = [r \in Runners |-> IdleRunner]
  /\ ns = [t \in RunTypes |-> "absent"]
  /\ valkey = Baselines
  /\ stored = Baselines
  /\ ready = Baselines
  /\ faults = 0

InitBaselineLost ==
  /\ exists = TRUE
  /\ status = [EmptyStatus EXCEPT !.cond["Baseline"] = "Recording"]
  /\ cache = IF CacheLag THEN View(status) ELSE EmptyStatus
  /\ rpc = "idle"
  /\ snap = EmptyStatus
  /\ mruns = NoRuns
  /\ todo = LoopDone
  /\ held = FALSE
  /\ wake = {"event"}
  /\ run = [r \in Runners |-> IdleRunner]
  /\ ns = [t \in RunTypes |-> "absent"]
  /\ valkey = {}
  /\ stored = {}
  /\ ready = {}
  /\ faults = MaxFaults

FairSpecLifecycle    == (Init \/ InitBaselineLost) /\ [][Next]_vars /\ Fairness
SpecBaselineDone     == InitBaselineDone /\ [][Next]_vars
FairSpecBaselineDone == SpecBaselineDone /\ Fairness
============================================================================
