-------------------------- MODULE CheckPromise --------------------------
(***************************************************************************)
(* What a WorkloadHardeningCheck promises to whoever reads its status: the *)
(* user, and the NamespaceHardeningCheck that made it.  WorkloadHardening  *)
(* implements it, see HardeningPromise, and NamespaceHardening relies on   *)
(* it.                                                                     *)
(*                                                                         *)
(*   baselines    both baselines were recorded                             *)
(*   ready        the checks in which the workload was seen ready          *)
(*   tried        a final run was recorded                                 *)
(*   recommended  Status.Recommendation is set                             *)
(*   merged       the checks whose security contexts it consists of        *)
(*   finished     "no", or the reason of the Finished condition            *)
(***************************************************************************)
CONSTANTS
  Checks,          \* the check types
  FailureReasons   \* the reasons of Finished that report a failure

Promises ==
  [baselines   : BOOLEAN,
   ready       : SUBSET Checks,
   tried       : BOOLEAN,
   recommended : BOOLEAN,
   merged      : SUBSET Checks,
   finished    : {"no", "Finished"} \cup FailureReasons]

NoPromise ==
  [baselines |-> FALSE, ready |-> {}, tried |-> FALSE,
   recommended |-> FALSE, merged |-> {}, finished |-> "no"]

SameRuns(p, q) ==
  q.baselines = p.baselines /\ q.ready = p.ready /\ q.tried = p.tried

SameVerdict(p, q) ==
  q.recommended = p.recommended /\ q.merged = p.merged /\ q.finished = p.finished

---------------------------------------------------------------------------
(* A run is recorded.  What was recorded stays known, and a final run      *)
(* tries a recommendation that is there.                                   *)
Recording(p, q) ==
  /\ p.baselines => q.baselines
  /\ p.ready \subseteq q.ready
  /\ p.tried => q.tried
  /\ q.tried => p.tried \/ p.recommended
  /\ SameVerdict(p, q)

(* A recommendation is made, or replaced: only before the check finishes,  *)
(* compared with both baselines, from checks the workload survived.        *)
Recommending(p, q) ==
  /\ p.finished = "no" /\ q.finished = "no"
  /\ p.baselines
  /\ q.recommended
  /\ q.merged \subseteq p.ready
  /\ SameRuns(p, q)

(* The check finishes, once.                                               *)
Finishing(p, q) ==
  /\ p.finished = "no" /\ q.finished # "no"
  /\ q.finished = "Finished" => p.recommended /\ p.tried
  /\ q.recommended = p.recommended /\ q.merged = p.merged
  /\ SameRuns(p, q)

PromiseStep(p, q) == Recording(p, q) \/ Recommending(p, q) \/ Finishing(p, q)
============================================================================
