-------------------------- MODULE MCMetricsRecorder --------------------------
(***************************************************************************)
(* Instances of MetricsRecorder for TLC: two parallel runs, a pod each, on *)
(* two nodes.                                                              *)
(***************************************************************************)
EXTENDS MetricsRecorder

CONSTANTS p1, p2, r1, r2, n1, n2

MCRunOf  == [p \in Pods |-> IF p = p2 THEN r2 ELSE r1]
MCNodeOf == [p \in Pods |-> IF p = p2 THEN n2 ELSE n1]
============================================================================
