-------------------------- MODULE MCWorkloadRollout --------------------------
(* Instances of WorkloadRollout for TLC; the cfg files give all constants.  *)
EXTENDS WorkloadRollout
============================================================================
