------------------------ MODULE MCNamespaceHardening ------------------------
(***************************************************************************)
(* Instances of NamespaceHardening for TLC.                                *)
(***************************************************************************)
EXTENDS NamespaceHardening

CONSTANTS w1, w2, u1

(* No check of the user's, or one for the workload w1.                     *)
MCNoTarget == [o \in {} |-> w1]
MCTarget == [o \in {u1} |-> w1]

(* Does not hold: Success says that every workload was ready with what is  *)
(* recommended for it.  EarlySuccess shows the status that has not noticed *)
(* the update yet.                                                         *)
AllShown == nhc.cond = "Success" => nhc.recs \subseteq shown

(* Does not hold: the namespace of a final run is gone in the end.         *)
(* LeftBehind shows the run that a crash of the operator ends.             *)
NothingLeftBehind == <>[](finalns = "absent")
============================================================================
