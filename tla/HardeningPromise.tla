-------------------------- MODULE HardeningPromise --------------------------
(***************************************************************************)
(* The abstract specification of one WorkloadHardeningCheck: all it does   *)
(* to its promise is one of the three steps of CheckPromise.               *)
(***************************************************************************)
EXTENDS CheckPromise

VARIABLE promise

Init == promise = NoPromise
Next == promise' \in Promises /\ PromiseStep(promise, promise')
Spec == Init /\ [][Next]_promise
============================================================================
