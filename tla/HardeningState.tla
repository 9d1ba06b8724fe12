--------------------------- MODULE HardeningState ---------------------------
(***************************************************************************)
(* The state the reconciler and the check runners of one                   *)
(* WorkloadHardeningCheck share: the object in the API server, the         *)
(* reconciler's view of it, the check namespaces, the recordings in        *)
(* Valkey, the work queue and the runner goroutines.                       *)
(***************************************************************************)
EXTENDS CheckStatus, Naturals

CONSTANTS
  RunMode,      \* Spec.RunMode: "parallel" or "sequential"
  MaxCopies,    \* bound: runners of one type alive at the same time
  CacheLag,     \* TRUE: the manager's cached client may be behind
  FaultKinds,   \* which of AllFaults the environment may cause
  MaxFaults     \* bound: how many of them in a behaviour

(* "api"     a call to the API server or to Valkey fails                   *)
(* "clone"   a part of the namespace clone fails                           *)
(* "timeout" the workload is not updated within two minutes                *)
(* "slow"    a run that makes progress takes longer than d + 1 minute, or *)
(*           its preparation, or the deletion of its namespace, longer     *)
(*           than the requeue delay                                        *)
(* "race"    a runner writes between two reads of Reconcile that follow    *)
(*           each other at once                                            *)
(* "expire"  Valkey drops a recording (24 hours TTL)                       *)
(* "edit"    the user changes the spec of the object                       *)
(* "delete"  the user deletes the object                                   *)
(* "crash"   the operator process dies and is restarted                    *)
AllFaults == {"api", "clone", "timeout", "slow", "race", "expire", "edit", "delete", "crash"}

ASSUME ModeAssumption  == RunMode \in {"parallel", "sequential"}
ASSUME BoundAssumption == MaxCopies \in Nat \ {0} /\ MaxFaults \in Nat
ASSUME FaultAssumption == FaultKinds \subseteq AllFaults /\ CacheLag \in BOOLEAN

VARIABLES
  exists,     \* the object exists in the API server
  status,     \* its status; the last one once the object is deleted
  cache,      \* View of its status in the manager's cached client
  rpc,        \* where Reconcile is; "idle" between two calls
  snap,       \* workloadHardening: the status read at the start of Reconcile
  mruns,      \* checkManager's copy of Status.CheckRuns during the analysis
  todo,       \* how far the loop of recordChecks is with each check
  held,       \* Reconcile is between two reads that follow each other at once
  wake,       \* pending work queue entries
  run,        \* the runner goroutines
  ns,         \* the check namespaces
  valkey,     \* the recordings stored
  stored,     \* history: run types of which a recording was ever stored
  ready,      \* history: those with one in which the workload was ready
  faults      \* faults so far

vars == <<exists, status, cache, rpc, snap, mruns, todo, held, wake,
          run, ns, valkey, stored, ready, faults>>
reconcilerVars == <<rpc, snap, mruns, todo, held, wake>>

Runners == RunTypes \X (1..MaxCopies)

RunnerSteps == {"idle", "start", "ensure", "clone", "populate", "prepare",
                "wait", "timedout", "record", "finish", "report", "cleanup"}

(* unknown: the condition was Unknown in the snapshot the runner was made  *)
(* from, until "start" has looked at it.  outcome: checkSuccessful, from   *)
(* "finish" on.                                                            *)
Runner     == [pc : RunnerSteps, unknown : BOOLEAN, outcome : Outcomes]
IdleRunner == [pc |-> "idle", unknown |-> FALSE, outcome |-> "bad"]

(* A namespace exists without the workload ("empty") or with it ("ready"). *)
NamespaceStates == {"absent", "empty", "ready", "terminating"}

ReconcilerSteps == {"idle", "fetched", "remove", "analysing", "overwrite",
                    "recommend", "analysed", "abandon", "final", "finalOverdue",
                    "startFinal", "baseline", "baselineOverdue", "recordBaseline",
                    "baseline2", "checks", "required", "record"}

(* "asked": was not recorded when asked; "overdue": is to be started again. *)
LoopSteps == {"done", "todo", "asked", "overdue"}

NoRuns   == [c \in Checks |-> "none"]
LoopDone == [c \in Checks |-> "done"]

TypeOK ==
  /\ exists \in BOOLEAN
  /\ status \in Status
  /\ cache \in Status
  /\ rpc \in ReconcilerSteps
  /\ snap \in Status
  /\ mruns \in [Checks -> Reports]
  /\ todo \in [Checks -> LoopSteps]
  /\ held \in BOOLEAN
  /\ wake \subseteq {"event", "timer"}
  /\ run \in [Runners -> Runner]
  /\ ns \in [RunTypes -> NamespaceStates]
  /\ valkey \subseteq RunTypes
  /\ stored \subseteq RunTypes
  /\ ready \subseteq RunTypes
  /\ faults \in 0..MaxFaults

recordings == <<valkey, stored, ready>>

(* The part of a fetched object that Reconcile ever looks at: Finished,    *)
(* which conditions are Unknown, the Analysis condition, whether there is  *)
(* a recommendation and whether a baseline run failed.                     *)
View(s) ==
  [EmptyStatus EXCEPT
     !.cond = [c \in Conds |-> IF s.cond[c] = "Unknown" THEN "Unknown" ELSE "Absent"],
     !.finished = s.finished,
     !.analysis = s.analysis,
     !.recommended = s.recommended,
     !.baselineBad = s.baselineBad]

---------------------------------------------------------------------------
(* A fault of this kind happens.                                           *)
Fault(kind) ==
  /\ kind \in FaultKinds
  /\ faults < MaxFaults
  /\ faults' = faults + 1

(* The status writes re-read the object and retry on conflict, so each is  *)
(* one atomic read-modify-write.  It is skipped when the object is gone.   *)
Update(new) == status' = IF exists THEN new ELSE status

(* A write whose error the caller only logs or ignores: it may be lost, by *)
(* a fault of its own or by the one that has just made the step fail.      *)
TryUpdate(new) ==
  \/ Update(new) /\ UNCHANGED faults
  \/ Fault("api") /\ UNCHANGED status

MayUpdate(new) == Update(new) \/ UNCHANGED status

(* ValkeyClient.StoreRecording succeeds.                                   *)
StoreRecording(t, outcome) ==
  /\ valkey' = valkey \cup {t}
  /\ stored' = stored \cup {t}
  /\ ready' = IF outcome = "ok" THEN ready \cup {t} ELSE ready

(* namespace.Delete: the namespace goes away later, see NamespaceGone.     *)
Deleted(state) == IF state = "absent" THEN "absent" ELSE "terminating"

(* go RunCheck(...): a runner is made from the snapshot and started.       *)
Launch(t) ==
  \E k \in 1..MaxCopies :
    /\ run[<<t, k>>].pc = "idle"
    /\ \A j \in 1..(k - 1) : run[<<t, j>>].pc # "idle"
    /\ run' = [run EXCEPT ![<<t, k>>] =
                 [pc      |-> "start",
                  unknown |-> snap.cond[CondOf(t)] = "Unknown",
                  outcome |-> "bad"]]

(* Reconcile is about to start a runner, and has to wait for the bound     *)
(* MaxCopies.                                                              *)
Crowded ==
  \E t \in RunTypes :
    /\ \/ rpc = "startFinal" /\ t = "final"
       \/ rpc = "recordBaseline" /\ t = "baseline"
       \/ t \in Checks /\ todo[t] \in {"asked", "overdue"}
    /\ \A k \in 1..MaxCopies : run[<<t, k>>].pc # "idle"
============================================================================
