---------------------------- MODULE CheckStatus ----------------------------
(***************************************************************************)
(* The status of one WorkloadHardeningCheck object and the pure part of    *)
(* internal/workload: the writes of SetCondition and                       *)
(* RemoveCheckConditions, the queries of condition_checks.go and the       *)
(* verdicts of AnalyzeCheckRuns.                                           *)
(*                                                                         *)
(* Status conditions are reduced to what the code tells apart:             *)
(*   "Absent"     no condition of this type                                *)
(*   "Unknown"    Unknown (CheckNotStarted, Requeue or RecordingFailed)    *)
(*   "Recording"  False, LastTransitionTime at most d + 1 minute ago       *)
(*   "Overdue"    False, LastTransitionTime more than d + 1 minute ago     *)
(*   "Recorded"   True (RecordingFinished or RecordingFailed)              *)
(* where d is the recording duration.  Names and messages are left out.    *)
(***************************************************************************)
CONSTANT Checks   \* the check types GetRequiredCheckRuns returns

Baselines == {"baseline", "baseline-2"}
RunTypes  == Checks \cup Baselines \cup {"final"}

ASSUME ChecksAssumption ==
  Checks \cap (Baselines \cup {"final", "Baseline", "FinalCheck"}) = {}

(* The condition type a run reports to: both baselines share one.          *)
CondOf(t) == IF t \in Baselines THEN "Baseline"
             ELSE IF t = "final" THEN "FinalCheck" ELSE t

Conds      == Checks \cup {"Baseline", "FinalCheck"}
CondValues == {"Absent", "Unknown", "Recording", "Overdue", "Recorded"}
Outcomes   == {"ok", "bad"}             \* CheckSuccessfull true, false
Reports    == Outcomes \cup {"none"}    \* "none": no such run in the status

(* "no": the Finished condition is absent or False.  Otherwise its reason. *)
FinishedValues == {"no", "Finished", "AnalysisFailed", "FinalCheckFailed",
                   "BaselineRecordingFailed"}

Status ==
  [cond         : [Conds -> CondValues],
   finished     : FinishedValues,
   analysis     : BOOLEAN,              \* Analysis condition is True
   recommended  : BOOLEAN,              \* Recommendation is set
   merged       : SUBSET Checks,        \* checks merged into it
   baselineBad  : BOOLEAN,              \* some run in BaselineRuns failed
   checkRuns    : [Checks -> Reports],
   finalRun     : Reports]

EmptyStatus ==
  [cond         |-> [c \in Conds |-> "Absent"],
   finished     |-> "no",
   analysis     |-> FALSE,
   recommended  |-> FALSE,
   merged       |-> {},
   baselineBad  |-> FALSE,
   checkRuns    |-> [c \in Checks |-> "none"],
   finalRun     |-> "none"]

---------------------------------------------------------------------------
(* A write of one run condition.  meta.SetStatusCondition moves            *)
(* LastTransitionTime only when the status value changes, so setting False *)
(* again does not make an overdue run fresh.                               *)
SetCondition(s, c, v) ==
  [s EXCEPT !.cond[c] =
     IF v = "Recording" /\ @ = "Overdue" THEN "Overdue" ELSE v]

SetFinished(s, reason) == [s EXCEPT !.finished = reason]

RemoveCheckConditions(s) == [s EXCEPT !.cond = [c \in Conds |-> "Absent"]]

(* GetRequiredCheckRuns adds an Unknown condition to every required check  *)
(* that has none.                                                          *)
AddNotStarted(s) ==
  [s EXCEPT !.cond = [c \in Conds |->
     IF c \in Checks /\ s.cond[c] = "Absent" THEN "Unknown" ELSE s.cond[c]]]

(* The queries.  They all re-read the object first.                        *)
Recorded(s, c)   == s.cond[c] = "Recorded"
InProgress(s, c) == s.cond[c] \in {"Recording", "Overdue"}
IsOverdue(s, c)  == s.cond[c] = "Overdue"

AllChecksFinished(s, required) ==
  /\ Recorded(s, "Baseline")
  /\ \A c \in required : Recorded(s, c)

(* The status update at the end of a run: BaselineRuns, FinalRun or        *)
(* CheckRuns, depending on the condition type.                             *)
AddRun(s, t, outcome) ==
  IF t \in Baselines THEN [s EXCEPT !.baselineBad = @ \/ outcome = "bad"]
  ELSE IF t = "final" THEN [s EXCEPT !.finalRun = outcome]
  ELSE [s EXCEPT !.checkRuns[t] = outcome]

---------------------------------------------------------------------------
(* Mutant of NeededRecordings: only the first baseline is read.            *)
NeededOneBaseline(runs) == {"baseline"} \cup {c \in Checks : runs[c] # "none"}

(* AnalyzeCheckRuns over the check runs of the manager's copy: the         *)
(* recordings it needs, and the verdicts it writes when the checks in      *)
(* `anomalous` show log anomalies.                                         *)
NeededRecordings(runs) == Baselines \cup {c \in Checks : runs[c] # "none"}

(* Mutant of Verdicts: what the runner reported is not looked at.          *)
VerdictsFromLogs(runs, anomalous) ==
  [c \in Checks |-> IF c \in anomalous THEN "bad" ELSE "ok"]

Verdicts(runs, anomalous) ==
  [c \in Checks |-> IF c \in anomalous THEN "bad" ELSE runs[c]]

(* Mutants of MergedChecks: the baselines, or failed checks, are merged.   *)
MergedWithBaselines(runs) == Baselines \cup {c \in Checks : runs[c] = "ok"}

MergedAllRuns(runs) == {c \in Checks : runs[c] # "none"}

(* SetRecommendation merges the security contexts of the check runs that   *)
(* were not unsuccessful.                                                  *)
MergedChecks(runs) == {c \in Checks : runs[c] = "ok"}
============================================================================
