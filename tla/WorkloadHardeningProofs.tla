----------------------- MODULE WorkloadHardeningProofs -----------------------
(***************************************************************************)
(* IInv of WorkloadHardening is an invariant of Spec, for every set of     *)
(* checks, every bound and every combination of faults, and with it the    *)
(* safety properties it names.                                             *)
(*                                                                         *)
(* The argument: recordings are only ever added, a recommendation is only  *)
(* ever set, and each write to the status says nothing that the recordings *)
(* stored so far do not back (Backed).  So each action needs only a look   *)
(* at the status it writes and at the runner it moves.                     *)
(***************************************************************************)
EXTENDS HardeningTypeProofs

(* Status s says nothing that the recordings st, and rd among them, do not *)
(* back: the invariants of WorkloadHardening about the status alone.       *)
Backed(s, st, rd) ==
  /\ \A c \in Conds : s.cond[c] = "Recorded" => \E t \in st : CondOf(t) = c
  /\ \A c \in Checks : s.checkRuns[c] = "ok" => c \in rd
  /\ s.finalRun = "ok" => "final" \in rd
  /\ s.recommended => Baselines \subseteq st /\ s.merged \subseteq rd
  /\ s.finished = "Finished" => s.recommended /\ "final" \in st
  /\ s.cond["FinalCheck"] # "Absent" => s.recommended

(* The same for the runners rn, when rec says if there is a recommendation.*)
LateSteps == {"finish", "report", "cleanup"}

RunnersSound(rn, st, rd, rec) ==
  \A r \in Runners :
    /\ rn[r].pc \in LateSteps => /\ TypeOf(r) \in st
                                 /\ rn[r].outcome = "ok" => TypeOf(r) \in rd
    /\ TypeOf(r) = "final" /\ rn[r].pc # "idle" => rec

(* A status that may be written now.                                       *)
Sound(s) ==
  Backed(s, stored, ready) /\ (status.recommended => s.recommended)

(* IInv, split into the parts the steps are checked against.               *)
LEMMA IInvParts ==
  IInv <=> /\ TypeOK
           /\ Backed(status, stored, ready)
           /\ RunnersSound(run, stored, ready, status.recommended)
           /\ AnalysisBacked
           /\ RecommendationSeen
BY DEF IInv, Backed, RunnersSound, LateSteps, RecommendationWitnessed, FinishedMeansTried,
       ReportsAreBacked, FinalNeedsRecommendation, RunnersBacked, Recorded, Conds

(* More recordings and a recommendation back at least as much.             *)
LEMMA BackedMono ==
  ASSUME NEW s, NEW st, NEW rd, NEW st2, NEW rd2,
         Backed(s, st, rd), st \subseteq st2, rd \subseteq rd2
  PROVE  Backed(s, st2, rd2)
BY DEF Backed

(* The same for what the runners claim.                                    *)
LEMMA RunnersMono ==
  ASSUME NEW rn, NEW st, NEW rd, NEW rec, NEW st2, NEW rd2, NEW rec2,
         RunnersSound(rn, st, rd, rec),
         st \subseteq st2, rd \subseteq rd2, rec => rec2
  PROVE  RunnersSound(rn, st2, rd2, rec2)
BY DEF RunnersSound

---------------------------------------------------------------------------
(* Each write keeps a status backed, under the condition that matters.     *)
LEMMA SetConditionBacked ==
  ASSUME NEW s \in Status, NEW c \in Conds, NEW v \in CondValues, NEW st, NEW rd,
         Backed(s, st, rd),
         v = "Recorded" => \E t \in st : CondOf(t) = c,
         c = "FinalCheck" => s.recommended
  PROVE  /\ Backed(SetCondition(s, c, v), st, rd)
         /\ SetCondition(s, c, v).recommended = s.recommended
<1> DEFINE n == SetCondition(s, c, v)
<1>1. /\ n.cond[c] \in {v, s.cond[c]}
      /\ \A d \in Conds \ {c} : n.cond[d] = s.cond[d]
      /\ n.finished = s.finished /\ n.recommended = s.recommended
      /\ n.merged = s.merged /\ n.checkRuns = s.checkRuns /\ n.finalRun = s.finalRun
  BY SetConditionType
<1>2. "FinalCheck" \in Conds
  BY DEF Conds
<1> HIDE DEF n
<1>3. Backed(n, st, rd)
  BY <1>1, <1>2 DEF Backed
<1>. QED BY <1>1, <1>3 DEF n

(* Finished may be set when a recommendation was tried.                    *)
LEMMA SetFinishedBacked ==
  ASSUME NEW s \in Status, NEW f \in FinishedValues, NEW st, NEW rd, Backed(s, st, rd),
         f = "Finished" => s.recommended /\ "final" \in st
  PROVE  /\ Backed(SetFinished(s, f), st, rd)
         /\ SetFinished(s, f).recommended = s.recommended
BY DEF Backed, SetFinished, Status

(* Removing conditions takes claims away.                                  *)
LEMMA RemoveBacked ==
  ASSUME NEW s \in Status, NEW st, NEW rd, Backed(s, st, rd)
  PROVE  /\ Backed(RemoveCheckConditions(s), st, rd)
         /\ RemoveCheckConditions(s).recommended = s.recommended
BY DEF Backed, RemoveCheckConditions, Status, Conds

(* An Unknown condition claims nothing.                                    *)
LEMMA AddNotStartedBacked ==
  ASSUME NEW s \in Status, NEW st, NEW rd, Backed(s, st, rd)
  PROVE  /\ Backed(AddNotStarted(s), st, rd)
         /\ AddNotStarted(s).recommended = s.recommended
BY ChecksAssumption DEF Backed, AddNotStarted, Status, Conds

(* A run may be added once its recording is stored.                        *)
LEMMA AddRunBacked ==
  ASSUME NEW s \in Status, NEW t \in RunTypes, NEW o \in Outcomes, NEW st, NEW rd,
         Backed(s, st, rd), o = "ok" => t \in rd
  PROVE  /\ Backed(AddRun(s, t, o), st, rd)
         /\ AddRun(s, t, o).recommended = s.recommended
<1>1. CASE t \in Baselines
  BY <1>1 DEF Backed, AddRun, Status
<1>2. CASE t \notin Baselines /\ t = "final"
  BY <1>2 DEF Backed, AddRun, Status
<1>3. CASE t \notin Baselines /\ t # "final"
  BY <1>3 DEF Backed, AddRun, Status, RunTypes
<1>. QED BY <1>1, <1>2, <1>3

(* The Analysis condition is no claim about recordings.                    *)
LEMMA AnalysisFieldBacked ==
  ASSUME NEW s \in Status, NEW b \in BOOLEAN, NEW st, NEW rd, Backed(s, st, rd)
  PROVE  /\ Backed([s EXCEPT !.analysis = b], st, rd)
         /\ [s EXCEPT !.analysis = b].recommended = s.recommended
         /\ Backed([s EXCEPT !.finished = "no", !.analysis = b], st, rd)
         /\ [s EXCEPT !.finished = "no", !.analysis = b].recommended = s.recommended
         /\ Backed([s EXCEPT !.analysis = b, !.finished = "no"], st, rd)
         /\ [s EXCEPT !.analysis = b, !.finished = "no"].recommended = s.recommended
BY DEF Backed, Status

(* CheckRuns may be replaced by reports that were true.                    *)
LEMMA CheckRunsBacked ==
  ASSUME NEW s \in Status, NEW m \in [Checks -> Reports], NEW st, NEW rd,
         Backed(s, st, rd), \A c \in Checks : m[c] = "ok" => c \in rd
  PROVE  /\ Backed([s EXCEPT !.checkRuns = m], st, rd)
         /\ [s EXCEPT !.checkRuns = m].recommended = s.recommended
BY DEF Backed, Status

(* A recommendation may be made after the baselines were read.             *)
LEMMA RecommendBacked ==
  ASSUME NEW s \in Status, NEW m \in [Checks -> Reports], NEW st, NEW rd,
         Backed(s, st, rd), \A c \in Checks : m[c] = "ok" => c \in rd,
         Baselines \subseteq st
  PROVE  /\ Backed([s EXCEPT !.recommended = TRUE, !.merged = MergedChecks(m)], st, rd)
         /\ [s EXCEPT !.recommended = TRUE, !.merged = MergedChecks(m)].recommended
BY DEF Backed, Status, MergedChecks

(* Whatever becomes of a write of a sound status, the status is sound.     *)
LEMMA WriteSound ==
  ASSUME Sound(status), NEW new, Sound(new)
  PROVE  /\ Update(new) => Sound(status')
         /\ MayUpdate(new) => Sound(status')
         /\ TryUpdate(new) => Sound(status')
BY DEF Update, MayUpdate, TryUpdate

---------------------------------------------------------------------------
(* A step preserves IInv if it keeps the recordings there are, writes a    *)
(* sound status, and leaves the runners, the analysis and what was seen of *)
(* the recommendation in order.                                            *)
LEMMA StepFrame ==
  ASSUME IInv, TypeOK', stored \subseteq stored', ready \subseteq ready',
         Sound(status'),
         RunnersSound(run', stored', ready', status'.recommended),
         AnalysisBacked',
         RecommendationSeen'
  PROVE  IInv'
<1>1. Backed(status', stored', ready')
  BY BackedMono DEF Sound
<1>2. /\ RecommendationWitnessed' /\ FinishedMeansTried' /\ ReportsAreBacked'
      /\ (status.cond["FinalCheck"] # "Absent" => status.recommended)'
  BY <1>1 DEF Backed, RecommendationWitnessed, FinishedMeansTried, ReportsAreBacked,
              Recorded
<1>3. /\ RunnersBacked'
      /\ (\A r \in Runners : TypeOf(r) = "final" /\ run[r].pc # "idle"
                               => status.recommended)'
  BY DEF RunnersSound, LateSteps, RunnersBacked
<1>. QED BY <1>2, <1>3 DEF IInv, FinalNeedsRecommendation

(* What holds of a status and of the runners before the step.              *)
LEMMA Before ==
  ASSUME IInv
  PROVE  /\ TypeOK
         /\ Sound(status)
         /\ RunnersSound(run, stored, ready, status.recommended)
         /\ AnalysisBacked
         /\ RecommendationSeen
BY IInvParts DEF Sound

(* The same frame for a step of a runner, which leaves Reconcile alone.    *)
LEMMA RunnerFrame ==
  ASSUME IInv, TypeOK', UNCHANGED runnerKeeps,
         stored \subseteq stored', ready \subseteq ready', valkey' \subseteq stored',
         Sound(status'),
         RunnersSound(run', stored', ready', status.recommended)
  PROVE  IInv'
<1>1. mruns' = mruns /\ rpc' = rpc /\ snap' = snap /\ cache' = cache
  BY DEF runnerKeeps, reconcilerVars
<1>2. status.recommended => status'.recommended
  BY DEF Sound
<1>3. RunnersSound(run', stored', ready', status'.recommended)
  BY <1>2, RunnersMono
<1>4. AnalysisBacked'
  BY <1>1 DEF IInv, AnalysisBacked
<1>5. RecommendationSeen'
  BY <1>1, <1>2, Before DEF RecommendationSeen
<1>. QED BY <1>3, <1>4, <1>5, StepFrame

(* Moving a runner that is under way, and letting one return.              *)
LEMMA MoveSound ==
  ASSUME run \in [Runners -> Runner], NEW st, NEW rd, NEW rec,
         RunnersSound(run, st, rd, rec), NEW r \in Runners
  PROVE  /\ \A step \in RunnerSteps :
              /\ GoTo(r, step)
              /\ run[r].pc # "idle"
              /\ step \in LateSteps => run[r].pc \in LateSteps
              => RunnersSound(run', st, rd, rec)
         /\ Return(r) => RunnersSound(run', st, rd, rec)
<1>1. ASSUME NEW step \in RunnerSteps, GoTo(r, step), run[r].pc # "idle",
             step \in LateSteps => run[r].pc \in LateSteps
      PROVE  RunnersSound(run', st, rd, rec)
  BY <1>1 DEF GoTo, RunnersSound, Runner
<1>2. ASSUME Return(r) PROVE RunnersSound(run', st, rd, rec)
  BY <1>2 DEF Return, RunnersSound, IdleRunner, LateSteps
<1>. QED BY <1>1, <1>2

(* The status writes of a runner that is under way are sound.              *)
LEMMA RunnerWrites ==
  ASSUME IInv, NEW r \in Runners, run[r].pc # "idle"
  PROVE  /\ Sound(StatusRunning(r))
         /\ Sound(StatusFailed(r))
         /\ Sound(SetCondition(StatusFailed(r), Cond(r), "Recording"))
         /\ run[r].pc \in LateSteps =>
              /\ Sound(SetCondition(status, Cond(r), "Recorded"))
              /\ Sound(AddRun(status, TypeOf(r), run[r].outcome))
<1>1. TypeOf(r) \in RunTypes /\ Cond(r) \in Conds
  BY RunnerTypes
<1>2. /\ status \in Status /\ Backed(status, stored, ready)
      /\ run[r].outcome \in Outcomes
  BY Before DEF Sound, TypeOK, Runner
<1>3. Cond(r) = "FinalCheck" => TypeOf(r) = "final"
  BY <1>1, ChecksAssumption DEF Cond, CondOf, RunTypes
<1>4. Cond(r) = "FinalCheck" => status.recommended
  BY <1>3, Before DEF RunnersSound
<1>5. /\ "Recording" \in CondValues /\ "Unknown" \in CondValues /\ "Recorded" \in CondValues
      /\ "Recording" # "Recorded" /\ "Unknown" # "Recorded"
  BY DEF CondValues
<1>6. Sound(StatusRunning(r))
  BY <1>1, <1>2, <1>4, <1>5, SetConditionBacked DEF StatusRunning, Sound
<1>7. /\ Sound(StatusFailed(r)) /\ StatusFailed(r) \in Status
      /\ StatusFailed(r).recommended = status.recommended
  BY <1>1, <1>2, <1>4, <1>5, SetConditionBacked, SetConditionType DEF StatusFailed, Sound
<1>8. Sound(SetCondition(StatusFailed(r), Cond(r), "Recording"))
  BY <1>1, <1>4, <1>5, <1>7, SetConditionBacked DEF Sound
<1>9. ASSUME run[r].pc \in LateSteps
      PROVE  /\ Sound(SetCondition(status, Cond(r), "Recorded"))
             /\ Sound(AddRun(status, TypeOf(r), run[r].outcome))
  <2>1. /\ TypeOf(r) \in stored
        /\ run[r].outcome = "ok" => TypeOf(r) \in ready
    BY <1>9, Before DEF RunnersSound
  <2>2. \E t \in stored : CondOf(t) = Cond(r)
    BY <2>1 DEF Cond
  <2>3. Sound(SetCondition(status, Cond(r), "Recorded"))
    BY <1>1, <1>2, <1>4, <1>5, <2>2, SetConditionBacked DEF Sound
  <2>4. Sound(AddRun(status, TypeOf(r), run[r].outcome))
    BY <1>1, <1>2, <2>1, AddRunBacked DEF Sound
  <2>. QED BY <2>3, <2>4
<1>. QED BY <1>6, <1>7, <1>8, <1>9

(* Every step of a runner preserves the invariant.                         *)
LEMMA RunnerInv ==
  ASSUME IInv, NEW r \in Runners, RunnerStep(r) PROVE IInv'
<1>1. TypeOK /\ TypeOK'
  BY Before, RunnerTypeOK
<1>2. /\ run \in [Runners -> Runner] /\ TypeOf(r) \in RunTypes
      /\ valkey \subseteq stored
      /\ Sound(status) /\ RunnersSound(run, stored, ready, status.recommended)
  BY <1>1, Before, RunnerTypes DEF TypeOK, AnalysisBacked
<1>3. UNCHANGED recordings => /\ stored' = stored /\ ready' = ready /\ valkey' = valkey
  BY DEF recordings
<1>4. ASSUME UNCHANGED runnerKeeps, UNCHANGED recordings, Sound(status'),
             RunnersSound(run', stored, ready, status.recommended)
      PROVE  IInv'
  BY <1>1, <1>2, <1>3, <1>4, RunnerFrame
<1>5. CASE RunnerStart(r)
  <2>1. RunnersSound(run', stored, ready, status.recommended)
    BY <1>2, <1>5 DEF RunnerStart, At, RunnersSound, LateSteps, Runner
  <2>. QED BY <1>2, <1>4, <1>5, <2>1 DEF RunnerStart
<1>6. CASE RunnerEnsureNamespace(r)
  <2>1. RunnersSound(run', stored, ready, status.recommended)
    BY <1>2, <1>6, MoveSound DEF RunnerEnsureNamespace, At, LateSteps, RunnerSteps
  <2>2. Sound(status')
    BY <1>2, <1>6, RunnerWrites, WriteSound DEF RunnerEnsureNamespace, At, LateSteps
  <2>. QED BY <1>4, <1>6, <2>1, <2>2 DEF RunnerEnsureNamespace
<1>7. CASE RunnerClone(r)
  <2>1. RunnersSound(run', stored, ready, status.recommended)
    BY <1>2, <1>7, MoveSound DEF RunnerClone, At, LateSteps, RunnerSteps
  <2>2. Sound(status')
    BY <1>2, <1>7 DEF RunnerClone
  <2>. QED BY <1>4, <1>7, <2>1, <2>2 DEF RunnerClone
<1>8. CASE RunnerPopulate(r)
  <2>1. RunnersSound(run', stored, ready, status.recommended)
    BY <1>2, <1>8, MoveSound DEF RunnerPopulate, At, LateSteps, RunnerSteps
  <2>2. Sound(status')
    BY <1>2, <1>8, RunnerWrites, WriteSound DEF RunnerPopulate, At, LateSteps
  <2>. QED BY <1>4, <1>8, <2>1, <2>2 DEF RunnerPopulate
<1>9. CASE RunnerPrepare(r)
  <2>1. RunnersSound(run', stored, ready, status.recommended)
    BY <1>2, <1>9, MoveSound DEF RunnerPrepare, At, LateSteps, RunnerSteps
  <2>2. Sound(status')
    BY <1>2, <1>9, RunnerWrites, WriteSound DEF RunnerPrepare, At, LateSteps
  <2>. QED BY <1>4, <1>9, <2>1, <2>2 DEF RunnerPrepare
<1>10. CASE RunnerPodsUpdated(r)
  <2>1. RunnersSound(run', stored, ready, status.recommended)
    BY <1>2, <1>10, MoveSound DEF RunnerPodsUpdated, At, LateSteps, RunnerSteps
  <2>2. Sound(status')
    BY <1>2, <1>10, RunnerWrites, WriteSound DEF RunnerPodsUpdated, At, LateSteps
  <2>. QED BY <1>4, <1>10, <2>1, <2>2 DEF RunnerPodsUpdated
<1>11. CASE RunnerWaitTimeout(r)
  <2>1. RunnersSound(run', stored, ready, status.recommended)
    BY <1>2, <1>11, MoveSound DEF RunnerWaitTimeout, At, LateSteps, RunnerSteps
  <2>2. Sound(status')
    BY <1>2, <1>11, RunnerWrites, WriteSound DEF RunnerWaitTimeout, At, LateSteps
  <2>. QED BY <1>4, <1>11, <2>1, <2>2 DEF RunnerWaitTimeout
<1>12. CASE RunnerSetFinished(r)
  <2>1. RunnersSound(run', stored, ready, status.recommended)
    BY <1>2, <1>12, MoveSound DEF RunnerSetFinished, At, LateSteps, RunnerSteps
  <2>2. Sound(status')
    BY <1>2, <1>12, RunnerWrites, WriteSound DEF RunnerSetFinished, At, LateSteps
  <2>. QED BY <1>4, <1>12, <2>1, <2>2 DEF RunnerSetFinished
<1>13. CASE RunnerReport(r)
  <2>1. RunnersSound(run', stored, ready, status.recommended)
    BY <1>2, <1>13, MoveSound DEF RunnerReport, At, LateSteps, RunnerSteps
  <2>2. Sound(status')
    BY <1>2, <1>13, RunnerWrites, WriteSound DEF RunnerReport, At, LateSteps
  <2>. QED BY <1>4, <1>13, <2>1, <2>2 DEF RunnerReport
<1>14. CASE RunnerCleanup(r)
  <2>1. RunnersSound(run', stored, ready, status.recommended)
    BY <1>2, <1>14, MoveSound DEF RunnerCleanup, At, LateSteps, RunnerSteps
  <2>2. Sound(status')
    BY <1>2, <1>14 DEF RunnerCleanup
  <2>. QED BY <1>4, <1>14, <2>1, <2>2 DEF RunnerCleanup
<1>15. CASE RunnerTimeoutRecord(r)
  <2>1. /\ stored \subseteq stored' /\ ready \subseteq ready' /\ valkey' \subseteq stored'
    BY <1>2, <1>3, <1>15 DEF RunnerTimeoutRecord, StoreRecording
  <2>2. Sound(status')
    BY <1>2, <1>15, RunnerWrites, WriteSound DEF RunnerTimeoutRecord, At
  <2>3. RunnersSound(run', stored, ready, status.recommended)
    BY <1>2, <1>15, MoveSound DEF RunnerTimeoutRecord, At, LateSteps, RunnerSteps
  <2>4. RunnersSound(run', stored', ready', status.recommended)
    BY <2>1, <2>3, RunnersMono
  <2>. QED BY <1>1, <1>15, <2>1, <2>2, <2>4, RunnerFrame DEF RunnerTimeoutRecord
<1>16. CASE RunnerRecord(r)
  <2>1. ASSUME NEW o \in Outcomes,
               run' = [run EXCEPT ![r].pc = "finish", ![r].outcome = o],
               StoreRecording(TypeOf(r), o), UNCHANGED status
        PROVE  IInv'
    <3>1. /\ stored \subseteq stored' /\ ready \subseteq ready' /\ valkey' \subseteq stored'
          /\ TypeOf(r) \in stored' /\ (o = "ok" => TypeOf(r) \in ready')
      BY <1>2, <2>1 DEF StoreRecording
    <3>2. RunnersSound(run, stored', ready', status.recommended)
      BY <1>2, <3>1, RunnersMono
    <3>3. RunnersSound(run', stored', ready', status.recommended)
      BY <1>2, <1>16, <2>1, <3>1, <3>2
      DEF RunnerRecord, At, RunnersSound, LateSteps, Runner
    <3>. QED BY <1>1, <1>2, <1>16, <2>1, <3>1, <3>3, RunnerFrame DEF RunnerRecord
  <2>2. ASSUME MayUpdate(StatusFailed(r)), Return(r), UNCHANGED recordings
        PROVE  IInv'
    BY <1>2, <1>4, <1>16, <2>2, MoveSound, RunnerWrites, WriteSound DEF RunnerRecord, At
  <2>. QED BY <1>16, <2>1, <2>2 DEF RunnerRecord
<1>. QED BY <1>5, <1>6, <1>7, <1>8, <1>9, <1>10, <1>11, <1>12, <1>13, <1>14, <1>15, <1>16
         DEF RunnerStep

---------------------------------------------------------------------------
(* Starting a runner.                                                      *)
LEMMA LaunchSound ==
  ASSUME run \in [Runners -> Runner], NEW st, NEW rd, NEW rec,
         RunnersSound(run, st, rd, rec),
         NEW t \in RunTypes, Launch(t), t = "final" => rec
  PROVE  RunnersSound(run', st, rd, rec)
<1>1. PICK k \in 1..MaxCopies : run' = [run EXCEPT ![<<t, k>>] =
               [pc      |-> "start",
                unknown |-> snap.cond[CondOf(t)] = "Unknown",
                outcome |-> "bad"]]
  BY DEF Launch
<1>2. <<t, k>> \in Runners /\ TypeOf(<<t, k>>) = t
  BY DEF Runners, TypeOf
<1>. QED BY <1>1, <1>2 DEF RunnersSound, LateSteps

(* A step of Reconcile leaves the runners alone, or starts one; a final    *)
(* run only when there is a recommendation.                                *)
StartsAtMostOne ==
  \/ UNCHANGED run
  \/ \E t \in RunTypes : Launch(t) /\ (t = "final" => status.recommended)

(* The frame for a step of Reconcile.                                      *)
LEMMA ReconcileFrame ==
  ASSUME IInv, TypeOK', UNCHANGED <<cache, recordings>>, Sound(status'), StartsAtMostOne,
         \A c \in Checks : mruns'[c] = "ok" => c \in ready,
         rpc' \in {"overwrite", "recommend"} => Baselines \subseteq stored,
         snap'.recommended \/ rpc' = "finalOverdue" => status.recommended
  PROVE  IInv'
<1>1. stored' = stored /\ ready' = ready /\ valkey' = valkey /\ cache' = cache
  BY DEF recordings
<1>2. status.recommended => status'.recommended
  BY DEF Sound
<1>3. RunnersSound(run', stored, ready, status.recommended)
  <2>1. run \in [Runners -> Runner] /\ RunnersSound(run, stored, ready, status.recommended)
    BY Before DEF TypeOK
  <2>2. CASE UNCHANGED run
    BY <2>1, <2>2
  <2>3. ASSUME NEW t \in RunTypes, Launch(t), t = "final" => status.recommended
        PROVE  RunnersSound(run', stored, ready, status.recommended)
    BY <2>1, <2>3, LaunchSound
  <2>. QED BY <2>2, <2>3 DEF StartsAtMostOne
<1>4. RunnersSound(run', stored', ready', status'.recommended)
  BY <1>1, <1>2, <1>3, RunnersMono
<1>5. AnalysisBacked'
  BY <1>1, Before DEF AnalysisBacked
<1>6. RecommendationSeen'
  BY <1>1, <1>2, Before DEF RecommendationSeen
<1>. QED BY <1>1, <1>4, <1>5, <1>6, StepFrame

(* Returning from Reconcile ...                                            *)
LEMMA DoneFrame ==
  ASSUME IInv, TypeOK', UNCHANGED <<cache, recordings>>, Sound(status'), StartsAtMostOne,
         NEW b, Done(b)
  PROVE  IInv'
<1>1. \A c \in Checks : mruns'[c] = "ok" => c \in ready
  BY DEF Done, NoRuns
<1>2. /\ rpc' \in {"overwrite", "recommend"} => Baselines \subseteq stored
      /\ snap'.recommended \/ rpc' = "finalOverdue" => status.recommended
  BY DEF Done, EmptyStatus
<1>. QED BY <1>1, <1>2, ReconcileFrame

(* ... and going on, or asking, keep what is known of its variables.       *)
LEMMA ContinueFrame ==
  ASSUME IInv, TypeOK', UNCHANGED <<cache, recordings>>, Sound(status'), StartsAtMostOne,
         NEW step, Continue(step) \/ Ask(step),
         step \in {"overwrite", "recommend"} => Baselines \subseteq stored,
         step = "finalOverdue" => status.recommended
  PROVE  IInv'
<1>1. rpc' = step /\ UNCHANGED <<snap, mruns>>
  BY DEF Continue, Ask
<1>2. \A c \in Checks : mruns'[c] = "ok" => c \in ready
  BY <1>1, Before DEF AnalysisBacked
<1>3. /\ rpc' \in {"overwrite", "recommend"} => Baselines \subseteq stored
      /\ snap'.recommended \/ rpc' = "finalOverdue" => status.recommended
  BY <1>1, Before DEF RecommendationSeen
<1>. QED BY <1>2, <1>3, ReconcileFrame

(* The status writes of Reconcile are sound.                               *)
LEMMA ReconcileWrites ==
  ASSUME IInv
  PROVE  /\ \A f \in {"no", "AnalysisFailed", "FinalCheckFailed", "BaselineRecordingFailed"} :
              Sound(SetFinished(status, f))
         /\ Sound(AddNotStarted(status))
         /\ Sound(SetFinished(AddNotStarted(status), "no"))
         /\ Sound(RemoveCheckConditions(status))
         /\ Sound([status EXCEPT !.analysis = TRUE])
         /\ Sound([status EXCEPT !.analysis = TRUE, !.finished = "no"])
         /\ Sound([status EXCEPT !.checkRuns = mruns])
         /\ \A c \in Conds : (c = "FinalCheck" => status.recommended) =>
              Sound(SetCondition(status, c, "Unknown"))
<1>1. /\ status \in Status /\ Backed(status, stored, ready)
      /\ mruns \in [Checks -> Reports]
      /\ \A c \in Checks : mruns[c] = "ok" => c \in ready
  BY Before DEF Sound, TypeOK, AnalysisBacked
<1>2. {"no", "AnalysisFailed", "FinalCheckFailed", "BaselineRecordingFailed"}
        \subseteq FinishedValues \ {"Finished"}
  BY DEF FinishedValues
<1>3. \A f \in {"no", "AnalysisFailed", "FinalCheckFailed", "BaselineRecordingFailed"} :
        Sound(SetFinished(status, f))
  BY <1>1, <1>2, SetFinishedBacked DEF Sound
<1>4. /\ Sound(AddNotStarted(status)) /\ AddNotStarted(status) \in Status
  BY <1>1, AddNotStartedBacked, AddNotStartedType DEF Sound
<1>5. Sound(SetFinished(AddNotStarted(status), "no"))
  BY <1>2, <1>4, SetFinishedBacked DEF Sound
<1>6. Sound(RemoveCheckConditions(status))
  BY <1>1, RemoveBacked DEF Sound
<1>7. Sound([status EXCEPT !.analysis = TRUE])
  BY <1>1, AnalysisFieldBacked DEF Sound
<1>8. Sound([status EXCEPT !.analysis = TRUE, !.finished = "no"])
  BY <1>1, AnalysisFieldBacked DEF Sound
<1>9. Sound([status EXCEPT !.checkRuns = mruns])
  BY <1>1, CheckRunsBacked DEF Sound
<1>10. ASSUME NEW c \in Conds, c = "FinalCheck" => status.recommended
       PROVE  Sound(SetCondition(status, c, "Unknown"))
  <2>1. "Unknown" \in CondValues /\ "Unknown" # "Recorded"
    BY DEF CondValues
  <2>. QED BY <1>1, <1>10, <2>1, SetConditionBacked DEF Sound
<1>. QED BY <1>3, <1>4, <1>5, <1>6, <1>7, <1>8, <1>9, <1>10

(* Every step of Reconcile preserves the invariant.                        *)
LEMMA ReconcileInv ==
  ASSUME IInv, ReconcileStep PROVE IInv'
<1>1. TypeOK /\ TypeOK'
  BY Before, ReconcileTypeOK
<1>2. /\ Sound(status) /\ AnalysisBacked /\ RecommendationSeen
      /\ status \in Status /\ Backed(status, stored, ready)
      /\ mruns \in [Checks -> Reports]
  BY Before DEF TypeOK, Sound
<1>3. /\ UNCHANGED reconcilerKeeps => UNCHANGED <<cache, recordings>>
      /\ UNCHANGED run => StartsAtMostOne
  BY DEF reconcilerKeeps, recordings, StartsAtMostOne
<1>4. /\ "FinalCheck" \in Conds /\ "Baseline" \in Conds /\ Checks \subseteq Conds
      /\ "final" \in RunTypes /\ Baselines \subseteq RunTypes /\ Checks \subseteq RunTypes
      /\ "baseline" \in Baselines /\ "baseline-2" \in Baselines
      /\ "Baseline" # "FinalCheck" /\ "FinalCheck" \notin Checks /\ "final" \notin Checks
  BY ChecksAssumption DEF Conds, RunTypes, Baselines
<1>5. CASE CleanupReconcileLoop \/ ReconcileFetchFails
  <2>1. UNCHANGED <<cache, recordings, status, rpc, snap, mruns, run>>
    BY <1>5 DEF CleanupReconcileLoop, ReconcileFetchFails, reconcilerKeeps, recordings
  <2>. QED BY <1>1, <1>2, <1>3, <2>1, ReconcileFrame
           DEF AnalysisBacked, RecommendationSeen
<1>6. CASE ReconcileFetch
  <2>1. UNCHANGED <<cache, recordings, status, mruns, run>> /\ rpc' \in {rpc, "fetched"}
    BY <1>6 DEF ReconcileFetch, reconcilerKeeps
  <2>2. snap'.recommended \/ rpc' = "finalOverdue" => status.recommended
    BY <1>2, <1>6, ViewType DEF ReconcileFetch, Seen, RecommendationSeen
  <2>. QED BY <1>1, <1>2, <1>3, <2>1, <2>2, ReconcileFrame DEF AnalysisBacked
<1>7. CASE ReconcileFinish
  <2>1. /\ status.recommended
        /\ "final" \in stored
    <3>1. status.recommended /\ Recorded(status, "FinalCheck")
      BY <1>2, <1>7 DEF ReconcileFinish, FinalRunDone, RecommendationSeen
    <3>2. PICK t \in stored : CondOf(t) = "FinalCheck"
      BY <1>2, <1>4, <3>1 DEF Backed, Recorded
    <3>3. t = "final"
      BY <1>1, <1>4, <3>2 DEF CondOf, TypeOK, RunTypes
    <3>. QED BY <3>1, <3>2, <3>3
  <2>2. Sound(SetFinished(status, "Finished"))
    BY <1>2, <2>1, SetFinishedBacked DEF Sound, FinishedValues
  <2>3. Sound(status')
    BY <1>2, <1>7, <2>2, WriteSound DEF ReconcileFinish
  <2>. QED BY <1>1, <1>3, <1>7, <2>3, DoneFrame, ContinueFrame DEF ReconcileFinish
<1>8. CASE ReconcileStartAnalysis
  <2>1. Sound(status')
    <3>1. ASSUME NEW listed \in {status, AddNotStarted(status)},
                 Update([listed EXCEPT !.finished = "no", !.analysis = FALSE])
          PROVE  Sound(status')
      <4>1. listed \in Status /\ Sound(listed)
        BY <1>2, ReconcileWrites, AddNotStartedType
      <4>2. Sound([listed EXCEPT !.finished = "no", !.analysis = FALSE])
        BY <4>1, AnalysisFieldBacked DEF Sound
      <4>. QED BY <1>2, <3>1, <4>2, WriteSound
    <3>. QED BY <1>2, <1>8, <3>1 DEF ReconcileStartAnalysis
  <2>2. \A c \in Checks : mruns'[c] = "ok" => c \in ready
    BY <1>2, <1>8 DEF ReconcileStartAnalysis, Backed
  <2>. QED BY <1>1, <1>2, <1>3, <1>8, <2>1, <2>2, ReconcileFrame
           DEF ReconcileStartAnalysis, RecommendationSeen
<1>9. CASE AnalyzeCheckRuns
  <2>1. Baselines \subseteq stored
    BY <1>2, <1>9 DEF AnalyzeCheckRuns, NeededRecordings, AnalysisBacked
  <2>2. \A c \in Checks : mruns'[c] = "ok" => c \in ready
    BY <1>2, <1>9 DEF AnalyzeCheckRuns, Verdicts, AnalysisBacked
  <2>. QED BY <1>1, <1>2, <1>3, <1>9, <2>1, <2>2, ReconcileFrame
           DEF AnalyzeCheckRuns, RecommendationSeen
<1>10. CASE AnalyzeOverwriteRuns
  <2>1. Sound(status')
    BY <1>2, <1>10, ReconcileWrites, WriteSound DEF AnalyzeOverwriteRuns
  <2>2. Baselines \subseteq stored
    BY <1>2, <1>10 DEF AnalyzeOverwriteRuns, AnalysisBacked
  <2>. QED BY <1>1, <1>3, <1>10, <2>1, <2>2, ContinueFrame DEF AnalyzeOverwriteRuns
<1>11. CASE SetRecommendation
  <2>1. Baselines \subseteq stored /\ \A c \in Checks : mruns[c] = "ok" => c \in ready
    BY <1>2, <1>11 DEF SetRecommendation, AnalysisBacked
  <2>2. Sound([status EXCEPT !.recommended = TRUE, !.merged = MergedChecks(mruns)])
    BY <1>2, <2>1, RecommendBacked DEF Sound
  <2>3. Sound(status')
    BY <1>2, <1>11, <2>2, WriteSound DEF SetRecommendation
  <2>. QED BY <1>1, <1>3, <1>11, <2>3, ContinueFrame DEF SetRecommendation
<1>12. CASE ReconcileFinalInProgress
  <2>1. status.recommended
    BY <1>2, <1>12 DEF ReconcileFinalInProgress, InProgress, Backed
  <2>. QED BY <1>1, <1>2, <1>3, <1>12, <2>1, DoneFrame, ContinueFrame
           DEF ReconcileFinalInProgress
<1>13. CASE ReconcileFinalOverdue
  <2>1. status.recommended
    BY <1>2, <1>13 DEF ReconcileFinalOverdue, RecommendationSeen
  <2>2. Sound(status')
    BY <1>2, <1>4, <1>13, <2>1, ReconcileWrites, WriteSound DEF ReconcileFinalOverdue
  <2>. QED BY <1>1, <1>3, <1>13, <2>2, DoneFrame DEF ReconcileFinalOverdue
<1>14. CASE ReconcileFinalIdle \/ ReconcileNoFinal
  BY <1>1, <1>2, <1>3, <1>14, ContinueFrame DEF ReconcileFinalIdle, ReconcileNoFinal
<1>15. CASE ReconcileStartFinal
  <2>1. StartsAtMostOne
    BY <1>4, <1>15 DEF ReconcileStartFinal, StartsAtMostOne
  <2>2. Sound(status')
    BY <1>2, <1>15, ReconcileWrites, WriteSound DEF ReconcileStartFinal
  <2>. QED BY <1>1, <1>3, <1>15, <2>1, <2>2, DoneFrame DEF ReconcileStartFinal
<1>16. CASE ReconcileRemoveConditions
  <2>1. Sound(status')
    BY <1>2, <1>4, <1>16, ReconcileWrites, WriteSound DEF ReconcileRemoveConditions
  <2>. QED BY <1>1, <1>3, <1>16, <2>1, DoneFrame DEF ReconcileRemoveConditions
<1>17. CASE ReconcileAbandon
  <2>1. Sound(status')
    BY <1>2, <1>4, <1>17, ReconcileWrites, WriteSound DEF ReconcileAbandon
  <2>. QED BY <1>1, <1>3, <1>17, <2>1, DoneFrame DEF ReconcileAbandon
<1>18. CASE ReconcileFinalFailed
  <2>1. Sound(status')
    BY <1>2, <1>4, <1>18, ReconcileWrites, WriteSound DEF ReconcileFinalFailed
  <2>. QED BY <1>1, <1>3, <1>18, <2>1, DoneFrame DEF ReconcileFinalFailed
<1>19. CASE ReconcileBaselineInProgress
  BY <1>1, <1>2, <1>3, <1>19, DoneFrame, ContinueFrame DEF ReconcileBaselineInProgress
<1>20. CASE ReconcileBaselineOverdue
  <2>1. Sound(status')
    BY <1>2, <1>4, <1>20, ReconcileWrites, WriteSound DEF ReconcileBaselineOverdue
  <2>. QED BY <1>1, <1>3, <1>20, <2>1, DoneFrame DEF ReconcileBaselineOverdue
<1>21. CASE ReconcileBaselineIdle
  BY <1>1, <1>2, <1>3, <1>21, ContinueFrame DEF ReconcileBaselineIdle
<1>22. CASE ReconcileBaselineFailed
  <2>1. Sound(status')
    BY <1>2, <1>4, <1>22, ReconcileWrites, WriteSound DEF ReconcileBaselineFailed
  <2>. QED BY <1>1, <1>3, <1>22, <2>1, DoneFrame DEF ReconcileBaselineFailed
<1>23. CASE ReconcileNothingToDo
  <2>1. Sound(status')
    BY <1>2, <1>4, <1>23, ReconcileWrites, WriteSound DEF ReconcileNothingToDo
  <2>. QED BY <1>1, <1>3, <1>23, <2>1, DoneFrame DEF ReconcileNothingToDo
<1>24. CASE RecordChecksEnd
  <2>1. Sound(status')
    BY <1>2, <1>4, <1>24, ReconcileWrites, WriteSound DEF RecordChecksEnd
  <2>. QED BY <1>1, <1>3, <1>24, <2>1, DoneFrame DEF RecordChecksEnd
<1>25. CASE ReconcileSkipAnalysis
  <2>1. Sound(status')
    BY <1>2, <1>4, <1>25, ReconcileWrites, WriteSound DEF ReconcileSkipAnalysis
  <2>. QED BY <1>1, <1>3, <1>25, <2>1, ContinueFrame DEF ReconcileSkipAnalysis
<1>26. CASE AnalyzeCheckRunsFails
  <2>1. Sound(status')
    BY <1>2, <1>4, <1>26, ReconcileWrites, WriteSound DEF AnalyzeCheckRunsFails
  <2>. QED BY <1>1, <1>3, <1>26, <2>1, ContinueFrame DEF AnalyzeCheckRunsFails
<1>27. CASE ReconcileAnalysed
  <2>1. Sound(status')
    BY <1>2, <1>4, <1>27, ReconcileWrites, WriteSound DEF ReconcileAnalysed
  <2>. QED BY <1>1, <1>3, <1>27, <2>1, ContinueFrame DEF ReconcileAnalysed
<1>28. CASE ReconcileBaselineRecorded
  <2>1. Sound(status')
    BY <1>2, <1>4, <1>28, ReconcileWrites, WriteSound DEF ReconcileBaselineRecorded
  <2>. QED BY <1>1, <1>3, <1>28, <2>1, ContinueFrame DEF ReconcileBaselineRecorded
<1>29. CASE ReconcileBaselineGood
  <2>1. Sound(status')
    BY <1>2, <1>4, <1>29, ReconcileWrites, WriteSound DEF ReconcileBaselineGood
  <2>. QED BY <1>1, <1>3, <1>29, <2>1, ContinueFrame DEF ReconcileBaselineGood
<1>30. CASE RecordBaseline
  <2>1. StartsAtMostOne
    BY <1>4, <1>30 DEF RecordBaseline, StartsAtMostOne
  <2>2. Sound(status')
    BY <1>2, <1>30, ReconcileWrites, WriteSound DEF RecordBaseline
  <2>. QED BY <1>1, <1>3, <1>30, <2>1, <2>2, ContinueFrame DEF RecordBaseline
<1>31. CASE RecordBaseline2
  <2>1. StartsAtMostOne
    BY <1>4, <1>31 DEF RecordBaseline2, StartsAtMostOne
  <2>. QED BY <1>1, <1>2, <1>3, <1>31, <2>1, DoneFrame DEF RecordBaseline2
<1>32. CASE ReconcileRecordChecks
  <2>1. Sound(status')
    BY <1>2, <1>32, ReconcileWrites, WriteSound DEF ReconcileRecordChecks
  <2>. QED BY <1>1, <1>2, <1>3, <1>32, <2>1, ReconcileFrame
           DEF ReconcileRecordChecks, AnalysisBacked, RecommendationSeen
<1>33. ASSUME NEW c \in Checks, RecordChecksAsk(c) \/ RecordChecksInProgress(c)
       PROVE  IInv'
  <2>1. /\ UNCHANGED reconcilerKeeps /\ UNCHANGED run
        /\ UNCHANGED <<status, rpc, snap, mruns>>
    BY <1>33 DEF RecordChecksAsk, RecordChecksInProgress
  <2>. QED BY <1>1, <1>2, <1>3, <2>1, ReconcileFrame DEF AnalysisBacked, RecommendationSeen
<1>34. ASSUME NEW c \in Checks, RecordChecksStart(c) PROVE IInv'
  <2>1. StartsAtMostOne
    BY <1>4, <1>34 DEF RecordChecksStart, StartsAtMostOne
  <2>2. Sound(status')
    BY <1>2, <1>4, <1>34, ReconcileWrites, WriteSound DEF RecordChecksStart
  <2>3. CASE Done(TRUE)
    BY <1>1, <1>3, <1>34, <2>1, <2>2, <2>3, DoneFrame DEF RecordChecksStart
  <2>4. CASE UNCHANGED <<rpc, snap, mruns, wake>>
    BY <1>1, <1>2, <1>3, <1>34, <2>1, <2>2, <2>4, ReconcileFrame
    DEF RecordChecksStart, AnalysisBacked, RecommendationSeen
  <2>. QED BY <1>34, <2>3, <2>4 DEF RecordChecksStart
<1>. QED BY <1>5, <1>6, <1>7, <1>8, <1>9, <1>10, <1>11, <1>12, <1>13,
            <1>14, <1>15, <1>16, <1>17, <1>18, <1>19, <1>20, <1>21, <1>22,
            <1>23, <1>24, <1>25, <1>26, <1>27, <1>28, <1>29, <1>30, <1>31,
            <1>32, <1>33, <1>34
         DEF ReconcileStep

---------------------------------------------------------------------------
(* Every step of the environment preserves the invariant.                  *)
LEMMA EnvironmentInv ==
  ASSUME IInv, Environment PROVE IInv'
<1>1. TypeOK /\ TypeOK'
  BY Before, EnvironmentTypeOK
<1>2. /\ Sound(status) /\ AnalysisBacked /\ RecommendationSeen
      /\ status \in Status /\ Backed(status, stored, ready)
      /\ RunnersSound(run, stored, ready, status.recommended)
  BY Before DEF TypeOK, Sound
<1>3. ASSUME NEW t \in RunTypes, NamespaceGone(t) PROVE IInv'
  BY <1>1, <1>2, <1>3, ReconcileFrame
  DEF NamespaceGone, reconcilerVars, AnalysisBacked, RecommendationSeen, StartsAtMostOne
<1>4. ASSUME NEW t \in RunTypes, ExpireRecording(t) PROVE IInv'
  <2>1. /\ UNCHANGED <<status, cache, rpc, snap, mruns, run, stored, ready>>
        /\ valkey' \subseteq valkey
    BY <1>4 DEF ExpireRecording, reconcilerVars
  <2>2. AnalysisBacked'
    BY <1>2, <2>1 DEF AnalysisBacked
  <2>. QED BY <1>1, <1>2, <2>1, <2>2, StepFrame DEF RecommendationSeen
<1>5. ASSUME NEW c \in Conds, TimePasses(c) PROVE IInv'
  <2>1. status' = [status EXCEPT !.cond[c] = "Overdue"] /\ status.cond[c] = "Recording"
    BY <1>5 DEF TimePasses
  <2>2. Sound(status')
    BY <1>2, <2>1 DEF Sound, Backed, Status
  <2>. QED BY <1>1, <1>2, <1>5, <2>2, ReconcileFrame
           DEF TimePasses, reconcilerVars, AnalysisBacked, RecommendationSeen, StartsAtMostOne
<1>6. CASE CacheSync
  <2>1. UNCHANGED <<status, rpc, snap, mruns, run, valkey, stored, ready>>
    BY <1>6 DEF CacheSync, reconcilerVars, recordings
  <2>2. cache'.recommended = status.recommended
    BY <1>2, <1>6, ViewType DEF CacheSync
  <2>3. AnalysisBacked'
    BY <1>2, <2>1 DEF AnalysisBacked
  <2>. QED BY <1>1, <1>2, <2>1, <2>2, <2>3, StepFrame DEF RecommendationSeen
<1>7. CASE EditSpec \/ DeleteCheck
  BY <1>1, <1>2, <1>7, ReconcileFrame
  DEF EditSpec, DeleteCheck, AnalysisBacked, RecommendationSeen, StartsAtMostOne
<1>8. CASE Crash
  <2>1. /\ UNCHANGED <<status, valkey, stored, ready>>
        /\ run' = [r \in Runners |-> IdleRunner]
        /\ snap' = EmptyStatus /\ mruns' = NoRuns /\ rpc' = "idle"
        /\ cache' \in {cache, View(status)}
    BY <1>8 DEF Crash, recordings
  <2>2. RunnersSound(run', stored', ready', status'.recommended)
    BY <2>1 DEF RunnersSound, IdleRunner, LateSteps
  <2>3. AnalysisBacked'
    BY <1>2, <2>1 DEF AnalysisBacked, NoRuns
  <2>4. RecommendationSeen'
    BY <1>2, <2>1, ViewType DEF RecommendationSeen, EmptyStatus
  <2>. QED BY <1>1, <1>2, <2>1, <2>2, <2>3, <2>4, StepFrame
<1>. QED BY <1>3, <1>4, <1>5, <1>6, <1>7, <1>8 DEF Environment

(* IInv holds initially ...                                                *)
LEMMA InitInv == Init => IInv
<1> SUFFICES ASSUME Init PROVE IInv
  OBVIOUS
<1>1. TypeOK
  BY InitTypeOK
<1>2. Backed(status, stored, ready)
  BY DEF Init, EmptyStatus, Backed, Conds
<1>3. RunnersSound(run, stored, ready, status.recommended)
  BY DEF Init, RunnersSound, IdleRunner, LateSteps
<1>4. AnalysisBacked /\ RecommendationSeen
  BY DEF Init, AnalysisBacked, RecommendationSeen, NoRuns, EmptyStatus
<1>. QED BY <1>1, <1>2, <1>3, <1>4, IInvParts

(* ... and every step preserves it.                                        *)
LEMMA NextInv == IInv /\ [Next]_vars => IInv'
<1> SUFFICES ASSUME IInv, [Next]_vars PROVE IInv'
  OBVIOUS
<1>1. CASE UNCHANGED vars
  BY <1>1
  DEF vars, IInv, TypeOK, RecommendationWitnessed, FinishedMeansTried, ReportsAreBacked,
      FinalNeedsRecommendation, RunnersBacked, AnalysisBacked, RecommendationSeen, Recorded
<1>2. CASE Next
  BY <1>2, ReconcileInv, RunnerInv, EnvironmentInv DEF Next
<1>. QED BY <1>1, <1>2

(* IInv holds in every reachable state.                                    *)
THEOREM Invariance == Spec => []IInv
<1>1. Init => IInv
  BY InitInv
<1>2. IInv /\ [Next]_vars => IInv'
  BY NextInv
<1>. QED BY <1>1, <1>2, PTL DEF Spec

(* A recommendation is made only when both baselines were stored, and only *)
(* from checks in which the workload was seen ready.                       *)
THEOREM RecommendationIsWitnessed == Spec => []RecommendationWitnessed
<1>1. IInv => RecommendationWitnessed
  BY DEF IInv
<1>. QED BY <1>1, Invariance, PTL

(* A check is Finished, for the reason Finished, only when there is a      *)
(* recommendation and a final run of which a recording was stored.         *)
THEOREM FinishedIsTried == Spec => []FinishedMeansTried
<1>1. IInv => FinishedMeansTried
  BY DEF IInv
<1>. QED BY <1>1, Invariance, PTL

(* What the status reports of a run was recorded.                          *)
THEOREM ReportsBacked == Spec => []ReportsAreBacked
<1>1. IInv => ReportsAreBacked
  BY DEF IInv
<1>. QED BY <1>1, Invariance, PTL

(* There is no final run without a recommendation.                         *)
THEOREM FinalAfterRecommendation == Spec => []FinalNeedsRecommendation
<1>1. IInv => FinalNeedsRecommendation
  BY DEF IInv
<1>. QED BY <1>1, Invariance, PTL

---------------------------------------------------------------------------
(* Without a stale cache: while Reconcile is at work the check is not      *)
(* finished, so nothing it writes can take a Finished back.                *)
Unfinished == rpc \notin {"idle", "remove"} => status.finished = "no"

KeepsFinished == status.finished # "no" => status'.finished = status.finished

(* The writes that leave the Finished condition alone.                     *)
LEMMA FinishedKept ==
  ASSUME NEW s \in Status
  PROVE  /\ \A c \in Conds, v \in CondValues :
              SetCondition(s, c, v) \in Status /\ SetCondition(s, c, v).finished = s.finished
         /\ \A t \in RunTypes, o \in Outcomes : AddRun(s, t, o).finished = s.finished
         /\ RemoveCheckConditions(s).finished = s.finished
         /\ View(s).finished = s.finished
<1>1. \A c \in Conds, v \in CondValues :
        SetCondition(s, c, v) \in Status /\ SetCondition(s, c, v).finished = s.finished
  BY SetConditionType
<1>2. \A t \in RunTypes, o \in Outcomes : AddRun(s, t, o).finished = s.finished
  BY DEF AddRun, Status
<1>3. RemoveCheckConditions(s).finished = s.finished
  BY DEF RemoveCheckConditions, Status
<1>4. View(s).finished = s.finished
  BY DEF View, EmptyStatus, Status
<1>. QED BY <1>1, <1>2, <1>3, <1>4

(* A write that keeps Finished does so whether it is lost or not.          *)
LEMMA WriteKeeps ==
  ASSUME NEW new, new.finished = status.finished
  PROVE  /\ Update(new) => status'.finished = status.finished
         /\ MayUpdate(new) => status'.finished = status.finished
         /\ TryUpdate(new) => status'.finished = status.finished
BY DEF Update, MayUpdate, TryUpdate

(* A runner never touches it.                                              *)
LEMMA RunnerKeepsFinished ==
  ASSUME TypeOK, NEW r \in Runners, RunnerStep(r)
  PROVE  status'.finished = status.finished /\ rpc' = rpc
<1>1. /\ TypeOf(r) \in RunTypes /\ Cond(r) \in Conds
      /\ status \in Status /\ run[r].outcome \in Outcomes
  BY RunnerTypes DEF TypeOK, Runner
<1>2. /\ StatusFailed(r).finished = status.finished
      /\ StatusRunning(r).finished = status.finished
      /\ SetCondition(StatusFailed(r), Cond(r), "Recording").finished = status.finished
      /\ SetCondition(status, Cond(r), "Recorded").finished = status.finished
      /\ AddRun(status, TypeOf(r), run[r].outcome).finished = status.finished
  <2>1. /\ "Unknown" \in CondValues /\ "Recording" \in CondValues
        /\ "Recorded" \in CondValues
    BY DEF CondValues
  <2>2. /\ StatusFailed(r) \in Status /\ StatusFailed(r).finished = status.finished
        /\ StatusRunning(r).finished = status.finished
    BY <1>1, <2>1, FinishedKept DEF StatusFailed, StatusRunning
  <2>. QED BY <1>1, <2>1, <2>2, FinishedKept
<1>3. status'.finished = status.finished
  BY <1>2, WriteKeeps
  DEF RunnerStep, RunnerStart, RunnerEnsureNamespace, RunnerClone, RunnerPopulate,
      RunnerPrepare, RunnerPodsUpdated, RunnerWaitTimeout, RunnerTimeoutRecord,
      RunnerRecord, RunnerSetFinished, RunnerReport, RunnerCleanup
<1>4. rpc' = rpc
  BY DEF RunnerStep, RunnerStart, RunnerEnsureNamespace, RunnerClone, RunnerPopulate,
      RunnerPrepare, RunnerPodsUpdated, RunnerWaitTimeout, RunnerTimeoutRecord,
      RunnerRecord, RunnerSetFinished, RunnerReport, RunnerCleanup,
      runnerKeeps, reconcilerVars
<1>. QED BY <1>3, <1>4

(* Neither does the environment.                                           *)
LEMMA EnvironmentKeepsFinished ==
  ASSUME TypeOK, Environment
  PROVE  status'.finished = status.finished /\ rpc' \in {rpc, "idle"}
BY DEF TypeOK, Environment, NamespaceGone, ExpireRecording, TimePasses, CacheSync, EditSpec,
       DeleteCheck, Crash, reconcilerVars, Status

(* Reconcile, with an up-to-date cache, changes it only from "no".         *)
LEMMA ReconcileKeepsFinished ==
  ASSUME TypeOK, Unfinished, CacheLag = FALSE, ReconcileStep
  PROVE  KeepsFinished /\ Unfinished'
<1>1. status \in Status
  BY DEF TypeOK
<1>2. CASE CleanupReconcileLoop \/ ReconcileFetchFails
  BY <1>2
  DEF CleanupReconcileLoop, ReconcileFetchFails, reconcilerKeeps, KeepsFinished, Unfinished
<1>3. CASE ReconcileFetch
  <2>1. Seen.finished = status.finished
    BY <1>1, FinishedKept DEF Seen
  <2>. QED BY <1>3, <2>1 DEF ReconcileFetch, KeepsFinished, Unfinished
<1>4. CASE ReconcileFinish
  BY <1>4 DEF ReconcileFinish, Done, Continue, KeepsFinished, Unfinished
<1>5. CASE ReconcileRemoveConditions
  BY <1>1, <1>5, FinishedKept
  DEF ReconcileRemoveConditions, Done, KeepsFinished, Unfinished
<1>6. ASSUME rpc \notin {"idle", "remove"}, rpc' = "idle" \/ status'.finished = "no"
      PROVE  KeepsFinished /\ Unfinished'
  BY <1>6 DEF KeepsFinished, Unfinished
<1>7. CASE \/ ReconcileAbandon \/ ReconcileFinalFailed \/ ReconcileFinalOverdue
           \/ ReconcileStartFinal \/ ReconcileBaselineOverdue \/ RecordBaseline2
           \/ ReconcileBaselineFailed \/ ReconcileNothingToDo \/ RecordChecksEnd
  BY <1>6, <1>7
  DEF ReconcileAbandon, ReconcileFinalFailed, ReconcileFinalOverdue, ReconcileStartFinal,
      ReconcileBaselineOverdue, RecordBaseline2, ReconcileBaselineFailed,
      ReconcileNothingToDo, RecordChecksEnd, Done
<1>8. CASE \/ ReconcileStartAnalysis \/ ReconcileSkipAnalysis \/ AnalyzeCheckRuns
           \/ AnalyzeCheckRunsFails \/ AnalyzeOverwriteRuns \/ SetRecommendation
           \/ ReconcileAnalysed \/ RecordBaseline \/ ReconcileBaselineRecorded
           \/ ReconcileBaselineGood \/ ReconcileRecordChecks
  <2>1. rpc \notin {"idle", "remove"}
    BY <1>8
    DEF ReconcileStartAnalysis, ReconcileSkipAnalysis, AnalyzeCheckRuns,
        AnalyzeCheckRunsFails, AnalyzeOverwriteRuns, SetRecommendation, ReconcileAnalysed,
        RecordBaseline, ReconcileBaselineRecorded, ReconcileBaselineGood,
        ReconcileRecordChecks
  <2>2. status.finished = "no"
    BY <2>1 DEF Unfinished
  <2>3. /\ SetFinished(status, "no").finished = "no"
        /\ AddNotStarted(status) \in Status /\ AddNotStarted(status).finished = "no"
        /\ SetFinished(AddNotStarted(status), "no").finished = "no"
        /\ [status EXCEPT !.analysis = TRUE].finished = "no"
        /\ [status EXCEPT !.analysis = TRUE, !.finished = "no"].finished = "no"
        /\ [status EXCEPT !.checkRuns = mruns].finished = "no"
        /\ [status EXCEPT !.recommended = TRUE, !.merged = MergedChecks(mruns)].finished = "no"
        /\ \A s \in Status :
             [s EXCEPT !.finished = "no", !.analysis = FALSE].finished = "no"
    <3>1. AddNotStarted(status) \in Status
      BY <1>1, AddNotStartedType
    <3>2. \A s \in Status : SetFinished(s, "no").finished = "no"
      BY DEF SetFinished, Status
    <3>3. AddNotStarted(status).finished = "no"
      BY <1>1, <2>2 DEF AddNotStarted, Status
    <3>. QED BY <1>1, <2>2, <3>1, <3>2, <3>3 DEF Status
  <2>4. status'.finished = "no"
    BY <1>1, <1>8, <2>2, <2>3, WriteKeeps
    DEF ReconcileStartAnalysis, ReconcileSkipAnalysis, AnalyzeCheckRuns,
        AnalyzeCheckRunsFails, AnalyzeOverwriteRuns, SetRecommendation, ReconcileAnalysed,
        RecordBaseline, ReconcileBaselineRecorded, ReconcileBaselineGood,
        ReconcileRecordChecks
  <2>. QED BY <1>6, <2>1, <2>4
<1>9. CASE \/ ReconcileFinalInProgress \/ ReconcileFinalIdle \/ ReconcileNoFinal
           \/ ReconcileBaselineInProgress \/ ReconcileBaselineIdle
           \/ \E c \in Checks : RecordChecksAsk(c) \/ RecordChecksInProgress(c)
  <2>1. rpc \notin {"idle", "remove"} /\ UNCHANGED status
    BY <1>9
    DEF ReconcileFinalInProgress, ReconcileFinalIdle, ReconcileNoFinal,
        ReconcileBaselineInProgress, ReconcileBaselineIdle, RecordChecksAsk,
        RecordChecksInProgress
  <2>. QED BY <1>6, <2>1 DEF Unfinished
<1>10. ASSUME NEW c \in Checks, RecordChecksStart(c)
       PROVE  KeepsFinished /\ Unfinished'
  <2>1. rpc = "record" /\ status.finished = "no"
    BY <1>10 DEF RecordChecksStart, Unfinished
  <2>2. SetCondition(status, c, "Unknown").finished = status.finished
    BY <1>1, FinishedKept DEF Conds, CondValues
  <2>3. status'.finished = "no"
    BY <1>10, <2>1, <2>2, WriteKeeps DEF RecordChecksStart
  <2>. QED BY <1>6, <2>1, <2>3
<1>. QED BY <1>2, <1>3, <1>4, <1>5, <1>7, <1>8, <1>9, <1>10 DEF ReconcileStep

(* So every step keeps it.                                                 *)
LEMMA StepKeepsFinished ==
  ASSUME CacheLag = FALSE, TypeOK, Unfinished, [Next]_vars
  PROVE  Unfinished' /\ KeepsFinished
<1>1. CASE UNCHANGED vars
  BY <1>1 DEF vars, Unfinished, KeepsFinished
<1>2. CASE ReconcileStep
  BY <1>2, ReconcileKeepsFinished
<1>3. ASSUME NEW r \in Runners, RunnerStep(r) PROVE Unfinished' /\ KeepsFinished
  BY <1>3, RunnerKeepsFinished DEF Unfinished, KeepsFinished
<1>4. CASE Environment
  BY <1>4, EnvironmentKeepsFinished DEF Unfinished, KeepsFinished
<1>. QED BY <1>1, <1>2, <1>3, <1>4 DEF Next

(* When the reconciler reads the live object, Finished is never taken back *)
(* and never given another reason.                                         *)
THEOREM FinishedStays ==
  ASSUME CacheLag = FALSE PROVE Spec => FinishedStable
<1>1. Init => Unfinished
  BY DEF Init, Unfinished
<1>2. TypeOK /\ Unfinished /\ [Next]_vars => Unfinished' /\ [KeepsFinished]_vars
  BY StepKeepsFinished
<1>3. [KeepsFinished]_vars
        => [status.finished # "no" => status'.finished = status.finished]_vars
  BY DEF KeepsFinished
<1>. QED BY <1>1, <1>2, <1>3, TypeCorrect, PTL DEF Spec, FinishedStable
============================================================================
