------------------------- MODULE HardeningContexts --------------------------
(***************************************************************************)
(* How security contexts flow through the life of a                        *)
(* WorkloadHardeningCheck: from the user's spec and the workload's         *)
(* manifest, through the objects that Reconcile hands to its runners, to   *)
(* the clones, the status, the recommendation and the final run.           *)
(* WorkloadHardening models when runs happen and fail; here every run is   *)
(* made once, and what matters is which object it holds.                   *)
(*                                                                         *)
(* GetSecurityContextForCheckType fills in the manager's own copy of       *)
(* Spec.SecurityContext in place and returns that pointer, so the runners  *)
(* that one Reconcile starts may share an object, which later iterations   *)
(* of its loop still change.  (Re-reading the check into the manager's     *)
(* copy decodes into the object that is there and keeps what was filled    *)
(* in.)  An object is named after the check it was first handed to.        *)
(***************************************************************************)
EXTENDS SecurityContexts

CONSTANTS
  Checks,          \* the registered check types
  Containers,      \* the containers and init containers of the workload
  Main,            \* Containers[0] of the pod template
  InitContainers,  \* the init containers
  Templates,       \* the pod templates considered
  Specs,           \* the values of Spec.SecurityContext considered
  FieldValues,     \* the values of the fields of a security context
  RunMode          \* Spec.RunMode: "parallel" or "sequential"

ASSUME ContextsAssumption ==
  /\ Checks \subseteq CheckTypes
  /\ Main \in Containers \ InitContainers
  /\ RunMode \in {"parallel", "sequential"}
  /\ {"1000", "true", "false", "ALL"} \subseteq FieldValues

(* A context with fields, or nil.                                          *)
PodContexts == {NilContext} \cup [PodFields -> SUBSET FieldValues]
ContainerContexts == {NilContext} \cup [ContainerFields -> SUBSET FieldValues]
Defaults == [pod : PodContexts, container : ContainerContexts]
PodTemplates == [pod : PodContexts, containers : [Containers -> ContainerContexts]]

ASSUME InputsAssumption ==
  /\ \A t \in Templates : t \in PodTemplates
  /\ \A s \in Specs : s \in Defaults

VARIABLES
  template,        \* the pod template in the source namespace
  spec,            \* Spec.SecurityContext, NilDefaults when it is nil
  todo,            \* the checks left in the loop of the current Reconcile
  managers,        \* the object the manager holds: a check, or "copy", unhanded
  object,          \* the objects: what they contain
  held,            \* the object the runner of a check holds, "none" before
  phase,           \* of each run: "none", "started", "applied", "ok" or "bad"
  clone,           \* of each run: the pod template in its clone
  stored,          \* of each check: CheckRuns[k].SecurityContext
  merging,         \* SetRecommendation: the contexts still to be merged
  merge,           \* SetRecommendation: podSecurityContext, containerSecurityContext
  recommendation   \* Status.Recommendation, NilDefaults before

vars == <<template, spec, todo, managers, object, held, phase, clone, stored,
          merging, merge, recommendation>>

Runs == Checks \cup {"baseline", "Final"}
Ended(t) == phase[t] \in {"ok", "bad"}
Required == {k \in Checks : ShouldRun(k, template, Containers \ InitContainers)}

TypeOK ==
  /\ template \in Templates
  /\ spec \in Specs
  /\ todo \subseteq Checks
  /\ managers \in Checks \cup {"copy"}
  /\ object \in [Checks -> Defaults]
  /\ held \in [Checks -> Checks \cup {"none"}]
  /\ phase \in [Runs -> {"none", "started", "applied", "ok", "bad"}]
  /\ clone \in [Runs -> PodTemplates]
  /\ stored \in [Checks -> Defaults]
  /\ merging \subseteq Checks
  /\ merge \in Defaults
  /\ recommendation \in Defaults

Init ==
  /\ template \in Templates
  /\ spec \in Specs
  /\ todo = {}
  /\ managers = "copy"
  /\ object = [k \in Checks |-> NilDefaults]
  /\ held = [k \in Checks |-> "none"]
  /\ phase = [t \in Runs |-> "none"]
  /\ clone = [t \in Runs |-> template]
  /\ stored = [k \in Checks |-> NilDefaults]
  /\ merging = {}
  /\ merge = NilDefaults
  /\ recommendation = NilDefaults

---------------------------------------------------------------------------
(* What RunCheck does to its clone: nothing when the context is empty.     *)
Hardened(s) == IF IsEmpty(s) THEN template ELSE ApplySecurityContext(template, s)

(* The baseline runs with Spec.SecurityContext as the user wrote it.  When *)
(* it fails the check finishes and nothing more happens.                   *)
RecordBaseline ==
  /\ phase["baseline"] = "none"
  /\ clone' = [clone EXCEPT !["baseline"] = Hardened(spec)]
  /\ \E outcome \in {"ok", "bad"} : phase' = [phase EXCEPT !["baseline"] = outcome]
  /\ UNCHANGED <<template, spec, todo, managers, object, held, stored,
                 merging, merge, recommendation>>

(* A Reconcile reaches recordChecks with a new manager, which holds a deep *)
(* copy of the spec.                                                       *)
RecordChecks ==
  /\ phase["baseline"] = "ok" /\ todo = {}
  /\ \E k \in Required : phase[k] = "none"
  /\ todo' = {k \in Required : phase[k] = "none"}
  /\ managers' = "copy"
  /\ UNCHANGED <<template, spec, object, held, phase, clone, stored,
                 merging, merge, recommendation>>

(* Mutant of HandedObject: one object serves all checks that are started,  *)
(* as if defaults were kept in the manager's package.                      *)
HandedObjectShared(k) ==
  IF \E j \in Checks : held[j] # "none"
    THEN CHOOSE o \in Checks : \E j \in Checks : held[j] = o
    ELSE k

(* The object GetSecurityContextForCheckType fills in: a fresh one when    *)
(* the spec is nil, and the manager's copy otherwise.                      *)
HandedObject(k) ==
  IF spec = NilDefaults \/ managers = "copy" THEN k ELSE managers

BaseOf(k) == IF HandedObject(k) # k THEN object[HandedObject(k)]
             ELSE IF spec = NilDefaults THEN EmptyDefaults ELSE spec

(* A Go map is iterated in any order.  Sequential mode returns after the   *)
(* first check it starts.                                                  *)
StartCheck(k) ==
  /\ k \in todo
  /\ \A h \in Dereferences(k) : ~IsNil(BaseOf(k)[h])
  /\ object' = [object EXCEPT ![HandedObject(k)] =
                  GetSecurityContextDefaults(k, BaseOf(k))]
  /\ held' = [held EXCEPT ![k] = HandedObject(k)]
  /\ managers' = HandedObject(k)
  /\ todo' = IF RunMode = "parallel" THEN todo \ {k} ELSE {}
  /\ phase' = [phase EXCEPT ![k] = "started"]
  /\ UNCHANGED <<template, spec, clone, stored, merging, merge, recommendation>>

(* A half of the spec that is nil is dereferenced: Reconcile panics, and   *)
(* the request is queued again.                                            *)
ReconcilePanics(k) ==
  /\ k \in todo
  /\ \E h \in Dereferences(k) : IsNil(BaseOf(k)[h])
  /\ todo' = {}
  /\ UNCHANGED <<template, spec, managers, object, held, phase, clone, stored,
                 merging, merge, recommendation>>

(* The runner of a check reads its object when it hardens the clone ...    *)
ApplyCheck(k) ==
  /\ phase[k] = "started"
  /\ clone' = [clone EXCEPT ![k] = Hardened(object[held[k]])]
  /\ phase' = [phase EXCEPT ![k] = "applied"]
  /\ UNCHANGED <<template, spec, todo, managers, object, held, stored,
                 merging, merge, recommendation>>

(* ... and again when it reports the run.                                  *)
RecordCheck(k) ==
  /\ phase[k] = "applied"
  /\ stored' = [stored EXCEPT ![k] = object[held[k]]]
  /\ \E outcome \in {"ok", "bad"} : phase' = [phase EXCEPT ![k] = outcome]
  /\ UNCHANGED <<template, spec, todo, managers, object, held, clone,
                 merging, merge, recommendation>>

---------------------------------------------------------------------------
(* The contexts of the manifest: those of the pod and of its first         *)
(* container, where nil counts as empty.                                   *)
OwnContexts ==
  [pod       |-> IF IsNil(template.pod) THEN EmptyPod ELSE template.pod,
   container |-> IF IsNil(template.containers[Main]) THEN EmptyContainer
                 ELSE template.containers[Main]]

MergeInto(s, t) == [pod       |-> MergePod(s.pod, t.pod),
                    container |-> MergeContainer(s.container, t.container)]

(* Mutants of Mergeable: checks that failed, or the baseline, are merged   *)
(* as well.                                                                *)
MergeableAll == {k \in Checks : Ended(k)}

MergeableBaseline == {k \in Checks \cup {"baseline"} : phase[k] = "ok"}

Mergeable == {k \in Checks : phase[k] = "ok"}

(* SetRecommendation, called when all required checks are recorded.        *)
SetRecommendation ==
  /\ phase["baseline"] = "ok"
  /\ \A k \in Required : Ended(k)
  /\ merge = NilDefaults
  /\ merging' = Mergeable
  /\ merge' = OwnContexts
  /\ UNCHANGED <<template, spec, todo, managers, object, held, phase, clone,
                 stored, recommendation>>

(* One iteration of its loop over a Go map.                                *)
MergeCheck(k) ==
  /\ k \in merging
  /\ merging' = merging \ {k}
  /\ merge' = MergeInto(merge, stored[k])
  /\ UNCHANGED <<template, spec, todo, managers, object, held, phase, clone,
                 stored, recommendation>>

WriteRecommendation ==
  /\ merge # NilDefaults /\ merging = {}
  /\ recommendation = NilDefaults
  /\ recommendation' = merge
  /\ UNCHANGED <<template, spec, todo, managers, object, held, phase, clone,
                 stored, merging, merge>>

(* Mutant of GetRecommendedSecurityContext: groups are not copied.         *)
GetRecommendedWithoutGroups ==
  [pod       |-> [recommendation.pod EXCEPT !["seccompProfile"] = {},
                                            !["runAsGroup"] = {}],
   container |-> [recommendation.container EXCEPT !["seccompProfile"] = {}]]

(* GetRecommendedSecurityContext copies the fields that checks set.        *)
GetRecommendedSecurityContext ==
  [pod       |-> [recommendation.pod EXCEPT !["seccompProfile"] = {}],
   container |-> [recommendation.container EXCEPT !["seccompProfile"] = {}]]

FinalRun ==
  /\ recommendation # NilDefaults /\ phase["Final"] = "none"
  /\ clone' = [clone EXCEPT !["Final"] = Hardened(GetRecommendedSecurityContext)]
  /\ \E outcome \in {"ok", "bad"} : phase' = [phase EXCEPT !["Final"] = outcome]
  /\ UNCHANGED <<template, spec, todo, managers, object, held, stored,
                 merging, merge, recommendation>>

Next ==
  \/ RecordBaseline \/ RecordChecks
  \/ \E k \in Checks : \/ StartCheck(k) \/ ReconcilePanics(k)
                       \/ ApplyCheck(k) \/ RecordCheck(k) \/ MergeCheck(k)
  \/ SetRecommendation \/ WriteRecommendation \/ FinalRun

Spec == Init /\ [][Next]_vars

---------------------------------------------------------------------------
(* The value of a field, where a nil context has only nil fields.          *)
Value(c, f) == IF f \in DOMAIN c THEN c[f] ELSE {}

(* What a container ends up with: its own field, or that of its pod.       *)
Effective(t, c, f) == Or(Value(t.containers[c], f), Value(t.pod, f))

(* The attributes a check is about.                                        *)
AttributesOf(k) ==
  IF k = "user" THEN {"runAsUser", "runAsNonRoot"}
  ELSE IF k = "group" THEN {"runAsUser", "runAsGroup", "fsGroup"}
  ELSE IF k = "dropAllCapabilities" THEN {"capabilitiesDrop"}
  ELSE {k}

Survived == {k \in Checks : phase[k] = "ok"}

AllFields == PodFields \cup ContainerFields

(* The impact of each attribute is isolated: the clone of a check differs  *)
(* from that of the baseline in the attributes of that check only, also    *)
(* when other checks are started while it runs.                            *)
Isolated ==
  \A k \in Checks : phase[k] \in {"applied", "ok", "bad"} =>
    \A c \in Containers, f \in AllFields \ AttributesOf(k) :
      Effective(clone[k], c, f) = Effective(clone["baseline"], c, f)

(* Nothing is recommended that the workload did not survive: every value   *)
(* is the workload's own or was in effect in a check that went well.       *)
RecommendationSurvived ==
  recommendation # NilDefaults =>
    /\ \A f \in PodFields : recommendation.pod[f] # {} =>
         \E t \in {template} \cup {clone[k] : k \in Survived} :
           Sets(t.pod, f) /\ t.pod[f] = recommendation.pod[f]
    /\ \A f \in ContainerFields : \A v \in recommendation.container[f] :
         \E t \in {template} \cup {clone[k] : k \in Survived} :
           Sets(t.containers[Main], f) /\ v \in t.containers[Main][f]

(* What the user has set for the main container: in the manifest, for the  *)
(* pod or the container, and in the spec.                                  *)
Given(f) ==
  Value(template.pod, f) \cup Value(template.containers[Main], f)
    \cup Value(spec.pod, f) \cup Value(spec.container, f)

(* The restriction that the checks try: numbers are those the spec gives   *)
(* the pod, or the default.                                                *)
Restriction(f) ==
  IF f \in {"runAsNonRoot", "readOnlyRootFilesystem"} THEN {"true"}
  ELSE IF f = "allowPrivilegeEscalation" THEN {"false"}
  ELSE IF f = "capabilitiesDrop" THEN {"ALL"}
  ELSE {"1000"} \cup Value(spec.pod, "runAsUser") \cup Value(spec.pod, "runAsGroup")

(* What the main container would run with if it followed the               *)
(* recommendation.                                                         *)
Recommended(f) ==
  Effective([pod |-> recommendation.pod,
             containers |-> [c \in {Main} |-> recommendation.container]], Main, f)

(* And nothing it survived is missing: an attribute of a check that went   *)
(* well is recommended with the restriction of the check, unless the user  *)
(* has set it.  The merge keeps what the manifest of the container sets,   *)
(* readOnlyRootFilesystem: false included.                                 *)
SurvivedRecommended ==
  recommendation # NilDefaults =>
    \A k \in Survived : \A f \in AttributesOf(k) :
      /\ Recommended(f) # {}
      /\ Recommended(f) \subseteq Given(f) \cup Restriction(f)
      /\ Value(template.containers[Main], f) \subseteq Recommended(f)

(* The recommendation does not depend on the order in which the checks     *)
(* were merged.                                                            *)
Reproducible ==
  \A j, k \in Survived :
    MergeInto(MergeInto(OwnContexts, stored[j]), stored[k])
      = MergeInto(MergeInto(OwnContexts, stored[k]), stored[j])

(* The final run tries the recommended security context: the main          *)
(* container runs with every field of it.                                  *)
FinalTriesRecommendation ==
  Ended("Final") =>
    /\ \A f \in PodFields :
         recommendation.pod[f] # {} => clone["Final"].pod[f] = recommendation.pod[f]
    /\ \A f \in ContainerFields :
         recommendation.container[f] # {} =>
           clone["Final"].containers[Main][f] = recommendation.container[f]
============================================================================
