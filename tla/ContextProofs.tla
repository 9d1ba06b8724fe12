---------------------------- MODULE ContextProofs ----------------------------
(***************************************************************************)
(* Proofs about HardeningContexts.  The merge of two security contexts is  *)
(* described field by field; checks that do not share an object are then   *)
(* isolated from each other for every pod template and every spec.  What   *)
(* is recommended and tried is then proved with objects shared or not.     *)
(***************************************************************************)
EXTENDS HardeningContexts, TLAPS

(* The contexts that are not nil.                                          *)
SomePods == [PodFields -> SUBSET FieldValues]
SomeContainers == [ContainerFields -> SUBSET FieldValues]

(* A security context is nil or has all its fields.                        *)
LEMMA NilOrSome ==
  /\ \A c \in PodContexts : IsNil(c) \/ c \in SomePods
  /\ \A c \in ContainerContexts : IsNil(c) \/ c \in SomeContainers
  /\ NilContext \in PodContexts /\ NilContext \in ContainerContexts
  /\ IsNil(NilContext)
BY DEF PodContexts, ContainerContexts, SomePods, SomeContainers, IsNil, NilContext

(* One that has fields is not nil.                                         *)
LEMMA SomeIsContext ==
  /\ \A c \in SomePods : c \in PodContexts /\ DOMAIN c = PodFields /\ ~IsNil(c)
  /\ \A c \in SomeContainers :
       c \in ContainerContexts /\ DOMAIN c = ContainerFields /\ ~IsNil(c)
<1>1. PodFields # {} /\ ContainerFields # {}
  BY DEF PodFields, ContainerFields
<1>2. QED
  BY <1>1 DEF PodContexts, ContainerContexts, SomePods, SomeContainers, IsNil

---------------------------------------------------------------------------
(* Merging stays within the security contexts, and a merge sees only the   *)
(* values of the context it adds.                                          *)
LEMMA MergePodType ==
  ASSUME NEW b \in PodContexts, NEW e \in PodContexts
  PROVE  MergePod(b, e) \in PodContexts
<1>1. CASE IsNil(b) \/ IsNil(e)
  BY <1>1 DEF MergePod
<1>2. CASE b \in SomePods /\ e \in SomePods
  BY <1>2, SomeIsContext DEF MergePod, SomePods, Or
<1>3. QED
  BY <1>1, <1>2, NilOrSome

(* The same for the half of the container.                                 *)
LEMMA MergeContainerType ==
  ASSUME NEW b \in ContainerContexts, NEW e \in ContainerContexts
  PROVE  MergeContainer(b, e) \in ContainerContexts
<1>1. CASE IsNil(b) \/ IsNil(e)
  BY <1>1 DEF MergeContainer
<1>2. CASE b \in SomeContainers /\ e \in SomeContainers
  <2>1. \A f \in ContainerFields :
          (IF f = "runAsNonRoot" THEN b[f]
           ELSE IF f = "capabilitiesDrop" THEN b[f] \cup e[f]
           ELSE Or(b[f], e[f])) \in SUBSET FieldValues
    BY <1>2 DEF SomeContainers, Or
  <2>2. MergeContainer(b, e) \in SomeContainers
    BY <1>2, <2>1, SomeIsContext DEF MergeContainer, SomeContainers
  <2>3. QED
    BY <2>2, SomeIsContext
<1>3. QED
  BY <1>1, <1>2, NilOrSome

(* The merge of the pod half, field by field.                              *)
LEMMA MergePodValue ==
  ASSUME NEW b \in PodContexts, NEW e \in PodContexts, NEW f
  PROVE  Value(MergePod(b, e), f) = Or(Value(b, f), Value(e, f))
<1>1. CASE IsNil(b)
  BY <1>1 DEF MergePod, Value, IsNil, Or
<1>2. CASE ~IsNil(b) /\ IsNil(e)
  BY <1>2 DEF MergePod, Value, IsNil, Or
<1>3. CASE b \in SomePods /\ e \in SomePods
  BY <1>3, SomeIsContext DEF MergePod, Value, Or
<1>4. QED
  BY <1>1, <1>2, <1>3, NilOrSome

(* The merge of the container half, field by field: capabilities are       *)
(* united, and RunAsNonRoot is taken over only by nil.                     *)
LEMMA MergeContainerValue ==
  ASSUME NEW b \in ContainerContexts, NEW e \in ContainerContexts, NEW f
  PROVE  Value(MergeContainer(b, e), f) =
           IF f = "runAsNonRoot" /\ ~IsNil(b) THEN Value(b, f)
           ELSE IF f = "capabilitiesDrop" THEN Value(b, f) \cup Value(e, f)
           ELSE Or(Value(b, f), Value(e, f))
<1>1. CASE IsNil(b)
  BY <1>1 DEF MergeContainer, Value, IsNil, Or
<1>2. CASE ~IsNil(b) /\ IsNil(e)
  BY <1>2 DEF MergeContainer, Value, IsNil, Or
<1>3. CASE b \in SomeContainers /\ e \in SomeContainers
  <2>1. f \notin ContainerFields => f # "runAsNonRoot" /\ f # "capabilitiesDrop"
    BY DEF ContainerFields
  <2>2. MergeContainer(b, e) = [g \in ContainerFields |->
          IF g = "runAsNonRoot" THEN b[g]
          ELSE IF g = "capabilitiesDrop" THEN b[g] \cup e[g]
          ELSE Or(b[g], e[g])]
    BY <1>3, SomeIsContext DEF MergeContainer
  <2>3. QED
    BY <1>3, <2>1, <2>2, SomeIsContext DEF Value, Or
<1>4. QED
  BY <1>1, <1>2, <1>3, NilOrSome

---------------------------------------------------------------------------
(* What a check fills in leaves the other attributes as they are.          *)
LEMMA FillPod ==
  ASSUME NEW c \in SomePods, NEW f \in PodFields, NEW v \in SUBSET FieldValues
  PROVE  /\ Fill(c, f, v) \in SomePods
         /\ \A g : g # f => Value(Fill(c, f, v), g) = Value(c, g)
BY DEF Fill, Or, SomePods, Value

(* The same for the half of the container.                                 *)
LEMMA FillContainer ==
  ASSUME NEW c \in SomeContainers, NEW f \in ContainerFields, NEW v \in SUBSET FieldValues
  PROVE  /\ Fill(c, f, v) \in SomeContainers
         /\ \A g : g # f => Value(Fill(c, f, v), g) = Value(c, g)
BY DEF Fill, Or, SomeContainers, Value

(* The halves that a check needs are there.                                *)
Usable(k, s) == \A h \in Dereferences(k) : ~IsNil(s[h])

(* A check changes none but its own attributes.                            *)
LEMMA CheckFills ==
  ASSUME NEW k \in Checks, NEW s \in Defaults, Usable(k, s)
  PROVE  /\ GetSecurityContextDefaults(k, s) \in Defaults
         /\ \A f : f \notin AttributesOf(k) =>
              /\ Value(GetSecurityContextDefaults(k, s).pod, f) = Value(s.pod, f)
              /\ Value(GetSecurityContextDefaults(k, s).container, f)
                   = Value(s.container, f)
<1>1. s.pod \in PodContexts /\ s.container \in SomeContainers
  BY NilOrSome DEF Defaults, Usable, Dereferences
<1>2. s = [pod |-> s.pod, container |-> s.container]
  BY DEF Defaults
<1>3. k \in {"user", "group"} => s.pod \in SomePods
  BY <1>1, NilOrSome DEF Usable, Dereferences
<1>4. /\ {"1000"} \in SUBSET FieldValues /\ {"true"} \in SUBSET FieldValues
      /\ {"false"} \in SUBSET FieldValues /\ {"ALL"} \in SUBSET FieldValues
  BY ContextsAssumption
<1>5. CASE k = "user"
  <2> DEFINE p == Fill(s.pod, "runAsUser", {"1000"})
             c == Fill(s.container, "runAsUser", {"1000"})
  <2>1. /\ "runAsUser" \in PodFields /\ "runAsNonRoot" \in PodFields
        /\ "runAsUser" \in ContainerFields /\ "runAsNonRoot" \in ContainerFields
    BY DEF PodFields, ContainerFields
  <2>2. p \in SomePods /\ c \in SomeContainers
    BY <1>1, <1>3, <1>4, <1>5, <2>1, FillPod, FillContainer
  <2>3. /\ Fill(p, "runAsNonRoot", {"true"}) \in SomePods
        /\ Fill(c, "runAsNonRoot", {"true"}) \in SomeContainers
    BY <1>4, <2>1, <2>2, FillPod, FillContainer
  <2>4. GetSecurityContextDefaults(k, s) =
          [pod |-> Fill(p, "runAsNonRoot", {"true"}),
           container |-> Fill(c, "runAsNonRoot", {"true"})]
    BY <1>5 DEF GetSecurityContextDefaults, UserCheck
  <2>5. GetSecurityContextDefaults(k, s) \in Defaults
    BY <2>3, <2>4, SomeIsContext DEF Defaults
  <2>6. ASSUME NEW f, f \notin AttributesOf(k)
        PROVE  /\ Value(Fill(p, "runAsNonRoot", {"true"}), f) = Value(s.pod, f)
               /\ Value(Fill(c, "runAsNonRoot", {"true"}), f) = Value(s.container, f)
    <3>1. f # "runAsUser" /\ f # "runAsNonRoot"
      BY <1>5, <2>6 DEF AttributesOf
    <3>2. Value(p, f) = Value(s.pod, f) /\ Value(c, f) = Value(s.container, f)
      BY <1>1, <1>3, <1>4, <1>5, <2>1, <3>1, FillPod, FillContainer
    <3>3. QED
      BY <1>4, <2>1, <2>2, <3>1, <3>2, FillPod, FillContainer
  <2>7. QED
    BY <2>4, <2>5, <2>6
<1>6. CASE k = "group"
  <2> DEFINE user == Or(s.pod["runAsUser"], {"1000"})
             group == Or(s.pod["runAsGroup"], user)
             p == [s.pod EXCEPT !["runAsUser"] = user, !["runAsGroup"] = group,
                                !["fsGroup"] = Or(@, group)]
             c == Fill(s.container, "runAsUser", user)
  <2>1. /\ "runAsUser" \in PodFields /\ "runAsGroup" \in PodFields /\ "fsGroup" \in PodFields
        /\ "runAsUser" \in ContainerFields /\ "runAsGroup" \in ContainerFields
    BY DEF PodFields, ContainerFields
  <2>2. s.pod \in SomePods
    BY <1>3, <1>6
  <2>3. user \in SUBSET FieldValues
    BY <1>4, <2>1, <2>2 DEF SomePods, Or
  <2>4. group \in SUBSET FieldValues
    BY <2>1, <2>2, <2>3 DEF SomePods, Or
  <2> HIDE DEF user, group
  <2>5. p \in SomePods
    BY <2>1, <2>2, <2>3, <2>4 DEF SomePods, Or
  <2>6. c \in SomeContainers
    BY <1>1, <2>1, <2>3, FillContainer
  <2>7. Fill(c, "runAsGroup", group) \in SomeContainers
    BY <2>1, <2>4, <2>6, FillContainer
  <2>8. GetSecurityContextDefaults(k, s) =
          [pod |-> p, container |-> Fill(c, "runAsGroup", group)]
    BY <1>6 DEF GetSecurityContextDefaults, GroupCheck, user, group
  <2>9. GetSecurityContextDefaults(k, s) \in Defaults
    BY <2>5, <2>7, <2>8, SomeIsContext DEF Defaults
  <2>10. ASSUME NEW f, f \notin AttributesOf(k)
         PROVE  /\ Value(p, f) = Value(s.pod, f)
                /\ Value(Fill(c, "runAsGroup", group), f) = Value(s.container, f)
    <3>1. f # "runAsUser" /\ f # "runAsGroup" /\ f # "fsGroup"
      BY <1>6, <2>10 DEF AttributesOf
    <3>2. Value(p, f) = Value(s.pod, f)
      BY <2>2, <3>1 DEF Value, SomePods
    <3>3. Value(c, f) = Value(s.container, f)
      BY <1>1, <2>1, <2>3, <3>1, FillContainer
    <3>4. QED
      BY <2>1, <2>4, <2>6, <3>1, <3>2, <3>3, FillContainer
  <2>11. QED
    BY <2>8, <2>9, <2>10
<1>7. ASSUME NEW g \in ContainerFields, NEW v \in SUBSET FieldValues,
             GetSecurityContextDefaults(k, s) = ContainerCheck(s, g, v),
             AttributesOf(k) = {g}
      PROVE  /\ GetSecurityContextDefaults(k, s) \in Defaults
             /\ \A f : f \notin AttributesOf(k) =>
                  /\ Value(GetSecurityContextDefaults(k, s).pod, f) = Value(s.pod, f)
                  /\ Value(GetSecurityContextDefaults(k, s).container, f)
                       = Value(s.container, f)
  <2>1. ContainerCheck(s, g, v) = [pod |-> s.pod, container |-> Fill(s.container, g, v)]
    BY <1>2 DEF ContainerCheck
  <2>2. /\ Fill(s.container, g, v) \in ContainerContexts
        /\ \A f : f # g => Value(Fill(s.container, g, v), f) = Value(s.container, f)
    BY <1>1, FillContainer, SomeIsContext
  <2>3. QED
    BY <1>1, <1>7, <2>1, <2>2 DEF Defaults
<1>8. CASE k = "readOnlyRootFilesystem"
  <2>1. k \in ContainerFields
    BY <1>8 DEF ContainerFields
  <2>2. GetSecurityContextDefaults(k, s) = ContainerCheck(s, k, {"true"})
    BY <1>8 DEF GetSecurityContextDefaults
  <2>3. AttributesOf(k) = {k}
    BY <1>8 DEF AttributesOf
  <2>4. QED
    BY <1>4, <1>7, <2>1, <2>2, <2>3
<1>9. CASE k = "allowPrivilegeEscalation"
  <2>1. k \in ContainerFields
    BY <1>9 DEF ContainerFields
  <2>2. GetSecurityContextDefaults(k, s) = ContainerCheck(s, k, {"false"})
    BY <1>9 DEF GetSecurityContextDefaults
  <2>3. AttributesOf(k) = {k}
    BY <1>9 DEF AttributesOf
  <2>4. QED
    BY <1>4, <1>7, <2>1, <2>2, <2>3
<1>10. CASE k = "dropAllCapabilities"
  <2>1. "capabilitiesDrop" \in ContainerFields
    BY DEF ContainerFields
  <2>2. GetSecurityContextDefaults(k, s) = ContainerCheck(s, "capabilitiesDrop", {"ALL"})
    BY <1>10 DEF GetSecurityContextDefaults
  <2>3. AttributesOf(k) = {"capabilitiesDrop"}
    BY <1>10 DEF AttributesOf
  <2>4. QED
    BY <1>4, <1>7, <2>1, <2>2, <2>3
<1>11. k \in CheckTypes
  BY ContextsAssumption
<1>12. QED
  BY <1>5, <1>6, <1>8, <1>9, <1>10, <1>11 DEF CheckTypes

---------------------------------------------------------------------------
(* Hardening a pod template yields a pod template.                         *)
LEMMA HardenedType ==
  ASSUME TypeOK, NEW s \in Defaults
  PROVE  Hardened(s) \in PodTemplates
<1>1. template \in PodTemplates
  BY InputsAssumption DEF TypeOK
<1>2. MergePod(template.pod, s.pod) \in PodContexts
  BY <1>1, MergePodType DEF PodTemplates, Defaults
<1>3. \A c \in Containers :
        MergeContainer(template.containers[c], s.container) \in ContainerContexts
  BY <1>1, MergeContainerType DEF PodTemplates, Defaults
<1>4. DOMAIN template.containers = Containers
  BY <1>1 DEF PodTemplates
<1>5. ApplySecurityContext(template, s) \in PodTemplates
  BY <1>2, <1>3, <1>4 DEF ApplySecurityContext, PodTemplates
<1>6. QED
  BY <1>1, <1>5 DEF Hardened

(* What a container of a hardened template has of a field depends on the   *)
(* value that the security context has of it, and on nothing else.         *)
LEMMA HardenedValues ==
  ASSUME TypeOK, NEW s \in Defaults, NEW c \in Containers, NEW f
  PROVE  /\ Value(Hardened(s).pod, f) = Or(Value(template.pod, f), Value(s.pod, f))
         /\ Value(Hardened(s).containers[c], f) =
              IF f = "runAsNonRoot" /\ ~IsNil(template.containers[c])
                THEN Value(template.containers[c], f)
              ELSE IF f = "capabilitiesDrop"
                THEN Value(template.containers[c], f) \cup Value(s.container, f)
              ELSE Or(Value(template.containers[c], f), Value(s.container, f))
<1>1. /\ template \in PodTemplates /\ template.pod \in PodContexts
      /\ template.containers[c] \in ContainerContexts
      /\ DOMAIN template.containers = Containers
      /\ s.pod \in PodContexts /\ s.container \in ContainerContexts
  BY InputsAssumption DEF TypeOK, PodTemplates, Defaults
<1>2. CASE IsEmpty(s)
  <2>1. Value(s.pod, f) = {} /\ Value(s.container, f) = {}
    BY <1>2 DEF IsEmpty, Value
  <2>2. Hardened(s) = template
    BY <1>2 DEF Hardened
  <2>3. QED
    BY <2>1, <2>2 DEF Or
<1>3. CASE ~IsEmpty(s)
  <2>1. /\ Hardened(s).pod = MergePod(template.pod, s.pod)
        /\ Hardened(s).containers[c] = MergeContainer(template.containers[c], s.container)
    BY <1>1, <1>3 DEF Hardened, ApplySecurityContext
  <2>2. Value(MergePod(template.pod, s.pod), f)
          = Or(Value(template.pod, f), Value(s.pod, f))
    BY <1>1, MergePodValue
  <2> DEFINE t == template.containers[c]
  <2>3. Value(MergeContainer(t, s.container), f) =
          IF f = "runAsNonRoot" /\ ~IsNil(t) THEN Value(t, f)
          ELSE IF f = "capabilitiesDrop" THEN Value(t, f) \cup Value(s.container, f)
          ELSE Or(Value(t, f), Value(s.container, f))
    BY <1>1, MergeContainerValue
  <2>4. QED
    BY <2>1, <2>2, <2>3
<1>4. QED
  BY <1>2, <1>3


---------------------------------------------------------------------------
(* Type correctness: a run that was started holds an object, and what is   *)
(* merged or recommended has both halves.                                  *)
SomeDefaults == [pod : SomePods, container : SomeContainers]

TypeInv ==
  /\ TypeOK
  /\ \A k \in Checks : phase[k] # "none" => held[k] \in Checks
  /\ merge = NilDefaults \/ merge \in SomeDefaults
  /\ merge = NilDefaults => merging = {}
  /\ recommendation = NilDefaults \/ recommendation \in SomeDefaults

(* Nil and empty security contexts have their type.                        *)
LEMMA BaseTypes ==
  /\ NilDefaults \in Defaults /\ EmptyDefaults \in Defaults
  /\ EmptyDefaults \in SomeDefaults
  /\ SomeDefaults \subseteq Defaults
<1>1. EmptyPod \in SomePods /\ EmptyContainer \in SomeContainers
  BY DEF EmptyPod, EmptyContainer, SomePods, SomeContainers
<1>2. QED
  BY <1>1, NilOrSome, SomeIsContext DEF NilDefaults, EmptyDefaults, Defaults, SomeDefaults

(* No check has the name of another run.                                   *)
LEMMA RunNames == "baseline" \notin Checks /\ "Final" \notin Checks /\ "none" \notin Checks
BY ContextsAssumption DEF CheckTypes

(* Initially there is only what the user wrote.                            *)
LEMMA InitTypeInv == Init => TypeInv
<1> SUFFICES ASSUME Init PROVE TypeInv
  OBVIOUS
<1>1. template \in PodTemplates
  BY InputsAssumption DEF Init
<1>2. TypeOK
  BY <1>1, BaseTypes DEF Init, TypeOK
<1>3. Checks \subseteq Runs
  BY DEF Runs
<1>4. QED
  BY <1>2, <1>3 DEF Init, TypeInv

(* The object that is filled in is one of a check, and it has its type.    *)
LEMMA BaseOfType ==
  ASSUME TypeInv, NEW k \in Checks
  PROVE  HandedObject(k) \in Checks /\ BaseOf(k) \in Defaults
<1>1. HandedObject(k) \in Checks
  BY DEF HandedObject, TypeInv, TypeOK
<1>2. spec \in Defaults
  BY InputsAssumption DEF TypeInv, TypeOK
<1>3. QED
  BY <1>1, <1>2, BaseTypes DEF BaseOf, TypeInv, TypeOK

(* A merge into contexts with fields has fields.                           *)
LEMMA MergeIntoSome ==
  ASSUME NEW s \in SomeDefaults, NEW t \in Defaults
  PROVE  MergeInto(s, t) \in SomeDefaults
<1>1. /\ s.pod \in SomePods /\ s.container \in SomeContainers
      /\ t.pod \in PodContexts /\ t.container \in ContainerContexts
  BY DEF SomeDefaults, Defaults
<1>2. MergePod(s.pod, t.pod) \in SomePods
  <2>1. CASE IsNil(t.pod)
    BY <1>1, <2>1, SomeIsContext DEF MergePod
  <2>2. CASE t.pod \in SomePods
    BY <1>1, <2>2, SomeIsContext DEF MergePod, SomePods, Or
  <2>3. QED
    BY <1>1, <2>1, <2>2, NilOrSome
<1>3. MergeContainer(s.container, t.container) \in SomeContainers
  <2>1. CASE IsNil(t.container)
    BY <1>1, <2>1, SomeIsContext DEF MergeContainer
  <2>2. CASE t.container \in SomeContainers
    <3>1. MergeContainer(s.container, t.container) = [g \in ContainerFields |->
            IF g = "runAsNonRoot" THEN s.container[g]
            ELSE IF g = "capabilitiesDrop" THEN s.container[g] \cup t.container[g]
            ELSE Or(s.container[g], t.container[g])]
      BY <1>1, <2>2, SomeIsContext DEF MergeContainer
    <3>2. QED
      BY <1>1, <2>2, <3>1 DEF SomeContainers, Or
  <2>3. QED
    BY <1>1, <2>1, <2>2, NilOrSome
<1>4. QED
  BY <1>2, <1>3 DEF MergeInto, SomeDefaults

(* The contexts of the manifest have fields, nil or not.                   *)
LEMMA OwnContextsSome ==
  ASSUME TypeInv
  PROVE  OwnContexts \in SomeDefaults
<1>1. template \in PodTemplates
  BY InputsAssumption DEF TypeInv, TypeOK
<1>2. template.pod \in PodContexts /\ template.containers[Main] \in ContainerContexts
  BY <1>1, ContextsAssumption DEF PodTemplates
<1>3. EmptyPod \in SomePods /\ EmptyContainer \in SomeContainers
  BY DEF EmptyPod, EmptyContainer, SomePods, SomeContainers
<1>4. QED
  BY <1>2, <1>3, NilOrSome DEF OwnContexts, SomeDefaults

(* What the final run applies is a security context.                       *)
LEMMA RecommendedType ==
  ASSUME recommendation \in SomeDefaults
  PROVE  GetRecommendedSecurityContext \in Defaults
<1>1. recommendation.pod \in SomePods /\ recommendation.container \in SomeContainers
  BY DEF SomeDefaults
<1>2. /\ [recommendation.pod EXCEPT !["seccompProfile"] = {}] \in SomePods
      /\ [recommendation.container EXCEPT !["seccompProfile"] = {}] \in SomeContainers
  BY <1>1 DEF SomePods, SomeContainers
<1>3. QED
  BY <1>2, BaseTypes DEF GetRecommendedSecurityContext, SomeDefaults

(* Every step keeps the type invariant.                                    *)
LEMMA TypeInvStep ==
  ASSUME TypeInv, [Next]_vars
  PROVE  TypeInv'
<1> USE DEF TypeInv, TypeOK
<1>1. Checks \subseteq Runs /\ "baseline" \in Runs /\ "Final" \in Runs
  BY DEF Runs
<1>2. spec \in Defaults
  BY InputsAssumption
<1>3. CASE RecordBaseline
  <2>1. Hardened(spec) \in PodTemplates
    BY <1>2, HardenedType
  <2>2. QED
    BY <1>1, <1>3, <2>1, RunNames DEF RecordBaseline
<1>4. CASE RecordChecks
  BY <1>4 DEF RecordChecks, Required
<1>5. ASSUME NEW k \in Checks, StartCheck(k) PROVE TypeInv'
  <2>1. Usable(k, BaseOf(k))
    BY <1>5 DEF StartCheck, Usable
  <2>2. GetSecurityContextDefaults(k, BaseOf(k)) \in Defaults
    BY <2>1, BaseOfType, CheckFills
  <2>3. HandedObject(k) \in Checks
    BY BaseOfType
  <2>4. QED
    BY <1>1, <1>5, <2>2, <2>3 DEF StartCheck
<1>6. ASSUME NEW k \in Checks, ReconcilePanics(k) PROVE TypeInv'
  BY <1>6 DEF ReconcilePanics
<1>7. ASSUME NEW k \in Checks, ApplyCheck(k) PROVE TypeInv'
  <2>1. object[held[k]] \in Defaults
    BY <1>7 DEF ApplyCheck
  <2>2. Hardened(object[held[k]]) \in PodTemplates
    BY <2>1, HardenedType
  <2>3. QED
    BY <1>1, <1>7, <2>2 DEF ApplyCheck
<1>8. ASSUME NEW k \in Checks, RecordCheck(k) PROVE TypeInv'
  <2>1. object[held[k]] \in Defaults
    BY <1>8 DEF RecordCheck
  <2>2. QED
    BY <1>1, <1>8, <2>1 DEF RecordCheck
<1>9. ASSUME NEW k \in Checks, MergeCheck(k) PROVE TypeInv'
  <2>1. merge \in SomeDefaults
    BY <1>9 DEF MergeCheck
  <2>2. merge' \in SomeDefaults
    BY <1>9, <2>1, MergeIntoSome DEF MergeCheck
  <2>3. merge' # NilDefaults
    BY <2>2, SomeIsContext, NilOrSome DEF SomeDefaults, NilDefaults
  <2>4. QED
    BY <1>9, <2>2, <2>3, BaseTypes DEF MergeCheck
<1>10. CASE SetRecommendation
  <2>1. merge' \in SomeDefaults
    BY <1>10, OwnContextsSome DEF SetRecommendation
  <2>2. merge' # NilDefaults
    BY <2>1, SomeIsContext, NilOrSome DEF SomeDefaults, NilDefaults
  <2>3. QED
    BY <1>10, <2>1, <2>2, BaseTypes DEF SetRecommendation, Mergeable
<1>11. CASE WriteRecommendation
  BY <1>11, BaseTypes DEF WriteRecommendation
<1>12. CASE FinalRun
  <2>1. recommendation \in SomeDefaults
    BY <1>12 DEF FinalRun
  <2>2. Hardened(GetRecommendedSecurityContext) \in PodTemplates
    BY <2>1, RecommendedType, HardenedType
  <2>3. QED
    BY <1>1, <1>12, <2>2, RunNames DEF FinalRun
<1>13. CASE UNCHANGED vars
  BY <1>13 DEF vars
<1>14. QED
  BY <1>3, <1>4, <1>5, <1>6, <1>7, <1>8, <1>9, <1>10, <1>11, <1>12, <1>13 DEF Next


(* Every object, clone, report and recommendation is made of security      *)
(* contexts with the fields of the API, whatever the order of the runs.    *)
THEOREM ContextTypeCorrect == Spec => []TypeOK
<1>1. TypeInv => TypeOK
  BY DEF TypeInv
<1>2. QED
  BY <1>1, InitTypeInv, TypeInvStep, PTL DEF Spec

---------------------------------------------------------------------------
(* Checks do not share an object: sequential mode starts one per           *)
(* Reconcile, and without a spec every check gets a fresh object.          *)
NoSharing == RunMode = "sequential" \/ Specs = {NilDefaults}

Base == IF spec = NilDefaults THEN EmptyDefaults ELSE spec
Intended(k) == GetSecurityContextDefaults(k, Base)

OwnObject ==
  /\ \A k \in Checks : phase[k] # "none" =>
       held[k] = k /\ object[k] = Intended(k) /\ Usable(k, Base)
  /\ \A k \in todo : phase[k] = "none"
  /\ todo # {} /\ spec # NilDefaults => managers = "copy"

BaselineFirst ==
  /\ \A k \in Checks : phase[k] # "none" \/ k \in todo => phase["baseline"] = "ok"
  /\ phase["baseline"] # "none" => clone["baseline"] = Hardened(spec)

RunsAsIntended ==
  \A k \in Checks :
    /\ phase[k] \in {"applied", "ok", "bad"} => clone[k] = Hardened(Intended(k))
    /\ Ended(k) => stored[k] = Intended(k)

ObjectInv == TypeInv /\ OwnObject /\ BaselineFirst /\ RunsAsIntended

(* Initially no check holds an object.                                     *)
LEMMA InitObjectInv == Init => ObjectInv
<1> SUFFICES ASSUME Init PROVE ObjectInv
  OBVIOUS
<1>1. Checks \subseteq Runs /\ "baseline" \in Runs
  BY DEF Runs
<1>2. QED
  BY <1>1, InitTypeInv DEF Init, ObjectInv, OwnObject, BaselineFirst, RunsAsIntended, Ended

(* The definitions that depend on the template and the spec alone.         *)
LEMMA InputsFixed ==
  ASSUME [Next]_vars
  PROVE  template' = template /\ spec' = spec
BY DEF Next, vars, RecordBaseline, RecordChecks, StartCheck, ReconcilePanics,
       ApplyCheck, RecordCheck, MergeCheck, SetRecommendation,
       WriteRecommendation, FinalRun

(* Without sharing a check is handed an object of its own, filled in from  *)
(* the spec.                                                               *)
LEMMA HandedIsOwn ==
  ASSUME NoSharing, ObjectInv, NEW k \in todo
  PROVE  HandedObject(k) = k /\ BaseOf(k) = Base
<1>1. spec # NilDefaults => managers = "copy"
  BY DEF ObjectInv, OwnObject
<1>2. HandedObject(k) = k
  BY <1>1 DEF HandedObject
<1>3. QED
  BY <1>2 DEF BaseOf, Base

(* Without sharing no step touches the object of another check.            *)
LEMMA ObjectInvStep ==
  ASSUME NoSharing, ObjectInv, [Next]_vars
  PROVE  ObjectInv'
<1> USE DEF ObjectInv
<1>1. TypeInv'
  BY TypeInvStep
<1>2. template' = template /\ spec' = spec
  BY InputsFixed
<1>3. /\ \A k \in Checks : Intended(k)' = Intended(k)
      /\ \A k \in Checks : Usable(k, Base)' = Usable(k, Base)
      /\ \A s : Hardened(s)' = Hardened(s)
  BY <1>2 DEF Intended, Base, Hardened, Usable
<1>4. /\ Checks \subseteq Runs /\ "baseline" \in Runs
      /\ phase \in [Runs -> {"none", "started", "applied", "ok", "bad"}]
      /\ clone \in [Runs -> PodTemplates]
      /\ stored \in [Checks -> Defaults] /\ object \in [Checks -> Defaults]
      /\ held \in [Checks -> Checks \cup {"none"}]
  BY DEF Runs, TypeInv, TypeOK
<1>5. CASE UNCHANGED <<todo, managers, object, held, phase, clone, stored>>
  BY <1>1, <1>2, <1>3, <1>5 DEF OwnObject, BaselineFirst, RunsAsIntended, Ended
<1>6. CASE RecordBaseline
  <2>1. OwnObject'
    <3>1. \A k \in Checks : phase'[k] = phase[k]
      BY <1>4, <1>6, RunNames DEF RecordBaseline
    <3>2. UNCHANGED <<todo, managers, object, held>>
      BY <1>6 DEF RecordBaseline
    <3>3. todo \subseteq Checks
      BY DEF TypeInv, TypeOK
    <3>4. QED
      BY <1>2, <1>3, <3>1, <3>2, <3>3 DEF OwnObject
  <2>2. BaselineFirst'
    BY <1>2, <1>3, <1>4, <1>6, RunNames DEF RecordBaseline, BaselineFirst
  <2>3. RunsAsIntended'
    BY <1>3, <1>4, <1>6, RunNames DEF RecordBaseline, RunsAsIntended, Ended
  <2>4. QED
    BY <1>1, <2>1, <2>2, <2>3
<1>7. CASE RecordChecks
  <2>1. OwnObject'
    BY <1>2, <1>3, <1>4, <1>7 DEF RecordChecks, OwnObject
  <2>2. BaselineFirst' /\ RunsAsIntended'
    BY <1>2, <1>3, <1>4, <1>7 DEF RecordChecks, BaselineFirst, RunsAsIntended, Ended
  <2>3. QED
    BY <1>1, <2>1, <2>2
<1>8. ASSUME NEW k \in Checks, StartCheck(k) PROVE ObjectInv'
  <2>1. HandedObject(k) = k /\ BaseOf(k) = Base
    BY <1>8, HandedIsOwn DEF StartCheck
  <2>2. /\ object' = [object EXCEPT ![k] = Intended(k)]
        /\ held' = [held EXCEPT ![k] = k]
        /\ phase' = [phase EXCEPT ![k] = "started"]
        /\ Usable(k, Base)
        /\ phase[k] = "none"
    BY <1>8, <2>1 DEF StartCheck, Intended, Usable, OwnObject
  <2>3. todo' # {} /\ spec # NilDefaults => managers' = "copy"
    <3>1. CASE Specs = {NilDefaults}
      BY <3>1 DEF TypeInv, TypeOK
    <3>2. CASE RunMode = "sequential"
      BY <1>8, <3>2 DEF StartCheck
    <3>3. QED
      BY <3>1, <3>2 DEF NoSharing
  <2>4. /\ todo' \subseteq todo \ {k} \/ todo' = {}
        /\ clone' = clone /\ stored' = stored
        /\ phase["baseline"] = "ok"
    BY <1>8 DEF StartCheck, BaselineFirst
  <2>5. OwnObject'
    BY <1>2, <1>3, <1>4, <2>2, <2>3, <2>4 DEF OwnObject
  <2>6. BaselineFirst'
    BY <1>2, <1>3, <1>4, <2>2, <2>4, RunNames DEF BaselineFirst
  <2>7. RunsAsIntended'
    BY <1>3, <1>4, <2>2, <2>4 DEF RunsAsIntended, Ended
  <2>8. QED
    BY <1>1, <2>5, <2>6, <2>7
<1>9. ASSUME NEW k \in Checks, ReconcilePanics(k) PROVE ObjectInv'
  BY <1>1, <1>2, <1>3, <1>9
     DEF ReconcilePanics, OwnObject, BaselineFirst, RunsAsIntended, Ended
<1>10. ASSUME NEW k \in Checks, ApplyCheck(k) PROVE ObjectInv'
  <2>1. /\ clone' = [clone EXCEPT ![k] = Hardened(Intended(k))]
        /\ phase[k] = "started" /\ phase' = [phase EXCEPT ![k] = "applied"]
        /\ UNCHANGED <<todo, managers, object, held, stored>>
    BY <1>10 DEF ApplyCheck, OwnObject
  <2>2. OwnObject'
    BY <1>2, <1>3, <1>4, <2>1 DEF OwnObject
  <2>3. BaselineFirst'
    BY <1>2, <1>3, <1>4, <2>1, RunNames DEF BaselineFirst
  <2>4. RunsAsIntended'
    BY <1>3, <1>4, <2>1 DEF RunsAsIntended, Ended
  <2>5. QED
    BY <1>1, <2>2, <2>3, <2>4
<1>11. ASSUME NEW k \in Checks, RecordCheck(k) PROVE ObjectInv'
  <2>1. PICK outcome \in {"ok", "bad"} : phase' = [phase EXCEPT ![k] = outcome]
    BY <1>11 DEF RecordCheck
  <2>2. /\ stored' = [stored EXCEPT ![k] = Intended(k)]
        /\ phase[k] = "applied"
        /\ UNCHANGED <<todo, managers, object, held, clone>>
    BY <1>11 DEF RecordCheck, OwnObject
  <2>3. OwnObject'
    BY <1>2, <1>3, <1>4, <2>1, <2>2 DEF OwnObject
  <2>4. BaselineFirst'
    BY <1>2, <1>3, <1>4, <2>1, <2>2, RunNames DEF BaselineFirst
  <2>5. RunsAsIntended'
    BY <1>3, <1>4, <2>1, <2>2 DEF RunsAsIntended, Ended
  <2>6. QED
    BY <1>1, <2>3, <2>4, <2>5
<1>12. CASE FinalRun
  <2>1. OwnObject'
    <3>1. \A k \in Checks : phase'[k] = phase[k]
      BY <1>4, <1>12, RunNames DEF FinalRun
    <3>2. UNCHANGED <<todo, managers, object, held>>
      BY <1>12 DEF FinalRun
    <3>3. todo \subseteq Checks
      BY DEF TypeInv, TypeOK
    <3>4. QED
      BY <1>2, <1>3, <3>1, <3>2, <3>3 DEF OwnObject
  <2>2. BaselineFirst'
    BY <1>2, <1>3, <1>4, <1>12, RunNames DEF FinalRun, BaselineFirst
  <2>3. RunsAsIntended'
    BY <1>3, <1>4, <1>12, RunNames DEF FinalRun, RunsAsIntended, Ended
  <2>4. QED
    BY <1>1, <2>1, <2>2, <2>3
<1>13. QED
  BY <1>5, <1>6, <1>7, <1>8, <1>9, <1>10, <1>11, <1>12
     DEF Next, vars, MergeCheck, SetRecommendation, WriteRecommendation

(* The clone of a check differs from the baseline in the attributes of     *)
(* that check only.                                                        *)
LEMMA InvIsolates ==
  ASSUME ObjectInv
  PROVE  Isolated
<1> SUFFICES ASSUME NEW k \in Checks, phase[k] \in {"applied", "ok", "bad"},
                    NEW c \in Containers, NEW f \in AllFields \ AttributesOf(k)
             PROVE  Effective(clone[k], c, f) = Effective(clone["baseline"], c, f)
  BY DEF Isolated
<1>1. /\ clone[k] = Hardened(Intended(k)) /\ clone["baseline"] = Hardened(spec)
      /\ Usable(k, Base) /\ TypeOK
  BY DEF ObjectInv, RunsAsIntended, BaselineFirst, OwnObject, TypeInv
<1>2. spec \in Defaults
  BY <1>1, InputsAssumption DEF TypeOK
<1>3. Base \in Defaults
  BY <1>2, BaseTypes DEF Base
<1>4. /\ Intended(k) \in Defaults
      /\ Value(Intended(k).pod, f) = Value(Base.pod, f)
      /\ Value(Intended(k).container, f) = Value(Base.container, f)
  BY <1>1, <1>3, CheckFills DEF Intended
<1>5. Value(Base.pod, f) = Value(spec.pod, f) /\ Value(Base.container, f) = Value(spec.container, f)
  BY DEF Base, Value, EmptyDefaults, NilDefaults, EmptyPod, EmptyContainer, NilContext
<1>6. Value(clone[k].pod, f) = Value(clone["baseline"].pod, f)
  <2>1. Value(Hardened(Intended(k)).pod, f)
          = Or(Value(template.pod, f), Value(Intended(k).pod, f))
    BY <1>1, <1>4, HardenedValues
  <2>2. Value(Hardened(spec).pod, f) = Or(Value(template.pod, f), Value(spec.pod, f))
    BY <1>1, <1>2, HardenedValues
  <2>3. QED
    BY <1>1, <1>4, <1>5, <2>1, <2>2
<1>7. Value(clone[k].containers[c], f) = Value(clone["baseline"].containers[c], f)
  <2> DEFINE t == template.containers[c]
             Merged(v) == IF f = "runAsNonRoot" /\ ~IsNil(t) THEN Value(t, f)
                          ELSE IF f = "capabilitiesDrop" THEN Value(t, f) \cup v
                          ELSE Or(Value(t, f), v)
  <2>1. /\ Value(Hardened(Intended(k)).containers[c], f) = Merged(Value(Intended(k).container, f))
        /\ Value(Hardened(spec).containers[c], f) = Merged(Value(spec.container, f))
    BY <1>1, <1>2, <1>4, HardenedValues
  <2>2. QED
    BY <1>1, <1>4, <1>5, <2>1
<1>8. QED
  BY <1>6, <1>7 DEF Effective, Value

(* The impact of a check is isolated, for every template and spec, as long *)
(* as checks share no object.                                              *)
THEOREM ChecksIsolated == ASSUME NoSharing PROVE Spec => []Isolated
<1>1. QED
  BY InvIsolates, InitObjectInv, ObjectInvStep, PTL DEF Spec


---------------------------------------------------------------------------
(* What was merged so far keeps the workload's own values, and has every   *)
(* other value from the clone of a check that went well.                   *)
PodSurvived(p) ==
  \A f : /\ Value(template.pod, f) # {} => Value(p, f) = Value(template.pod, f)
         /\ Value(p, f) # {} =>
              \/ Value(p, f) = Value(template.pod, f)
              \/ \E k \in Survived : Value(p, f) = Value(clone[k].pod, f)

ContainerSurvived(s) ==
  \A f : /\ Value(template.containers[Main], f) \subseteq Value(s, f)
         /\ \A v \in Value(s, f) :
              \/ v \in Value(template.containers[Main], f)
              \/ \E k \in Survived : v \in Value(clone[k].containers[Main], f)

MergeInv ==
  /\ ObjectInv
  /\ merging \subseteq Survived
  /\ merge # NilDefaults => PodSurvived(merge.pod) /\ ContainerSurvived(merge.container)
  /\ recommendation # NilDefaults => recommendation = merge /\ merging = {}

(* Initially nothing is merged.                                            *)
LEMMA InitMergeInv == Init => MergeInv
BY InitObjectInv DEF Init, MergeInv

(* A check that went well stays so, and so does its clone.                 *)
LEMMA SurvivedStays ==
  ASSUME ObjectInv, [Next]_vars
  PROVE  /\ Survived \subseteq Survived'
         /\ \A k \in Survived : clone'[k] = clone[k]
<1>1. /\ Checks \subseteq Runs
      /\ phase \in [Runs -> {"none", "started", "applied", "ok", "bad"}]
      /\ clone \in [Runs -> PodTemplates]
      /\ \A k \in todo : phase[k] = "none"
  BY DEF Runs, ObjectInv, OwnObject, TypeInv, TypeOK
<1> SUFFICES ASSUME NEW j \in Checks, phase[j] = "ok"
             PROVE  phase'[j] = "ok" /\ clone'[j] = clone[j]
  BY DEF Survived
<1>2. CASE RecordBaseline
  BY <1>1, <1>2, RunNames DEF RecordBaseline
<1>3. ASSUME NEW k \in Checks, StartCheck(k)
      PROVE  phase'[j] = "ok" /\ clone'[j] = clone[j]
  BY <1>1, <1>3 DEF StartCheck
<1>4. ASSUME NEW k \in Checks, ApplyCheck(k)
      PROVE  phase'[j] = "ok" /\ clone'[j] = clone[j]
  BY <1>1, <1>4 DEF ApplyCheck
<1>5. ASSUME NEW k \in Checks, RecordCheck(k)
      PROVE  phase'[j] = "ok" /\ clone'[j] = clone[j]
  BY <1>1, <1>5 DEF RecordCheck
<1>6. CASE FinalRun
  BY <1>1, <1>6, RunNames DEF FinalRun
<1>7. QED
  BY <1>2, <1>3, <1>4, <1>5, <1>6
     DEF Next, vars, RecordChecks, ReconcilePanics, MergeCheck,
         SetRecommendation, WriteRecommendation

(* The merge begins with the contexts of the manifest.                     *)
LEMMA OwnSurvived ==
  ASSUME TypeInv
  PROVE  PodSurvived(OwnContexts.pod) /\ ContainerSurvived(OwnContexts.container)
<1>1. \A f : Value(OwnContexts.pod, f) = Value(template.pod, f)
  BY DEF OwnContexts, Value, EmptyPod, IsNil
<1>2. \A f : Value(OwnContexts.container, f) = Value(template.containers[Main], f)
  BY DEF OwnContexts, Value, EmptyContainer, IsNil
<1>3. QED
  BY <1>1, <1>2 DEF PodSurvived, ContainerSurvived

(* Merging the report of a check that went well keeps both.                *)
LEMMA MergeSurvived ==
  ASSUME MergeInv, merge \in SomeDefaults, NEW k \in merging
  PROVE  /\ PodSurvived(MergeInto(merge, stored[k]).pod)
         /\ ContainerSurvived(MergeInto(merge, stored[k]).container)
<1> DEFINE e == stored[k]
           t == template.containers[Main]
<1>1. /\ k \in Survived /\ k \in Checks /\ TypeOK
      /\ clone[k] = Hardened(e)
  BY DEF MergeInv, ObjectInv, RunsAsIntended, Survived, Ended, TypeInv
<1>2. e \in Defaults
  BY <1>1 DEF TypeOK
<1>3. /\ e.pod \in PodContexts /\ e.container \in ContainerContexts
      /\ merge.pod \in PodContexts /\ merge.container \in ContainerContexts
      /\ ~IsNil(merge.container)
  BY <1>2, SomeIsContext DEF Defaults, SomeDefaults
<1>4. Main \in Containers
  BY ContextsAssumption
<1>5. PodSurvived(merge.pod) /\ ContainerSurvived(merge.container)
  <2>1. merge # NilDefaults
    BY SomeIsContext, NilOrSome DEF SomeDefaults, NilDefaults
  <2>2. QED
    BY <2>1 DEF MergeInv
<1>6. PodSurvived(MergePod(merge.pod, e.pod))
  <2> SUFFICES ASSUME NEW f
               PROVE  LET w == Value(MergePod(merge.pod, e.pod), f)
                      IN  /\ Value(template.pod, f) # {} => w = Value(template.pod, f)
                          /\ w # {} =>
                               \/ w = Value(template.pod, f)
                               \/ \E j \in Survived : w = Value(clone[j].pod, f)
    BY DEF PodSurvived
  <2>1. Value(MergePod(merge.pod, e.pod), f) = Or(Value(merge.pod, f), Value(e.pod, f))
    BY <1>3, MergePodValue
  <2>2. Value(clone[k].pod, f) = Or(Value(template.pod, f), Value(e.pod, f))
    BY <1>1, <1>2, <1>4, HardenedValues
  <2>3. CASE Value(merge.pod, f) # {}
    BY <1>5, <2>1, <2>3 DEF Or, PodSurvived
  <2>4. CASE Value(merge.pod, f) = {}
    <3>1. Value(template.pod, f) = {}
      BY <1>5, <2>4 DEF PodSurvived
    <3>2. QED
      BY <1>1, <2>1, <2>2, <2>4, <3>1 DEF Or
  <2>5. QED
    BY <2>3, <2>4
<1>7. ContainerSurvived(MergeContainer(merge.container, e.container))
  <2> SUFFICES ASSUME NEW f
               PROVE  LET w == Value(MergeContainer(merge.container, e.container), f)
                      IN  /\ Value(t, f) \subseteq w
                          /\ \A v \in w :
                               \/ v \in Value(t, f)
                               \/ \E j \in Survived : v \in Value(clone[j].containers[Main], f)
    BY DEF ContainerSurvived
  <2> DEFINE m == Value(merge.container, f)
             a == Value(e.container, f)
             w == Value(MergeContainer(merge.container, e.container), f)
             b == Value(clone[k].containers[Main], f)
  <2>1. w = IF f = "runAsNonRoot" /\ ~IsNil(merge.container) THEN m
            ELSE IF f = "capabilitiesDrop" THEN m \cup a ELSE Or(m, a)
    BY <1>3, MergeContainerValue
  <2>2. b = IF f = "runAsNonRoot" /\ ~IsNil(t) THEN Value(t, f)
            ELSE IF f = "capabilitiesDrop" THEN Value(t, f) \cup a
            ELSE Or(Value(t, f), a)
    <3>1. Value(Hardened(e).containers[Main], f) =
            IF f = "runAsNonRoot" /\ ~IsNil(t) THEN Value(t, f)
            ELSE IF f = "capabilitiesDrop" THEN Value(t, f) \cup a
            ELSE Or(Value(t, f), a)
      BY <1>1, <1>2, <1>4, HardenedValues
    <3>2. b = Value(Hardened(e).containers[Main], f)
      BY <1>1
    <3>3. QED
      BY <3>1, <3>2
  <2>3. /\ Value(t, f) \subseteq m
        /\ \A v \in m : \/ v \in Value(t, f)
                        \/ \E j \in Survived : v \in Value(clone[j].containers[Main], f)
    BY <1>5 DEF ContainerSurvived
  <2> HIDE DEF m, a, w, b
  <2>4. m \subseteq w
    BY <1>3, <2>1 DEF Or
  <2>5. \A v \in w : v \in m \/ v \in b
    <3>1. CASE f = "runAsNonRoot"
      BY <1>3, <2>1, <3>1
    <3>2. CASE f = "capabilitiesDrop"
      BY <2>1, <2>2, <3>2
    <3>3. CASE f # "runAsNonRoot" /\ f # "capabilitiesDrop" /\ m # {}
      BY <2>1, <3>3 DEF Or
    <3>4. CASE f # "runAsNonRoot" /\ f # "capabilitiesDrop" /\ m = {}
      <4>1. Value(t, f) = {}
        BY <2>3, <3>4
      <4>2. w = a /\ b = a
        BY <2>1, <2>2, <3>4, <4>1 DEF Or
      <4>3. QED
        BY <4>2
    <3>5. QED
      BY <3>1, <3>2, <3>3, <3>4
  <2>6. Value(t, f) \subseteq w
    BY <2>3, <2>4
  <2>7. \A v \in w : \/ v \in Value(t, f)
                     \/ \E j \in Survived : v \in Value(clone[j].containers[Main], f)
    BY <1>1, <2>3, <2>5 DEF b
  <2>8. QED
    BY <2>6, <2>7 DEF w
<1>8. QED
  BY <1>6, <1>7 DEF MergeInto

(* Without sharing every step keeps what was merged among what survived.   *)
LEMMA MergeInvStep ==
  ASSUME NoSharing, MergeInv, [Next]_vars
  PROVE  MergeInv'
<1>1. ObjectInv' /\ TypeInv /\ TypeInv'
  BY ObjectInvStep, TypeInvStep DEF MergeInv, ObjectInv
<1>2. Survived \subseteq Survived'
  BY SurvivedStays DEF MergeInv
<1>3. CASE UNCHANGED <<merging, merge, recommendation>>
  <2>1. merge # NilDefaults => merge \in SomeDefaults
    BY <1>1 DEF TypeInv
  <2>2. merge # NilDefaults =>
          PodSurvived(merge.pod)' /\ ContainerSurvived(merge.container)'
    <3>1. SUFFICES ASSUME merge # NilDefaults
                   PROVE  PodSurvived(merge.pod)' /\ ContainerSurvived(merge.container)'
      OBVIOUS
    <3>2. PodSurvived(merge.pod) /\ ContainerSurvived(merge.container)
      BY <3>1 DEF MergeInv
    <3>3. QED
      BY <1>1, <1>3, <2>1, <3>1, <3>2, SurvivedStays, InputsFixed
         DEF MergeInv, PodSurvived, ContainerSurvived
  <2>3. QED
    BY <1>1, <1>2, <1>3, <2>2 DEF MergeInv
<1>4. ASSUME NEW k \in Checks, MergeCheck(k) PROVE MergeInv'
  <2>1. merge \in SomeDefaults /\ k \in merging
    BY <1>1, <1>4 DEF MergeCheck, TypeInv
  <2>2. /\ merge' = MergeInto(merge, stored[k])
        /\ UNCHANGED <<template, phase, clone, recommendation>>
        /\ merging' \subseteq merging
    BY <1>4 DEF MergeCheck
  <2>3. PodSurvived(merge'.pod) /\ ContainerSurvived(merge'.container)
    BY <2>1, <2>2, MergeSurvived
  <2>4. PodSurvived(merge.pod)' /\ ContainerSurvived(merge.container)'
    BY <2>2, <2>3 DEF PodSurvived, ContainerSurvived, Survived
  <2>5. recommendation = NilDefaults
    BY <2>1 DEF MergeInv
  <2>6. QED
    BY <1>1, <1>2, <2>2, <2>4, <2>5 DEF MergeInv
<1>5. CASE SetRecommendation
  <2>1. /\ merge' = OwnContexts /\ merging' = Survived
        /\ merge = NilDefaults
        /\ UNCHANGED <<template, phase, clone, recommendation>>
    BY <1>5 DEF SetRecommendation, Mergeable, Survived
  <2>2. PodSurvived(merge'.pod) /\ ContainerSurvived(merge'.container)
    BY <1>1, <2>1, OwnSurvived
  <2>3. PodSurvived(merge.pod)' /\ ContainerSurvived(merge.container)'
    BY <2>1, <2>2 DEF PodSurvived, ContainerSurvived, Survived
  <2>4. recommendation = NilDefaults
    BY <2>1 DEF MergeInv
  <2>5. QED
    BY <1>1, <1>2, <2>1, <2>3, <2>4 DEF MergeInv
<1>6. CASE WriteRecommendation
  <2>1. /\ recommendation' = merge /\ UNCHANGED <<template, phase, clone, merging, merge>>
    BY <1>6 DEF WriteRecommendation
  <2>2. merge # NilDefaults =>
          PodSurvived(merge.pod)' /\ ContainerSurvived(merge.container)'
    BY <2>1 DEF MergeInv, PodSurvived, ContainerSurvived, Survived
  <2>3. QED
    BY <1>1, <1>2, <2>1, <2>2, <1>6 DEF MergeInv, WriteRecommendation
<1>7. QED
  BY <1>3, <1>4, <1>5, <1>6
     DEF Next, vars, RecordBaseline, RecordChecks, StartCheck, ReconcilePanics,
         ApplyCheck, RecordCheck, FinalRun

(* A recommendation is what was merged in the end.                         *)
LEMMA InvSurvived ==
  ASSUME MergeInv
  PROVE  RecommendationSurvived
<1> SUFFICES ASSUME recommendation # NilDefaults PROVE RecommendationSurvived
  BY DEF RecommendationSurvived
<1>1. /\ recommendation = merge /\ recommendation \in SomeDefaults
      /\ PodSurvived(recommendation.pod) /\ ContainerSurvived(recommendation.container)
  BY DEF MergeInv, ObjectInv, TypeInv
<1>2. /\ \A f \in PodFields : Value(recommendation.pod, f) = recommendation.pod[f]
      /\ \A f \in ContainerFields :
           Value(recommendation.container, f) = recommendation.container[f]
  BY <1>1 DEF SomeDefaults, SomePods, SomeContainers, Value
<1>3. ASSUME NEW f \in PodFields, recommendation.pod[f] # {}
      PROVE  \E u \in {template} \cup {clone[k] : k \in Survived} :
               Sets(u.pod, f) /\ u.pod[f] = recommendation.pod[f]
  <2>1. PICK u \in {template} \cup {clone[k] : k \in Survived} :
          Value(u.pod, f) = recommendation.pod[f]
    BY <1>1, <1>2, <1>3 DEF PodSurvived
  <2>2. QED
    BY <1>3, <2>1 DEF Value, Sets
<1>4. ASSUME NEW f \in ContainerFields, NEW v \in recommendation.container[f]
      PROVE  \E u \in {template} \cup {clone[k] : k \in Survived} :
               Sets(u.containers[Main], f) /\ v \in u.containers[Main][f]
  <2>1. PICK u \in {template} \cup {clone[k] : k \in Survived} :
          v \in Value(u.containers[Main], f)
    BY <1>1, <1>2, <1>4 DEF ContainerSurvived
  <2>2. QED
    BY <2>1 DEF Value, Sets
<1>5. QED
  BY <1>3, <1>4 DEF RecommendationSurvived

(* Nothing is recommended that the workload does not set itself or did not *)
(* survive in the clone of some check, in whatever order Go's map hands    *)
(* the checks to the merge.                                                *)
THEOREM OnlySurvivedRecommended ==
  ASSUME NoSharing PROVE Spec => []RecommendationSurvived
<1>1. QED
  BY InvSurvived, InitMergeInv, MergeInvStep, PTL DEF Spec

---------------------------------------------------------------------------
(* From here on checks may share their objects.  What a check adds to a    *)
(* security context, field by field.                                       *)
UserOf(s) == Or(Value(s.pod, "runAsUser"), {"1000"})
GroupOf(s) == Or(Value(s.pod, "runAsGroup"), UserOf(s))

PodFill(k, s, f) ==
  IF k = "user" /\ f = "runAsUser" THEN {"1000"}
  ELSE IF k = "user" /\ f = "runAsNonRoot" THEN {"true"}
  ELSE IF k = "group" /\ f = "runAsUser" THEN UserOf(s)
  ELSE IF k = "group" /\ f \in {"runAsGroup", "fsGroup"} THEN GroupOf(s)
  ELSE {}

ContainerFill(k, s, f) ==
  IF k = "user" /\ f = "runAsUser" THEN {"1000"}
  ELSE IF k = "user" /\ f = "runAsNonRoot" THEN {"true"}
  ELSE IF k = "group" /\ f = "runAsUser" THEN UserOf(s)
  ELSE IF k = "group" /\ f = "runAsGroup" THEN GroupOf(s)
  ELSE IF k = "readOnlyRootFilesystem" /\ f = k THEN {"true"}
  ELSE IF k = "allowPrivilegeEscalation" /\ f = k THEN {"false"}
  ELSE IF k = "dropAllCapabilities" /\ f = "capabilitiesDrop" THEN {"ALL"}
  ELSE {}

(* Filling in a field, for either half.                                    *)
LEMMA FillValue ==
  ASSUME NEW c, NEW D, c \in [D -> SUBSET FieldValues], NEW f \in D, NEW v, NEW g
  PROVE  Value(Fill(c, f, v), g) = IF g = f THEN Or(Value(c, g), v) ELSE Value(c, g)
BY DEF Fill, Or, Value

(* A check fills in its own attributes where they are nil.                 *)
LEMMA CheckValues ==
  ASSUME NEW k \in Checks, NEW s \in Defaults, Usable(k, s), NEW f
  PROVE  LET d == GetSecurityContextDefaults(k, s)
         IN  /\ Value(d.pod, f) = Or(Value(s.pod, f), PodFill(k, s, f))
             /\ Value(d.container, f) = Or(Value(s.container, f), ContainerFill(k, s, f))
<1> DEFINE d == GetSecurityContextDefaults(k, s)
<1>1. s.pod \in PodContexts /\ s.container \in SomeContainers
  BY NilOrSome DEF Defaults, Usable, Dereferences
<1>2. k \in {"user", "group"} => s.pod \in SomePods
  BY <1>1, NilOrSome DEF Usable, Dereferences
<1>3. /\ {"1000"} \in SUBSET FieldValues /\ {"true"} \in SUBSET FieldValues
      /\ {"false"} \in SUBSET FieldValues /\ {"ALL"} \in SUBSET FieldValues
  BY ContextsAssumption
<1>4. \A v : Or(v, {}) = v
  BY DEF Or
<1>5. CASE k = "user"
  <2> DEFINE p == Fill(s.pod, "runAsUser", {"1000"})
             c == Fill(s.container, "runAsUser", {"1000"})
  <2>1. /\ "runAsUser" \in PodFields /\ "runAsNonRoot" \in PodFields
        /\ "runAsUser" \in ContainerFields /\ "runAsNonRoot" \in ContainerFields
    BY DEF PodFields, ContainerFields
  <2>2. p \in SomePods /\ c \in SomeContainers
    BY <1>1, <1>2, <1>3, <1>5, <2>1, FillPod, FillContainer
  <2>3. d = [pod |-> Fill(p, "runAsNonRoot", {"true"}),
             container |-> Fill(c, "runAsNonRoot", {"true"})]
    BY <1>5 DEF GetSecurityContextDefaults, UserCheck
  <2>4. /\ Value(p, f) = IF f = "runAsUser" THEN Or(Value(s.pod, f), {"1000"})
                         ELSE Value(s.pod, f)
        /\ Value(c, f) = IF f = "runAsUser" THEN Or(Value(s.container, f), {"1000"})
                         ELSE Value(s.container, f)
    BY <1>1, <1>2, <1>5, <2>1, FillValue DEF SomePods, SomeContainers
  <2> HIDE DEF p, c
  <2>5. /\ Value(d.pod, f) = IF f = "runAsNonRoot" THEN Or(Value(p, f), {"true"})
                             ELSE Value(p, f)
        /\ Value(d.container, f) = IF f = "runAsNonRoot" THEN Or(Value(c, f), {"true"})
                                   ELSE Value(c, f)
    BY <2>1, <2>2, <2>3, FillValue DEF SomePods, SomeContainers
  <2> HIDE DEF d
  <2>6. QED
    BY <1>4, <1>5, <2>4, <2>5 DEF PodFill, ContainerFill, d
<1>6. CASE k = "group"
  <2> DEFINE user == Or(s.pod["runAsUser"], {"1000"})
             group == Or(s.pod["runAsGroup"], user)
             c == Fill(s.container, "runAsUser", user)
  <2>1. /\ "runAsUser" \in PodFields /\ "runAsGroup" \in PodFields /\ "fsGroup" \in PodFields
        /\ "runAsUser" \in ContainerFields /\ "runAsGroup" \in ContainerFields
    BY DEF PodFields, ContainerFields
  <2>2. s.pod \in SomePods
    BY <1>2, <1>6
  <2>3. user = UserOf(s) /\ group = GroupOf(s)
    BY <2>1, <2>2 DEF UserOf, GroupOf, Value, SomePods
  <2>4. user \in SUBSET FieldValues
    BY <1>3, <2>1, <2>2 DEF SomePods, Or
  <2>5. c \in SomeContainers
    BY <1>1, <2>1, <2>4, FillContainer
  <2>6. d = [pod |-> [s.pod EXCEPT !["runAsUser"] = user, !["runAsGroup"] = group,
                                   !["fsGroup"] = Or(@, group)],
             container |-> Fill(c, "runAsGroup", group)]
    BY <1>6 DEF GetSecurityContextDefaults, GroupCheck
  <2>7. Value(c, f) = IF f = "runAsUser" THEN Or(Value(s.container, f), user)
                      ELSE Value(s.container, f)
    BY <1>1, <2>1, FillValue DEF SomeContainers
  <2>8. user = Or(s.pod["runAsUser"], user) /\ group = Or(s.pod["runAsGroup"], group)
    BY DEF Or
  <2> HIDE DEF user, group, c
  <2>9. Value(d.container, f) = IF f = "runAsGroup" THEN Or(Value(c, f), group)
                                ELSE Value(c, f)
    BY <2>1, <2>5, <2>6, FillValue DEF SomeContainers
  <2>10. Value(d.pod, f) = IF f = "runAsUser" THEN Or(Value(s.pod, f), user)
                           ELSE IF f \in {"runAsGroup", "fsGroup"} THEN Or(Value(s.pod, f), group)
                           ELSE Value(s.pod, f)
    BY <2>1, <2>2, <2>6, <2>8 DEF Value, SomePods
  <2> HIDE DEF d
  <2>11. QED
    BY <1>4, <1>6, <2>3, <2>7, <2>9, <2>10 DEF PodFill, ContainerFill, d
<1>7. ASSUME NEW g \in ContainerFields, NEW v,
             d = ContainerCheck(s, g, v), k \notin {"user", "group"},
             ContainerFill(k, s, f) = IF f = g THEN v ELSE {}
      PROVE  /\ Value(d.pod, f) = Or(Value(s.pod, f), PodFill(k, s, f))
             /\ Value(d.container, f) = Or(Value(s.container, f), ContainerFill(k, s, f))
  <2>1. d.pod = s.pod /\ d.container = Fill(s.container, g, v)
    BY <1>7 DEF ContainerCheck
  <2>2. Value(Fill(s.container, g, v), f) = IF f = g THEN Or(Value(s.container, f), v)
                                            ELSE Value(s.container, f)
    BY <1>1, FillValue DEF SomeContainers
  <2> HIDE DEF d
  <2>3. QED
    BY <1>4, <1>7, <2>1, <2>2 DEF PodFill
<1>8. CASE k = "readOnlyRootFilesystem"
  <2>1. k \in ContainerFields
    BY <1>8 DEF ContainerFields
  <2>2. d = ContainerCheck(s, k, {"true"})
    BY <1>8 DEF GetSecurityContextDefaults
  <2>3. ContainerFill(k, s, f) = IF f = k THEN {"true"} ELSE {}
    BY <1>8 DEF ContainerFill
  <2>4. QED
    BY <1>7, <1>8, <2>1, <2>2, <2>3
<1>9. CASE k = "allowPrivilegeEscalation"
  <2>1. k \in ContainerFields
    BY <1>9 DEF ContainerFields
  <2>2. d = ContainerCheck(s, k, {"false"})
    BY <1>9 DEF GetSecurityContextDefaults
  <2>3. ContainerFill(k, s, f) = IF f = k THEN {"false"} ELSE {}
    BY <1>9 DEF ContainerFill
  <2>4. QED
    BY <1>7, <1>9, <2>1, <2>2, <2>3
<1>10. CASE k = "dropAllCapabilities"
  <2>1. "capabilitiesDrop" \in ContainerFields
    BY DEF ContainerFields
  <2>2. d = ContainerCheck(s, "capabilitiesDrop", {"ALL"})
    BY <1>10 DEF GetSecurityContextDefaults
  <2>3. ContainerFill(k, s, f) = IF f = "capabilitiesDrop" THEN {"ALL"} ELSE {}
    BY <1>10 DEF ContainerFill
  <2>4. QED
    BY <1>7, <1>10, <2>1, <2>2, <2>3
<1>11. k \in CheckTypes
  BY ContextsAssumption
<1>12. QED
  BY <1>5, <1>6, <1>8, <1>9, <1>10, <1>11 DEF CheckTypes

---------------------------------------------------------------------------
(* A field is restricted by a security context whatever it is merged into: *)
(* the merge ignores RunAsNonRoot of a container.                          *)
Restricts(s, f) == \/ Value(s.pod, f) # {}
                   \/ (f # "runAsNonRoot" /\ Value(s.container, f) # {})

(* What a security context may have of each field when checks have filled  *)
(* in the spec, in any order.                                              *)
PodTarget(f) ==
  Or(Value(spec.pod, f), IF f = "runAsUser" THEN {"1000"}
                         ELSE IF f \in {"runAsGroup", "fsGroup"} THEN GroupOf(spec)
                         ELSE IF f = "runAsNonRoot" THEN {"true"} ELSE {})

ContainerTargets(f) ==
  IF f = "runAsUser" THEN {{"1000"}, UserOf(spec)}
  ELSE IF f = "runAsGroup" THEN {GroupOf(spec)}
  ELSE IF f \in {"runAsNonRoot", "readOnlyRootFilesystem"} THEN {{"true"}}
  ELSE IF f = "allowPrivilegeEscalation" THEN {{"false"}} ELSE {{}}

Derived(s) ==
  /\ \A f : Value(s.pod, f) = Value(spec.pod, f) \/ Value(s.pod, f) = PodTarget(f)
  /\ \A f : f # "capabilitiesDrop" =>
       \/ Value(s.container, f) = Value(spec.container, f)
       \/ \E v \in ContainerTargets(f) :
            Value(s.container, f) = Or(Value(spec.container, f), v)
  /\ Value(s.container, "capabilitiesDrop")
       \subseteq Value(spec.container, "capabilitiesDrop") \cup {"ALL"}

(* A check keeps what is restricted, restricts what it is about and stays  *)
(* within what can be made of the spec.                                    *)
LEMMA CheckRestricts ==
  ASSUME NEW k \in Checks, NEW s \in Defaults, Usable(k, s), NEW f
  PROVE  /\ Restricts(s, f) => Restricts(GetSecurityContextDefaults(k, s), f)
         /\ f \in AttributesOf(k) => Restricts(GetSecurityContextDefaults(k, s), f)
<1> DEFINE d == GetSecurityContextDefaults(k, s)
<1>1. /\ Value(d.pod, f) = Or(Value(s.pod, f), PodFill(k, s, f))
      /\ Value(d.container, f) = Or(Value(s.container, f), ContainerFill(k, s, f))
  BY CheckValues
<1> HIDE DEF d
<1>2. Restricts(s, f) => Restricts(d, f)
  BY <1>1 DEF Restricts, Or
<1>3. UserOf(s) # {} /\ GroupOf(s) # {}
  BY DEF UserOf, GroupOf, Or
<1>4. ASSUME f \in AttributesOf(k)
      PROVE  \/ PodFill(k, s, f) # {}
             \/ (f # "runAsNonRoot" /\ ContainerFill(k, s, f) # {})
  <2>1. k \in CheckTypes
    BY ContextsAssumption
  <2>2. QED
    BY <1>3, <1>4, <2>1 DEF CheckTypes, AttributesOf, PodFill, ContainerFill
<1>5. f \in AttributesOf(k) => Restricts(d, f)
  BY <1>1, <1>4 DEF Restricts, Or
<1>6. QED
  BY <1>2, <1>5 DEF d

(* The spec is made of the spec.                                           *)
LEMMA SpecDerived ==
  ASSUME TypeOK
  PROVE  Derived(spec) /\ Derived(Base)
<1>1. \A f : Value(Base.pod, f) = Value(spec.pod, f) /\ Value(Base.container, f) = Value(spec.container, f)
  BY DEF Base, Value, EmptyDefaults, NilDefaults, EmptyPod, EmptyContainer, NilContext
<1>2. QED
  BY <1>1 DEF Derived

(* A check that fills in what was made of the spec yields what can be made *)
(* of it: it reads the user and the group another one may have filled in.  *)
LEMMA CheckDerived ==
  ASSUME NEW k \in Checks, NEW s \in Defaults, Usable(k, s), Derived(s)
  PROVE  Derived(GetSecurityContextDefaults(k, s))
<1> DEFINE d == GetSecurityContextDefaults(k, s)
<1>1. \A f : /\ Value(d.pod, f) = Or(Value(s.pod, f), PodFill(k, s, f))
             /\ Value(d.container, f) = Or(Value(s.container, f), ContainerFill(k, s, f))
  BY CheckValues
<1> HIDE DEF d
<1>2. UserOf(s) = UserOf(spec)
  BY DEF UserOf, Derived, PodTarget, Or
<1>3. GroupOf(s) = GroupOf(spec)
  BY <1>2 DEF GroupOf, Derived, PodTarget, Or
<1>4. ASSUME NEW f
      PROVE  Value(d.pod, f) = Value(spec.pod, f) \/ Value(d.pod, f) = PodTarget(f)
  <2>1. Value(s.pod, f) = Value(spec.pod, f) \/ Value(s.pod, f) = PodTarget(f)
    BY DEF Derived
  <2>2. \/ PodFill(k, s, f) = {}
        \/ (PodFill(k, s, f) = UserOf(spec) /\ f = "runAsUser")
        \/ PodTarget(f) = Or(Value(spec.pod, f), PodFill(k, s, f))
    BY <1>2, <1>3 DEF PodFill, PodTarget
  <2>3. f = "runAsUser" => PodTarget(f) = UserOf(spec)
    BY DEF PodTarget, UserOf
  <2>4. PodFill(k, s, f) = {} => Value(d.pod, f) = Value(s.pod, f)
    BY <1>1 DEF Or
  <2>5. CASE PodFill(k, s, f) = UserOf(spec) /\ f = "runAsUser"
    BY <1>1, <2>1, <2>3, <2>5 DEF Or, UserOf
  <2>6. CASE PodTarget(f) = Or(Value(spec.pod, f), PodFill(k, s, f))
    BY <1>1, <2>1, <2>6 DEF Or
  <2>7. QED
    BY <2>1, <2>2, <2>4, <2>5, <2>6
<1>5. ASSUME NEW f, f # "capabilitiesDrop"
      PROVE  \/ Value(d.container, f) = Value(spec.container, f)
             \/ \E v \in ContainerTargets(f) :
                  Value(d.container, f) = Or(Value(spec.container, f), v)
  <2>1. \/ Value(s.container, f) = Value(spec.container, f)
        \/ \E v \in ContainerTargets(f) :
             Value(s.container, f) = Or(Value(spec.container, f), v)
    BY <1>5 DEF Derived
  <2>2. ContainerFill(k, s, f) = {} \/ ContainerFill(k, s, f) \in ContainerTargets(f)
    BY <1>2, <1>3, <1>5 DEF ContainerFill, ContainerTargets
  <2>3. Value(d.container, f) = Or(Value(s.container, f), ContainerFill(k, s, f))
    BY <1>1
  <2>4. CASE ContainerFill(k, s, f) = {} \/ Value(s.container, f) # {}
    BY <2>1, <2>3, <2>4 DEF Or
  <2>5. CASE ContainerFill(k, s, f) \in ContainerTargets(f) /\ Value(s.container, f) = {}
    <3>1. Value(spec.container, f) = {}
      BY <2>1, <2>5 DEF Or
    <3>2. Value(d.container, f) = Or(Value(spec.container, f), ContainerFill(k, s, f))
      BY <2>3, <2>5, <3>1
    <3>3. QED
      BY <2>5, <3>2
  <2>6. QED
    BY <2>2, <2>4, <2>5
<1>6. Value(d.container, "capabilitiesDrop")
        \subseteq Value(spec.container, "capabilitiesDrop") \cup {"ALL"}
  <2>1. ContainerFill(k, s, "capabilitiesDrop") \in {{}, {"ALL"}}
    BY DEF ContainerFill
  <2>2. Value(d.container, "capabilitiesDrop")
          = Or(Value(s.container, "capabilitiesDrop"), ContainerFill(k, s, "capabilitiesDrop"))
    BY <1>1
  <2>3. QED
    BY <2>1, <2>2 DEF Derived, Or
<1>7. QED
  BY <1>4, <1>5, <1>6 DEF Derived, d

---------------------------------------------------------------------------
(* A check that was started holds an object that restricts what the check  *)
(* is about, whoever else fills it in, and so does its report.             *)
HandInv ==
  /\ TypeInv
  /\ \A k \in Checks :
       /\ phase[k] = "none" => held[k] = "none"
       /\ phase[k] # "none" =>
            /\ phase[held[k]] # "none"
            /\ Derived(object[held[k]])
            /\ \A f \in AttributesOf(k) : Restricts(object[held[k]], f)
       /\ Ended(k) =>
            /\ Derived(stored[k])
            /\ \A f \in AttributesOf(k) : Restricts(stored[k], f)
       /\ phase[k] # "none" \/ k \in todo => k \in Required
       /\ k \in todo => phase[k] = "none"
  /\ managers # "copy" => \E k \in Checks : phase[k] # "none" /\ held[k] = managers

(* Initially no check holds an object.                                     *)
LEMMA InitHandInv == Init => HandInv
<1> SUFFICES ASSUME Init PROVE HandInv
  OBVIOUS
<1>1. Checks \subseteq Runs
  BY DEF Runs
<1>2. QED
  BY <1>1, InitTypeInv DEF Init, HandInv, Ended

(* Starting a check fills in an object of its own, or one that others hold *)
(* already, and takes nothing away from them.                              *)
LEMMA StartHands ==
  ASSUME HandInv, NEW k \in Checks, StartCheck(k)
  PROVE  LET o == HandedObject(k)
         IN  /\ Derived(object'[o])
             /\ \A f \in AttributesOf(k) : Restricts(object'[o], f)
             /\ \A j \in Checks : phase[j] # "none" =>
                  /\ Derived(object'[held[j]])
                  /\ \A f \in AttributesOf(j) : Restricts(object'[held[j]], f)
             /\ o = k \/ phase[o] # "none"
<1> DEFINE o == HandedObject(k)
           d == GetSecurityContextDefaults(k, BaseOf(k))
<1>1. /\ TypeInv /\ TypeOK /\ o \in Checks /\ BaseOf(k) \in Defaults
      /\ object \in [Checks -> Defaults]
      /\ \A j \in Checks : phase[j] # "none" => held[j] \in Checks
  BY BaseOfType DEF HandInv, TypeInv, TypeOK
<1>2. /\ object' = [object EXCEPT ![o] = d] /\ Usable(k, BaseOf(k))
      /\ phase[k] = "none"
  BY DEF StartCheck, Usable, HandInv
<1>3. object'[o] = d /\ \A x \in Checks : x # o => object'[x] = object[x]
  BY <1>1, <1>2
<1>4. \A f : /\ Restricts(BaseOf(k), f) => Restricts(d, f)
             /\ f \in AttributesOf(k) => Restricts(d, f)
  BY <1>1, <1>2, CheckRestricts
<1>5. CASE o = k
  <2>1. BaseOf(k) = Base
    BY <1>5 DEF BaseOf, Base
  <2>2. Derived(d)
    BY <1>1, <1>2, <2>1, SpecDerived, CheckDerived
  <2>3. \A j \in Checks : phase[j] # "none" => held[j] # k
    BY <1>2 DEF HandInv
  <2> HIDE DEF d, o
  <2>4. QED
    BY <1>1, <1>3, <1>4, <1>5, <2>2, <2>3 DEF HandInv, o
<1>6. CASE o # k
  <2>1. o = managers /\ managers # "copy" /\ BaseOf(k) = object[o]
    BY <1>6 DEF HandedObject, BaseOf
  <2>2. PICK i \in Checks : phase[i] # "none" /\ held[i] = o
    BY <2>1 DEF HandInv
  <2>3. Derived(object[o]) /\ phase[o] # "none"
    BY <2>2 DEF HandInv
  <2>4. Derived(d)
    BY <1>1, <1>2, <2>1, <2>3, CheckDerived
  <2> HIDE DEF d, o
  <2>5. ASSUME NEW j \in Checks, phase[j] # "none"
        PROVE  /\ Derived(object'[held[j]])
               /\ \A f \in AttributesOf(j) : Restricts(object'[held[j]], f)
    <3>1. /\ Derived(object[held[j]]) /\ held[j] \in Checks
          /\ \A f \in AttributesOf(j) : Restricts(object[held[j]], f)
      BY <1>1, <2>5 DEF HandInv
    <3>2. CASE held[j] = o
      BY <1>3, <1>4, <2>1, <2>4, <3>1, <3>2
    <3>3. CASE held[j] # o
      BY <1>3, <3>1, <3>3
    <3>4. QED
      BY <3>2, <3>3
  <2>6. QED
    BY <1>3, <1>4, <2>3, <2>4, <2>5 DEF o
<1>7. QED
  BY <1>5, <1>6

(* Every step keeps what the objects restrict, with sharing or not.        *)
LEMMA HandInvStep ==
  ASSUME HandInv, [Next]_vars
  PROVE  HandInv'
<1>1. TypeInv /\ TypeInv'
  BY TypeInvStep DEF HandInv
<1>2. template' = template /\ spec' = spec
  BY InputsFixed
<1>3. Required' = Required /\ \A s : Derived(s)' = Derived(s)
  BY <1>2 DEF Required, Derived, PodTarget, ContainerTargets, GroupOf, UserOf
<1>4. /\ Checks \subseteq Runs /\ "baseline" \in Runs
      /\ phase \in [Runs -> {"none", "started", "applied", "ok", "bad"}]
      /\ stored \in [Checks -> Defaults] /\ object \in [Checks -> Defaults]
      /\ held \in [Checks -> Checks \cup {"none"}] /\ todo \subseteq Checks
      /\ \A k \in Checks : phase[k] # "none" => held[k] \in Checks
  BY <1>1 DEF Runs, TypeInv, TypeOK
<1>5. CASE /\ \A k \in Checks : phase'[k] = phase[k]
           /\ UNCHANGED <<managers, object, held, stored>>
           /\ todo' \subseteq todo
  <2>1. \A k \in Checks : phase[k] # "none" => held[k] \in Checks
    BY <1>1 DEF TypeInv
  <2>2. QED
    BY <1>1, <1>3, <1>5, <2>1 DEF HandInv, Ended
<1>6. CASE RecordBaseline
  BY <1>4, <1>5, <1>6, RunNames DEF RecordBaseline
<1>7. CASE RecordChecks
  <2>1. /\ todo' = {k \in Required : phase[k] = "none"} /\ managers' = "copy"
        /\ UNCHANGED <<object, held, phase, stored>>
    BY <1>7 DEF RecordChecks
  <2>2. QED
    BY <1>1, <1>3, <1>4, <2>1 DEF HandInv, Ended
<1>8. ASSUME NEW k \in Checks, StartCheck(k) PROVE HandInv'
  <2> DEFINE o == HandedObject(k)
  <2>1. /\ Derived(object'[o])
        /\ \A f \in AttributesOf(k) : Restricts(object'[o], f)
        /\ \A j \in Checks : phase[j] # "none" =>
             /\ Derived(object'[held[j]])
             /\ \A f \in AttributesOf(j) : Restricts(object'[held[j]], f)
        /\ o = k \/ phase[o] # "none"
    BY <1>8, StartHands
  <2>2. /\ k \in todo /\ managers' = o /\ o \in Checks
        /\ held' = [held EXCEPT ![k] = o]
        /\ phase' = [phase EXCEPT ![k] = "started"]
        /\ todo' \subseteq todo \ {k}
        /\ stored' = stored
    BY <1>1, <1>8, BaseOfType DEF StartCheck
  <2> HIDE DEF o
  <2>3. phase[k] = "none" /\ k \in Required
    BY <2>2 DEF HandInv
  <2>4. /\ held'[k] = o /\ phase'[k] = "started"
        /\ \A j \in Checks : j # k => held'[j] = held[j] /\ phase'[j] = phase[j]
        /\ \A x \in Checks : phase[x] # "none" => phase'[x] # "none"
    BY <1>4, <2>2
  <2>5. ASSUME NEW j \in Checks
        PROVE  /\ phase'[j] = "none" => held'[j] = "none"
               /\ phase'[j] # "none" =>
                    /\ phase'[held'[j]] # "none"
                    /\ Derived(object'[held'[j]])
                    /\ \A f \in AttributesOf(j) : Restricts(object'[held'[j]], f)
               /\ phase'[j] \in {"ok", "bad"} =>
                    /\ Derived(stored'[j])
                    /\ \A f \in AttributesOf(j) : Restricts(stored'[j], f)
               /\ phase'[j] # "none" \/ j \in todo' => j \in Required
               /\ j \in todo' => phase'[j] = "none"
    <3>1. CASE j = k
      BY <2>1, <2>2, <2>3, <2>4, <3>1
    <3>2. CASE j # k
      BY <1>4, <2>1, <2>2, <2>4, <3>2 DEF HandInv, Ended
    <3>3. QED
      BY <3>1, <3>2
  <2>6. \E j \in Checks : phase'[j] # "none" /\ held'[j] = managers'
    BY <2>2, <2>4
  <2>7. QED
    BY <1>1, <1>3, <2>5, <2>6 DEF HandInv, Ended
<1>9. ASSUME NEW k \in Checks, ReconcilePanics(k) PROVE HandInv'
  BY <1>5, <1>9 DEF ReconcilePanics
<1>10. ASSUME NEW k \in Checks, ApplyCheck(k) PROVE HandInv'
  <2>1. /\ phase[k] = "started" /\ phase' = [phase EXCEPT ![k] = "applied"]
        /\ UNCHANGED <<todo, managers, object, held, stored>>
    BY <1>10 DEF ApplyCheck
  <2>2. \A x \in Checks : /\ phase'[x] = "none" <=> phase[x] = "none"
                          /\ phase'[x] \in {"ok", "bad"} => phase[x] \in {"ok", "bad"}
    BY <1>4, <2>1
  <2>3. QED
    BY <1>1, <1>3, <1>4, <2>1, <2>2 DEF HandInv, Ended
<1>11. ASSUME NEW k \in Checks, RecordCheck(k) PROVE HandInv'
  <2>1. PICK outcome \in {"ok", "bad"} : phase' = [phase EXCEPT ![k] = outcome]
    BY <1>11 DEF RecordCheck
  <2>2. /\ phase[k] = "applied" /\ stored' = [stored EXCEPT ![k] = object[held[k]]]
        /\ UNCHANGED <<todo, managers, object, held>>
    BY <1>11 DEF RecordCheck
  <2>3. \A x \in Checks : /\ phase'[x] = "none" <=> phase[x] = "none"
                          /\ x # k => phase'[x] = phase[x] /\ stored'[x] = stored[x]
    BY <1>4, <2>1, <2>2
  <2>4. /\ stored'[k] = object[held[k]] /\ Derived(object[held[k]])
        /\ \A f \in AttributesOf(k) : Restricts(object[held[k]], f)
    BY <1>4, <2>2 DEF HandInv
  <2>5. \A x \in Checks : phase'[x] \in {"ok", "bad"} =>
          /\ Derived(stored'[x])
          /\ \A f \in AttributesOf(x) : Restricts(stored'[x], f)
    BY <2>3, <2>4 DEF HandInv, Ended
  <2>6. QED
    BY <1>1, <1>3, <1>4, <2>2, <2>3, <2>5 DEF HandInv, Ended
<1>12. CASE FinalRun
  BY <1>4, <1>5, <1>12, RunNames DEF FinalRun
<1>13. CASE UNCHANGED <<todo, managers, object, held, phase, stored>>
  BY <1>5, <1>13
<1>14. QED
  BY <1>6, <1>7, <1>8, <1>9, <1>10, <1>11, <1>12, <1>13
     DEF Next, vars, MergeCheck, SetRecommendation, WriteRecommendation

---------------------------------------------------------------------------
(* No spec gives a seccomp profile.                                        *)
NoProfiles ==
  \A s \in Specs : /\ Value(s.pod, "seccompProfile") = {}
                   /\ Value(s.container, "seccompProfile") = {}

(* What is merged was set by the user or is the restriction of a check.    *)
Within(m) ==
  \A f : /\ Value(m.pod, f) \subseteq Given(f) \cup Restriction(f)
         /\ Value(m.container, f) \subseteq Given(f) \cup Restriction(f)

(* Contexts that checks have made of the spec are.                         *)
LEMMA DerivedWithin ==
  ASSUME NEW s, Derived(s)
  PROVE  Within(s)
<1> SUFFICES ASSUME NEW f
             PROVE  /\ Value(s.pod, f) \subseteq Given(f) \cup Restriction(f)
                    /\ Value(s.container, f) \subseteq Given(f) \cup Restriction(f)
  BY DEF Within
<1> DEFINE ids == {"1000"} \cup Value(spec.pod, "runAsUser") \cup Value(spec.pod, "runAsGroup")
<1>1. UserOf(spec) \subseteq ids /\ GroupOf(spec) \subseteq ids /\ {"1000"} \subseteq ids
  BY DEF UserOf, GroupOf, Or
<1>2. f \in {"runAsUser", "runAsGroup", "fsGroup"} => Restriction(f) = ids
  BY DEF Restriction
<1> HIDE DEF ids
<1>3. PodTarget(f) \subseteq Value(spec.pod, f) \cup Restriction(f)
  <2>1. CASE f \in {"runAsUser", "runAsGroup", "fsGroup"}
    BY <1>1, <1>2, <2>1 DEF PodTarget, Or
  <2>2. CASE f = "runAsNonRoot"
    BY <2>2 DEF PodTarget, Or, Restriction
  <2>3. CASE f \notin {"runAsUser", "runAsGroup", "fsGroup", "runAsNonRoot"}
    BY <2>3 DEF PodTarget, Or
  <2>4. QED
    BY <2>1, <2>2, <2>3
<1>4. \A v \in ContainerTargets(f) : v \subseteq Restriction(f)
  <2>1. CASE f \in {"runAsUser", "runAsGroup"}
    BY <1>1, <1>2, <2>1 DEF ContainerTargets
  <2>2. CASE f \notin {"runAsUser", "runAsGroup"}
    BY <2>2 DEF ContainerTargets, Restriction
  <2>3. QED
    BY <2>1, <2>2
<1>5. Value(s.pod, f) \subseteq Value(spec.pod, f) \cup Restriction(f)
  BY <1>3 DEF Derived
<1>6. Value(s.container, f) \subseteq Value(spec.container, f) \cup Restriction(f)
  <2>1. CASE f = "capabilitiesDrop"
    BY <2>1 DEF Derived, Restriction
  <2>2. CASE f # "capabilitiesDrop"
    BY <1>4, <2>2 DEF Derived, Or
  <2>3. QED
    BY <2>1, <2>2
<1>7. QED
  BY <1>5, <1>6 DEF Given

(* The merge keeps what the manifest sets, adds to its capabilities and    *)
(* leaves RunAsNonRoot of the container and seccomp profiles alone.        *)
KeepsManifest(m) ==
  /\ Within(m)
  /\ \A f : Value(template.pod, f) # {} => Value(m.pod, f) = Value(template.pod, f)
  /\ \A f : f # "capabilitiesDrop" /\ Value(template.containers[Main], f) # {} =>
       Value(m.container, f) = Value(template.containers[Main], f)
  /\ Value(template.containers[Main], "capabilitiesDrop")
       \subseteq Value(m.container, "capabilitiesDrop")
  /\ Value(m.container, "runAsNonRoot") = Value(template.containers[Main], "runAsNonRoot")
  /\ NoProfiles =>
       /\ Value(m.pod, "seccompProfile") = Value(template.pod, "seccompProfile")
       /\ Value(m.container, "seccompProfile")
            = Value(template.containers[Main], "seccompProfile")

(* What the checks merged so far restrict is restricted, no check is still *)
(* at work, and the final run has the recommendation that is in the status.*)
RecommendInv ==
  /\ HandInv
  /\ merging \subseteq Survived
  /\ merge # NilDefaults =>
       /\ \A k \in Required : Ended(k)
       /\ KeepsManifest(merge)
       /\ \A k \in Survived \ merging : \A f \in AttributesOf(k) : Restricts(merge, f)
  /\ recommendation # NilDefaults => recommendation = merge /\ merging = {}
  /\ phase["Final"] # "none" =>
       /\ recommendation # NilDefaults
       /\ clone["Final"] = Hardened(GetRecommendedSecurityContext)

(* The merge begins with the manifest.                                     *)
LEMMA OwnKeepsManifest ==
  ASSUME TypeInv
  PROVE  KeepsManifest(OwnContexts)
<1>1. \A f : Value(OwnContexts.pod, f) = Value(template.pod, f)
  BY DEF OwnContexts, Value, EmptyPod, IsNil
<1>2. \A f : Value(OwnContexts.container, f) = Value(template.containers[Main], f)
  BY DEF OwnContexts, Value, EmptyContainer, IsNil
<1>3. Within(OwnContexts)
  BY <1>1, <1>2 DEF Within, Given
<1>4. QED
  BY <1>1, <1>2, <1>3 DEF KeepsManifest

(* What a merge of two security contexts has of a field, when the first is *)
(* not nil.                                                                *)
LEMMA MergeIntoValues ==
  ASSUME NEW m \in SomeDefaults, NEW e \in Defaults, NEW f
  PROVE  /\ Value(MergeInto(m, e).pod, f) = Or(Value(m.pod, f), Value(e.pod, f))
         /\ Value(MergeInto(m, e).container, f) =
              IF f = "runAsNonRoot" THEN Value(m.container, f)
              ELSE IF f = "capabilitiesDrop"
                THEN Value(m.container, f) \cup Value(e.container, f)
              ELSE Or(Value(m.container, f), Value(e.container, f))
<1>1. /\ m.pod \in PodContexts /\ m.container \in ContainerContexts
      /\ ~IsNil(m.container)
      /\ e.pod \in PodContexts /\ e.container \in ContainerContexts
  BY SomeIsContext DEF SomeDefaults, Defaults
<1>2. /\ MergeInto(m, e).pod = MergePod(m.pod, e.pod)
      /\ MergeInto(m, e).container = MergeContainer(m.container, e.container)
  BY DEF MergeInto
<1>3. Value(MergePod(m.pod, e.pod), f) = Or(Value(m.pod, f), Value(e.pod, f))
  BY <1>1, MergePodValue
<1>4. Value(MergeContainer(m.container, e.container), f) =
        IF f = "runAsNonRoot" THEN Value(m.container, f)
        ELSE IF f = "capabilitiesDrop"
          THEN Value(m.container, f) \cup Value(e.container, f)
        ELSE Or(Value(m.container, f), Value(e.container, f))
  BY <1>1, MergeContainerValue
<1>5. QED
  BY <1>2, <1>3, <1>4

(* No check sets a seccomp profile.                                        *)
LEMMA DerivedProfile ==
  ASSUME TypeOK, NoProfiles, NEW s, Derived(s)
  PROVE  Value(s.pod, "seccompProfile") = {} /\ Value(s.container, "seccompProfile") = {}
<1>1. Value(spec.pod, "seccompProfile") = {} /\ Value(spec.container, "seccompProfile") = {}
  BY DEF TypeOK, NoProfiles
<1>2. Value(s.pod, "seccompProfile") = {}
  BY <1>1 DEF Derived, PodTarget, Or
<1>3. ContainerTargets("seccompProfile") = {{}}
  BY DEF ContainerTargets
<1>4. Value(s.container, "seccompProfile") = {}
  BY <1>1, <1>3 DEF Derived, Or
<1>5. QED
  BY <1>2, <1>4

(* Merging a report keeps the manifest and restricts what was restricted   *)
(* on either side.                                                         *)
LEMMA MergeRestricts ==
  ASSUME TypeOK, NEW m \in SomeDefaults, NEW e \in Defaults, Derived(e), KeepsManifest(m)
  PROVE  /\ KeepsManifest(MergeInto(m, e))
         /\ \A f : Restricts(m, f) \/ Restricts(e, f) => Restricts(MergeInto(m, e), f)
<1> DEFINE w == MergeInto(m, e)
           t == template.containers[Main]
<1>1. \A f : /\ Value(w.pod, f) = Or(Value(m.pod, f), Value(e.pod, f))
             /\ Value(w.container, f) =
                  IF f = "runAsNonRoot" THEN Value(m.container, f)
                  ELSE IF f = "capabilitiesDrop"
                    THEN Value(m.container, f) \cup Value(e.container, f)
                  ELSE Or(Value(m.container, f), Value(e.container, f))
  BY MergeIntoValues
<1> HIDE DEF w
<1>2. \A f : Restricts(m, f) \/ Restricts(e, f) => Restricts(w, f)
  <2> SUFFICES ASSUME NEW f, Restricts(m, f) \/ Restricts(e, f) PROVE Restricts(w, f)
    OBVIOUS
  <2>1. CASE Value(m.pod, f) # {} \/ Value(e.pod, f) # {}
    BY <1>1, <2>1 DEF Restricts, Or
  <2>2. CASE f # "runAsNonRoot" /\ (Value(m.container, f) # {} \/ Value(e.container, f) # {})
    <3>1. Value(w.container, f) # {}
      BY <1>1, <2>2 DEF Or
    <3>2. QED
      BY <2>2, <3>1 DEF Restricts
  <2>3. QED
    BY <2>1, <2>2 DEF Restricts
<1>3. KeepsManifest(w)
  <2>1. \A f : Value(template.pod, f) # {} => Value(w.pod, f) = Value(template.pod, f)
    BY <1>1 DEF KeepsManifest, Or
  <2>2. ASSUME NEW f, f # "capabilitiesDrop", Value(t, f) # {}
        PROVE  Value(w.container, f) = Value(t, f)
    <3>1. Value(m.container, f) = Value(t, f)
      BY <2>2 DEF KeepsManifest
    <3>2. QED
      BY <1>1, <2>2, <3>1 DEF Or
  <2>3. Value(t, "capabilitiesDrop") \subseteq Value(w.container, "capabilitiesDrop")
    <3>1. Value(t, "capabilitiesDrop") \subseteq Value(m.container, "capabilitiesDrop")
      BY DEF KeepsManifest
    <3>2. Value(w.container, "capabilitiesDrop")
            = Value(m.container, "capabilitiesDrop") \cup Value(e.container, "capabilitiesDrop")
      BY <1>1
    <3>3. QED
      BY <3>1, <3>2
  <2>4. Value(w.container, "runAsNonRoot") = Value(t, "runAsNonRoot")
    BY <1>1 DEF KeepsManifest
  <2>5. ASSUME NoProfiles
        PROVE  /\ Value(w.pod, "seccompProfile") = Value(template.pod, "seccompProfile")
               /\ Value(w.container, "seccompProfile") = Value(t, "seccompProfile")
    BY <1>1, <2>5, DerivedProfile DEF KeepsManifest, Or
  <2>6. Within(w)
    <3>1. Within(m) /\ Within(e)
      BY DerivedWithin DEF KeepsManifest
    <3>2. \A f : /\ Value(w.pod, f) \subseteq Value(m.pod, f) \cup Value(e.pod, f)
                 /\ Value(w.container, f)
                      \subseteq Value(m.container, f) \cup Value(e.container, f)
      BY <1>1 DEF Or
    <3>3. QED
      BY <3>1, <3>2 DEF Within
  <2>7. QED
    BY <2>1, <2>2, <2>3, <2>4, <2>5, <2>6 DEF KeepsManifest
<1>4. QED
  BY <1>2, <1>3 DEF w

(* Initially nothing is merged, recommended or tried.                      *)
LEMMA InitRecommendInv == Init => RecommendInv
<1> SUFFICES ASSUME Init PROVE RecommendInv
  OBVIOUS
<1>1. "Final" \in Runs
  BY DEF Runs
<1>2. QED
  BY <1>1, InitHandInv DEF Init, RecommendInv

(* While the reports are merged no check is at work any more.              *)
LEMMA RecommendInvStep ==
  ASSUME RecommendInv, [Next]_vars
  PROVE  RecommendInv'
<1>1. /\ HandInv /\ HandInv' /\ TypeInv /\ TypeInv' /\ TypeOK
  BY HandInvStep DEF RecommendInv, HandInv, TypeInv
<1>2. /\ template' = template /\ spec' = spec /\ Required' = Required
      /\ \A s : Hardened(s)' = Hardened(s)
      /\ \A s : KeepsManifest(s)' = KeepsManifest(s)
  BY InputsFixed DEF Required, Hardened, KeepsManifest, Within, Given, Restriction
<1>3. /\ Checks \subseteq Runs /\ "baseline" \in Runs /\ "Final" \in Runs
      /\ phase \in [Runs -> {"none", "started", "applied", "ok", "bad"}]
      /\ clone \in [Runs -> PodTemplates]
      /\ Required \subseteq Checks /\ todo \subseteq Checks /\ merging \subseteq Checks
  BY <1>1 DEF Runs, TypeInv, TypeOK, Required
<1>4. merge # NilDefaults => merge \in SomeDefaults
  BY <1>1 DEF TypeInv
<1>5. CASE /\ \A k \in Checks : phase'[k] = phase[k]
           /\ UNCHANGED <<merging, merge, recommendation>>
           /\ phase'["Final"] = phase["Final"] /\ clone'["Final"] = clone["Final"]
  <2>1. Survived' = Survived /\ \A k \in Checks : Ended(k)' = Ended(k)
    BY <1>5 DEF Survived, Ended
  <2>2. GetRecommendedSecurityContext' = GetRecommendedSecurityContext
    BY <1>5 DEF GetRecommendedSecurityContext
  <2>3. Hardened(GetRecommendedSecurityContext)' = Hardened(GetRecommendedSecurityContext)
    BY <1>2, <2>2 DEF Hardened
  <2>4. KeepsManifest(merge)' = KeepsManifest(merge)
    BY <1>2, <1>5 DEF KeepsManifest, Within, Given, Restriction
  <2>5. QED
    BY <1>1, <1>2, <1>3, <1>5, <2>1, <2>3, <2>4 DEF RecommendInv
<1>6. ASSUME NEW k \in Checks, phase[k] \notin {"ok", "bad"},
             phase[k] # "none" \/ k \in todo,
             NEW p, phase' = [phase EXCEPT ![k] = p],
             clone'["Final"] = clone["Final"],
             UNCHANGED <<merging, merge, recommendation>>
      PROVE  RecommendInv'
  <2>1. k \in Required
    BY <1>1, <1>6 DEF HandInv
  <2>2. merge = NilDefaults
    BY <1>6, <2>1 DEF RecommendInv, Ended
  <2>3. merging = {} /\ recommendation = NilDefaults
    BY <1>1, <2>2 DEF TypeInv, RecommendInv
  <2>4. phase["Final"] = "none"
    BY <2>3 DEF RecommendInv
  <2>5. phase'["Final"] = "none"
    BY <1>3, <1>6, <2>4, RunNames
  <2>6. QED
    BY <1>1, <1>6, <2>2, <2>3, <2>5 DEF RecommendInv
<1>7. CASE RecordBaseline
  BY <1>3, <1>5, <1>7, RunNames DEF RecordBaseline
<1>8. ASSUME NEW k \in Checks, StartCheck(k) PROVE RecommendInv'
  <2>1. phase[k] = "none" /\ k \in todo
    BY <1>1, <1>8 DEF StartCheck, HandInv
  <2>2. QED
    BY <1>6, <1>8, <2>1 DEF StartCheck
<1>9. ASSUME NEW k \in Checks, ApplyCheck(k) PROVE RecommendInv'
  <2>1. clone'["Final"] = clone["Final"]
    BY <1>3, <1>9, RunNames DEF ApplyCheck
  <2>2. QED
    BY <1>6, <1>9, <2>1 DEF ApplyCheck
<1>10. ASSUME NEW k \in Checks, RecordCheck(k) PROVE RecommendInv'
  <2>1. PICK outcome \in {"ok", "bad"} : phase' = [phase EXCEPT ![k] = outcome]
    BY <1>10 DEF RecordCheck
  <2>2. QED
    BY <1>6, <1>10, <2>1 DEF RecordCheck
<1>11. CASE SetRecommendation
  <2>1. /\ merge' = OwnContexts /\ merging' = Survived
        /\ merge = NilDefaults
        /\ \A k \in Required : Ended(k)
        /\ UNCHANGED <<template, phase, clone, recommendation>>
    BY <1>11 DEF SetRecommendation, Mergeable, Survived
  <2>2. recommendation = NilDefaults /\ phase["Final"] = "none"
    BY <2>1 DEF RecommendInv
  <2>3. KeepsManifest(OwnContexts)
    BY <1>1, OwnKeepsManifest
  <2>4. KeepsManifest(merge)'
    BY <1>2, <2>1, <2>3 DEF KeepsManifest, Within, Given, Restriction
  <2>5. Survived' = Survived /\ \A k \in Checks : Ended(k)' = Ended(k)
    BY <2>1 DEF Survived, Ended
  <2>6. QED
    BY <1>1, <1>2, <1>3, <2>1, <2>2, <2>4, <2>5 DEF RecommendInv
<1>12. ASSUME NEW k \in Checks, MergeCheck(k) PROVE RecommendInv'
  <2>1. /\ k \in merging /\ merging' = merging \ {k}
        /\ merge' = MergeInto(merge, stored[k])
        /\ UNCHANGED <<template, phase, clone, recommendation>>
    BY <1>12 DEF MergeCheck
  <2>2. merge # NilDefaults /\ merge \in SomeDefaults
    BY <1>1, <1>4, <2>1 DEF TypeInv
  <2>3. /\ k \in Survived /\ stored[k] \in Defaults /\ Derived(stored[k])
        /\ \A f \in AttributesOf(k) : Restricts(stored[k], f)
    BY <1>1, <2>1 DEF RecommendInv, Survived, HandInv, Ended, TypeOK
  <2>4. KeepsManifest(merge)
    BY <2>2 DEF RecommendInv
  <2>5. /\ KeepsManifest(merge')
        /\ \A f : Restricts(merge, f) \/ Restricts(stored[k], f) => Restricts(merge', f)
    BY <1>1, <2>1, <2>2, <2>3, <2>4, MergeRestricts
  <2>6. KeepsManifest(merge)'
    BY <1>2, <2>5 DEF KeepsManifest, Within, Given, Restriction
  <2>7. recommendation = NilDefaults /\ phase["Final"] = "none"
    BY <2>1 DEF RecommendInv
  <2>8. Survived' = Survived /\ \A j \in Checks : Ended(j)' = Ended(j)
    BY <2>1 DEF Survived, Ended
  <2>9. \A j \in Survived \ merging' : \A f \in AttributesOf(j) : Restricts(merge', f)
    BY <2>1, <2>2, <2>3, <2>5 DEF RecommendInv
  <2>10. \A j \in Required : Ended(j)
    BY <2>2 DEF RecommendInv
  <2>11. merging' \subseteq Survived'
    BY <2>1, <2>8 DEF RecommendInv
  <2>12. QED
    BY <1>1, <1>2, <1>3, <2>1, <2>6, <2>7, <2>8, <2>9, <2>10, <2>11 DEF RecommendInv
<1>13. CASE WriteRecommendation
  <2>1. /\ recommendation' = merge /\ merging = {} /\ recommendation = NilDefaults
        /\ UNCHANGED <<template, phase, clone, merging, merge>>
    BY <1>13 DEF WriteRecommendation
  <2>2. phase["Final"] = "none"
    BY <2>1 DEF RecommendInv
  <2>3. Survived' = Survived /\ \A k \in Checks : Ended(k)' = Ended(k)
    BY <2>1 DEF Survived, Ended
  <2>4. KeepsManifest(merge)' = KeepsManifest(merge)
    BY <1>2, <2>1 DEF KeepsManifest, Within, Given, Restriction
  <2>5. QED
    BY <1>1, <1>2, <1>3, <2>1, <2>2, <2>3, <2>4 DEF RecommendInv
<1>14. CASE FinalRun
  <2>1. PICK outcome \in {"ok", "bad"} : phase' = [phase EXCEPT !["Final"] = outcome]
    BY <1>14 DEF FinalRun
  <2>2. /\ clone' = [clone EXCEPT !["Final"] = Hardened(GetRecommendedSecurityContext)]
        /\ recommendation # NilDefaults
        /\ UNCHANGED <<template, merging, merge, recommendation>>
    BY <1>14 DEF FinalRun
  <2>3. \A k \in Checks : phase'[k] = phase[k]
    BY <1>3, <2>1, RunNames
  <2>4. Survived' = Survived /\ \A k \in Checks : Ended(k)' = Ended(k)
    BY <2>3 DEF Survived, Ended
  <2>5. clone'["Final"] = Hardened(GetRecommendedSecurityContext)
    BY <1>3, <2>2
  <2>6. Hardened(GetRecommendedSecurityContext)' = Hardened(GetRecommendedSecurityContext)
    BY <2>2 DEF Hardened, GetRecommendedSecurityContext
  <2>7. KeepsManifest(merge)' = KeepsManifest(merge)
    BY <1>2, <2>2 DEF KeepsManifest, Within, Given, Restriction
  <2>8. QED
    BY <1>1, <1>2, <1>3, <2>2, <2>4, <2>5, <2>6, <2>7 DEF RecommendInv
<1>15. CASE UNCHANGED <<phase, clone, merging, merge, recommendation>>
  BY <1>5, <1>15
<1>16. QED
  BY <1>7, <1>8, <1>9, <1>10, <1>11, <1>12, <1>13, <1>14, <1>15
     DEF Next, vars, RecordChecks, ReconcilePanics

(* When all are merged, every attribute of a survived check is restricted. *)
LEMMA InvRecommends ==
  ASSUME RecommendInv
  PROVE  SurvivedRecommended
<1> SUFFICES ASSUME recommendation # NilDefaults,
                    NEW k \in Survived, NEW f \in AttributesOf(k)
             PROVE  /\ Recommended(f) # {}
                    /\ Recommended(f) \subseteq Given(f) \cup Restriction(f)
                    /\ Value(template.containers[Main], f) \subseteq Recommended(f)
  BY DEF SurvivedRecommended
<1> DEFINE p == Value(recommendation.pod, f)
           c == Value(recommendation.container, f)
           t == Value(template.containers[Main], f)
<1>1. recommendation = merge /\ merge # NilDefaults /\ merging = {}
  BY DEF RecommendInv
<1>2. Restricts(merge, f) /\ KeepsManifest(merge)
  BY <1>1 DEF RecommendInv
<1>3. Recommended(f) = Or(c, p)
  BY DEF Recommended, Effective
<1>4. p # {} \/ c # {}
  BY <1>1, <1>2 DEF Restricts
<1>5. p \subseteq Given(f) \cup Restriction(f) /\ c \subseteq Given(f) \cup Restriction(f)
  BY <1>1, <1>2 DEF KeepsManifest, Within
<1>6. t # {} => t \subseteq c
  <2>1. CASE f = "capabilitiesDrop"
    BY <1>1, <1>2, <2>1 DEF KeepsManifest
  <2>2. CASE f # "capabilitiesDrop"
    BY <1>1, <1>2, <2>2 DEF KeepsManifest
  <2>3. QED
    BY <2>1, <2>2
<1> HIDE DEF p, c, t
<1>7. Or(c, p) # {} /\ Or(c, p) \subseteq Given(f) \cup Restriction(f) /\ t \subseteq Or(c, p)
  BY <1>4, <1>5, <1>6 DEF Or
<1>8. QED
  BY <1>3, <1>7 DEF t

(* What the workload survived is recommended as the check has restricted   *)
(* it, or as the user has set it, for every template and spec, also when   *)
(* checks share their security context and in whatever order they are      *)
(* merged.                                                                 *)
THEOREM AllSurvivedRecommended == Spec => []SurvivedRecommended
<1>1. QED
  BY InvRecommends, InitRecommendInv, RecommendInvStep, PTL DEF Spec

---------------------------------------------------------------------------
(* Applied to the manifest, the recommendation yields itself: the merge    *)
(* has kept what the manifest sets.                                        *)
LEMMA InvTries ==
  ASSUME RecommendInv, NoProfiles
  PROVE  FinalTriesRecommendation
<1> SUFFICES ASSUME Ended("Final") PROVE FinalTriesRecommendation
  BY DEF FinalTriesRecommendation
<1> DEFINE g == GetRecommendedSecurityContext
           t == template.containers[Main]
           final == clone["Final"]
<1>1. /\ recommendation # NilDefaults /\ recommendation = merge
      /\ final = Hardened(g) /\ TypeOK /\ KeepsManifest(recommendation)
      /\ recommendation \in SomeDefaults
  BY DEF RecommendInv, Ended, HandInv, TypeInv
<1>2. g \in Defaults
  BY <1>1, RecommendedType
<1>3. /\ DOMAIN recommendation.pod = PodFields
      /\ DOMAIN recommendation.container = ContainerFields
  BY <1>1, SomeIsContext DEF SomeDefaults
<1>4. /\ \A f : Value(g.pod, f) = IF f = "seccompProfile" THEN {}
                                  ELSE Value(recommendation.pod, f)
      /\ \A f : Value(g.container, f) = IF f = "seccompProfile" THEN {}
                                        ELSE Value(recommendation.container, f)
  BY <1>3 DEF GetRecommendedSecurityContext, Value
<1>5. Main \in Containers
  BY ContextsAssumption
<1>6. \A f : /\ Value(Hardened(g).pod, f) = Or(Value(template.pod, f), Value(g.pod, f))
             /\ Value(Hardened(g).containers[Main], f) =
                  IF f = "runAsNonRoot" /\ ~IsNil(t) THEN Value(t, f)
                  ELSE IF f = "capabilitiesDrop" THEN Value(t, f) \cup Value(g.container, f)
                  ELSE Or(Value(t, f), Value(g.container, f))
  BY <1>1, <1>2, <1>5, HardenedValues
<1> HIDE DEF g, t, final
<1>7. ASSUME NEW f \in PodFields, recommendation.pod[f] # {}
      PROVE  final.pod[f] = recommendation.pod[f]
  <2>1. Value(recommendation.pod, f) = recommendation.pod[f]
    BY <1>3 DEF Value
  <2>2. Value(final.pod, f) = Value(recommendation.pod, f)
    BY <1>1, <1>4, <1>6, <1>7, <2>1 DEF KeepsManifest, Or
  <2>3. QED
    BY <1>7, <2>1, <2>2 DEF Value
<1>8. ASSUME NEW f \in ContainerFields, recommendation.container[f] # {}
      PROVE  final.containers[Main][f] = recommendation.container[f]
  <2> DEFINE r == Value(recommendation.container, f)
             b == Value(final.containers[Main], f)
  <2>1. r = recommendation.container[f]
    BY <1>3 DEF Value
  <2>2. b = IF f = "runAsNonRoot" /\ ~IsNil(t) THEN Value(t, f)
            ELSE IF f = "capabilitiesDrop" THEN Value(t, f) \cup Value(g.container, f)
            ELSE Or(Value(t, f), Value(g.container, f))
    BY <1>1, <1>6
  <2>3. f # "seccompProfile" => Value(g.container, f) = r
    BY <1>4
  <2>4. f \in {"runAsNonRoot", "seccompProfile"} => r = Value(t, f)
    BY <1>1 DEF KeepsManifest, t
  <2>5. f = "capabilitiesDrop" => Value(t, f) \subseteq r
    BY <1>1 DEF KeepsManifest, t
  <2>6. f # "capabilitiesDrop" /\ Value(t, f) # {} => r = Value(t, f)
    BY <1>1 DEF KeepsManifest, t
  <2>7. r # {}
    BY <1>8, <2>1
  <2> HIDE DEF r, b
  <2>8. b = r
    <3>1. CASE f \in {"runAsNonRoot", "seccompProfile"}
      BY <2>2, <2>4, <2>7, <3>1 DEF Or
    <3>2. CASE f = "capabilitiesDrop"
      <4>1. b = Value(t, f) \cup r
        BY <2>2, <2>3, <3>2
      <4>2. QED
        BY <2>5, <3>2, <4>1
    <3>3. CASE f \notin {"runAsNonRoot", "seccompProfile", "capabilitiesDrop"}
      BY <2>2, <2>3, <2>6, <3>3 DEF Or
    <3>4. QED
      BY <3>1, <3>2, <3>3
  <2>9. QED
    BY <2>1, <2>7, <2>8 DEF b, Value
<1>9. QED
  BY <1>7, <1>8 DEF FinalTriesRecommendation, final

(* The final run tries the whole recommendation, unless the spec gives a   *)
(* seccomp profile, which GetRecommendedSecurityContext does not copy.     *)
THEOREM RecommendationIsTried ==
  ASSUME NoProfiles PROVE Spec => []FinalTriesRecommendation
<1>1. QED
  BY InvTries, InitRecommendInv, RecommendInvStep, PTL DEF Spec

---------------------------------------------------------------------------
(* The user check and the group check mean the same user: the spec gives   *)
(* the container one, or the pod none but the default.                     *)
AgreedUser ==
  \A s \in Specs : \/ Value(s.container, "runAsUser") # {}
                   \/ Value(s.pod, "runAsUser") \in {{}, {"1000"}}

(* Two contexts made of the same spec have the same value in a field, or   *)
(* one of them none.                                                       *)
LEMMA DerivedAgree ==
  ASSUME TypeOK, AgreedUser, NEW s, NEW t, Derived(s), Derived(t), NEW f
  PROVE  /\ \/ Value(s.pod, f) = {}
            \/ Value(t.pod, f) = {}
            \/ Value(s.pod, f) = Value(t.pod, f)
         /\ f # "capabilitiesDrop" =>
              \/ Value(s.container, f) = {}
              \/ Value(t.container, f) = {}
              \/ Value(s.container, f) = Value(t.container, f)
<1>1. \/ Value(s.pod, f) = {}
      \/ Value(t.pod, f) = {}
      \/ Value(s.pod, f) = Value(t.pod, f)
  BY DEF Derived, PodTarget, Or
<1>2. ASSUME f # "capabilitiesDrop"
      PROVE  \/ Value(s.container, f) = {}
             \/ Value(t.container, f) = {}
             \/ Value(s.container, f) = Value(t.container, f)
  <2>1. CASE Value(spec.container, f) # {}
    <3>1. \A u : Derived(u) => Value(u.container, f) = Value(spec.container, f)
      BY <1>2, <2>1 DEF Derived, Or
    <3>2. QED
      BY <3>1
  <2>2. CASE Value(spec.container, f) = {}
    <3>1. \A u : Derived(u) =>
            Value(u.container, f) = {} \/ Value(u.container, f) \in ContainerTargets(f)
      BY <1>2, <2>2 DEF Derived, Or
    <3>2. f = "runAsUser" => UserOf(spec) = {"1000"}
      BY <2>2 DEF TypeOK, AgreedUser, UserOf, Or
    <3>3. \A v, w \in ContainerTargets(f) : v = w
      BY <3>2 DEF ContainerTargets
    <3>4. QED
      BY <3>1, <3>3
  <2>3. QED
    BY <2>1, <2>2
<1>3. QED
  BY <1>1, <1>2

(* Security contexts that agree can be merged in either order.             *)
LEMMA MergeCommutes ==
  ASSUME TypeOK, AgreedUser, NEW m \in SomeDefaults,
         NEW s \in Defaults, NEW t \in Defaults, Derived(s), Derived(t)
  PROVE  MergeInto(MergeInto(m, s), t) = MergeInto(MergeInto(m, t), s)
<1> DEFINE a == MergeInto(m, s)
           b == MergeInto(m, t)
           x == MergeInto(a, t)
           y == MergeInto(b, s)
<1>1. a \in SomeDefaults /\ b \in SomeDefaults
  BY MergeIntoSome
<1> HIDE DEF a, b
<1>2. x \in SomeDefaults /\ y \in SomeDefaults
  BY <1>1, MergeIntoSome
<1>3. ASSUME NEW f
      PROVE  /\ Value(x.pod, f) = Value(y.pod, f)
             /\ Value(x.container, f) = Value(y.container, f)
  <2> DEFINE Joined(c, e) == IF f = "runAsNonRoot" THEN c
                             ELSE IF f = "capabilitiesDrop" THEN c \cup e
                             ELSE Or(c, e)
  <2>1. ASSUME NEW c \in SomeDefaults, NEW e \in Defaults
        PROVE  /\ Value(MergeInto(c, e).pod, f) = Or(Value(c.pod, f), Value(e.pod, f))
               /\ Value(MergeInto(c, e).container, f)
                    = Joined(Value(c.container, f), Value(e.container, f))
    BY MergeIntoValues
  <2> HIDE DEF Joined
  <2>2. /\ Value(a.pod, f) = Or(Value(m.pod, f), Value(s.pod, f))
        /\ Value(a.container, f) = Joined(Value(m.container, f), Value(s.container, f))
        /\ Value(b.pod, f) = Or(Value(m.pod, f), Value(t.pod, f))
        /\ Value(b.container, f) = Joined(Value(m.container, f), Value(t.container, f))
    BY <2>1 DEF a, b
  <2>3. /\ Value(x.pod, f) = Or(Value(a.pod, f), Value(t.pod, f))
        /\ Value(x.container, f) = Joined(Value(a.container, f), Value(t.container, f))
        /\ Value(y.pod, f) = Or(Value(b.pod, f), Value(s.pod, f))
        /\ Value(y.container, f) = Joined(Value(b.container, f), Value(s.container, f))
    BY <1>1, <2>1
  <2>4. /\ \/ Value(s.pod, f) = {}
           \/ Value(t.pod, f) = {}
           \/ Value(s.pod, f) = Value(t.pod, f)
        /\ f # "capabilitiesDrop" =>
             \/ Value(s.container, f) = {}
             \/ Value(t.container, f) = {}
             \/ Value(s.container, f) = Value(t.container, f)
    BY DerivedAgree
  <2> HIDE DEF x, y
  <2>5. Value(x.pod, f) = Value(y.pod, f)
    BY <2>2, <2>3, <2>4 DEF Or
  <2>6. Value(x.container, f) = Value(y.container, f)
    <3>1. CASE f = "runAsNonRoot"
      BY <2>2, <2>3, <3>1 DEF Joined
    <3>2. CASE f = "capabilitiesDrop"
      BY <2>2, <2>3, <3>2 DEF Joined
    <3>3. CASE f \notin {"runAsNonRoot", "capabilitiesDrop"}
      BY <2>2, <2>3, <2>4, <3>3 DEF Joined, Or
    <3>4. QED
      BY <3>1, <3>2, <3>3
  <2>7. QED
    BY <2>5, <2>6
<1> HIDE DEF x, y
<1>4. /\ x.pod \in SomePods /\ y.pod \in SomePods
      /\ x.container \in SomeContainers /\ y.container \in SomeContainers
      /\ x = [pod |-> x.pod, container |-> x.container]
      /\ y = [pod |-> y.pod, container |-> y.container]
  BY <1>2 DEF SomeDefaults
<1>5. x.pod = y.pod
  <2>1. \A f \in PodFields : x.pod[f] = y.pod[f]
    BY <1>3, <1>4 DEF Value, SomePods
  <2>2. QED
    BY <1>4, <2>1 DEF SomePods
<1>6. x.container = y.container
  <2>1. \A f \in ContainerFields : x.container[f] = y.container[f]
    BY <1>3, <1>4 DEF Value, SomeContainers
  <2>2. QED
    BY <1>4, <2>1 DEF SomeContainers
<1>7. QED
  BY <1>4, <1>5, <1>6 DEF a, b, x, y

(* Reports are made of the spec, so they can be merged in either order.    *)
LEMMA InvReproducible ==
  ASSUME HandInv, AgreedUser
  PROVE  Reproducible
<1> SUFFICES ASSUME NEW j \in Survived, NEW k \in Survived
             PROVE  MergeInto(MergeInto(OwnContexts, stored[j]), stored[k])
                      = MergeInto(MergeInto(OwnContexts, stored[k]), stored[j])
  BY DEF Reproducible
<1>1. TypeOK /\ OwnContexts \in SomeDefaults
  BY OwnContextsSome DEF HandInv, TypeInv
<1>2. \A i \in Survived : stored[i] \in Defaults /\ Derived(stored[i])
  BY <1>1 DEF HandInv, Survived, Ended, TypeOK
<1>3. QED
  BY <1>1, <1>2, MergeCommutes

(* The order in which Go's map hands the reports to the merge makes no     *)
(* difference, as long as the spec names no user for the pod that the      *)
(* container does not get.                                                 *)
THEOREM OrderIsIrrelevant ==
  ASSUME AgreedUser PROVE Spec => []Reproducible
<1>1. QED
  BY InvReproducible, InitHandInv, HandInvStep, PTL DEF Spec
============================================================================
