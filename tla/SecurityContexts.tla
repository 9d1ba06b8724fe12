-------------------------- MODULE SecurityContexts --------------------------
(***************************************************************************)
(* The security contexts of internal/workload/securityContext.go, of       *)
(* pkg/checks and of the API types.                                        *)
(*                                                                         *)
(* A security context is a function from field names to sets.  The empty   *)
(* set is a field that is nil, or a list that is empty, which              *)
(* ToK8sSecurityContext treats alike; a pointer to v is {v}; the list of   *)
(* dropped capabilities is the set of its members.  "seccompProfile"       *)
(* stands for all fields that the merge treats like it and no check sets   *)
(* (SELinux options, supplemental groups, privileged).  A nil context has  *)
(* no fields at all.                                                       *)
(***************************************************************************)
PodFields == {"runAsUser", "runAsGroup", "fsGroup", "runAsNonRoot",
              "seccompProfile"}

ContainerFields == {"runAsUser", "runAsGroup", "runAsNonRoot",
                    "readOnlyRootFilesystem", "allowPrivilegeEscalation",
                    "capabilitiesDrop", "seccompProfile"}

NilContext == [f \in {} |-> {}]
EmptyPod == [f \in PodFields |-> {}]
EmptyContainer == [f \in ContainerFields |-> {}]

(* SecurityContextDefaults: the two halves, each of which may be nil.      *)
NilDefaults == [pod |-> NilContext, container |-> NilContext]
EmptyDefaults == [pod |-> EmptyPod, container |-> EmptyContainer]

IsNil(c) == DOMAIN c = {}

IsEmpty(s) == /\ \A f \in DOMAIN s.pod : s.pod[f] = {}
              /\ \A f \in DOMAIN s.container : s.container[f] = {}

---------------------------------------------------------------------------
(* The merge: what `base` sets stays, what it leaves nil is taken from     *)
(* `extends`.                                                              *)
Or(base, extends) == IF base # {} THEN base ELSE extends

MergePod(base, extends) ==
  IF IsNil(base) THEN extends
  ELSE IF IsNil(extends) THEN base
  ELSE [f \in PodFields |-> Or(base[f], extends[f])]

(* Mutant of MergeContainer: capabilities are not merged.                  *)
MergeContainerForgets(base, extends) ==
  IF IsNil(base) THEN extends
  ELSE IF IsNil(extends) THEN base
  ELSE [f \in ContainerFields |->
          IF f \in {"runAsNonRoot", "capabilitiesDrop"} THEN base[f]
          ELSE Or(base[f], extends[f])]

(* Dropped capabilities are united; RunAsNonRoot of `extends` is ignored   *)
(* unless `base` is nil.                                                   *)
MergeContainer(base, extends) ==
  IF IsNil(base) THEN extends
  ELSE IF IsNil(extends) THEN base
  ELSE [f \in ContainerFields |->
          IF f = "runAsNonRoot" THEN base[f]
          ELSE IF f = "capabilitiesDrop" THEN base[f] \cup extends[f]
          ELSE Or(base[f], extends[f])]

(* ApplyCheckSecurityContext and ApplySecurityContext on a pod template:   *)
(* every container and init container gets the same container context.     *)
ApplySecurityContext(template, s) ==
  [pod        |-> MergePod(template.pod, s.pod),
   containers |-> [c \in DOMAIN template.containers |->
                     MergeContainer(template.containers[c], s.container)]]

---------------------------------------------------------------------------
(* pkg/checks.  A check fills in the fields it is about that are not set.  *)
Fill(c, f, v) == [c EXCEPT ![f] = Or(@, v)]

(* Mutant of UserCheck: another user than the one of the group check.      *)
UserCheckNobody(s) ==
  [pod       |-> Fill(Fill(s.pod, "runAsUser", {"65534"}), "runAsNonRoot", {"true"}),
   container |-> Fill(Fill(s.container, "runAsUser", {"65534"}),
                      "runAsNonRoot", {"true"})]

UserCheck(s) ==
  [pod       |-> Fill(Fill(s.pod, "runAsUser", {"1000"}), "runAsNonRoot", {"true"}),
   container |-> Fill(Fill(s.container, "runAsUser", {"1000"}),
                      "runAsNonRoot", {"true"})]

GroupCheck(s) ==
  LET user  == Or(s.pod["runAsUser"], {"1000"})
      group == Or(s.pod["runAsGroup"], user)
  IN  [pod       |-> [s.pod EXCEPT !["runAsUser"] = user,
                                   !["runAsGroup"] = group,
                                   !["fsGroup"] = Or(@, group)],
       container |-> Fill(Fill(s.container, "runAsUser", user),
                          "runAsGroup", group)]

ContainerCheck(s, f, v) == [pod |-> s.pod, container |-> Fill(s.container, f, v)]

CheckTypes == {"user", "group", "readOnlyRootFilesystem",
               "allowPrivilegeEscalation", "dropAllCapabilities"}

GetSecurityContextDefaults(k, s) ==
  IF k = "user" THEN UserCheck(s)
  ELSE IF k = "group" THEN GroupCheck(s)
  ELSE IF k = "readOnlyRootFilesystem" THEN ContainerCheck(s, k, {"true"})
  ELSE IF k = "allowPrivilegeEscalation" THEN ContainerCheck(s, k, {"false"})
  ELSE ContainerCheck(s, "capabilitiesDrop", {"ALL"})

(* The halves that a check dereferences.                                   *)
Dereferences(k) == IF k \in {"user", "group"} THEN {"pod", "container"}
                   ELSE {"container"}

(* ShouldRun: the template does not set what the check is about yet.  A    *)
(* nil context sets nothing.  Only containers count, not init containers.  *)
Sets(c, f) == f \in DOMAIN c /\ c[f] # {}

ShouldRun(k, template, containers) ==
  CASE k = "user"  -> ~Sets(template.pod, "runAsUser") \/ ~Sets(template.pod, "runAsNonRoot")
    [] k = "group" -> ~Sets(template.pod, "runAsGroup") \/ ~Sets(template.pod, "fsGroup")
    [] k = "readOnlyRootFilesystem" ->
         \E c \in containers : Sets(template.containers[c], k)
                                 => template.containers[c][k] # {"true"}
    [] k = "allowPrivilegeEscalation" ->
         \E c \in containers : Sets(template.containers[c], k)
                                 => template.containers[c][k] # {"false"}
    [] k = "dropAllCapabilities" ->
         \E c \in containers : ~Sets(template.containers[c], "capabilitiesDrop")
============================================================================
