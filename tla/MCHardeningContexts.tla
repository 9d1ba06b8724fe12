------------------------ MODULE MCHardeningContexts -------------------------
(***************************************************************************)
(* Instances of HardeningContexts for TLC: pod templates and specs that    *)
(* set a few fields.                                                       *)
(***************************************************************************)
EXTENDS HardeningContexts

MCValues == {"1000", "2000", "3000", "true", "false", "ALL", "NET_RAW",
             "SYS_TIME", "RuntimeDefault"}

SetPod(f, v) == [EmptyPod EXCEPT ![f] = {v}]
SetContainer(f, v) == [EmptyContainer EXCEPT ![f] = {v}]

(* A main container, a side car and an init container.                     *)
MCContainers == {"main", "side", "init"}
Template(pod, main, side) ==
  [pod |-> pod,
   containers |-> [c \in MCContainers |-> IF c = "main" THEN main
                                          ELSE IF c = "side" THEN side ELSE NilContext]]

Plain == Template(NilContext, NilContext, NilContext)

MCTemplates ==
  {Template(pod, main, side) :
     pod  \in {NilContext, SetPod("runAsUser", "3000"), SetPod("seccompProfile", "RuntimeDefault")},
     main \in {NilContext, EmptyContainer, SetContainer("capabilitiesDrop", "NET_RAW"),
               SetContainer("readOnlyRootFilesystem", "false")},
     side \in {NilContext, SetContainer("runAsGroup", "3000")}}

MCPlain == {Plain}

Halves(pod, container) == [pod |-> pod, container |-> container]

MCNoSpec == {NilDefaults}
MCSomeSpecs ==
  {Halves(pod, container) :
     pod \in {EmptyPod, SetPod("fsGroup", "2000")},
     container \in {EmptyContainer, SetContainer("capabilitiesDrop", "SYS_TIME"),
                    SetContainer("allowPrivilegeEscalation", "false")}}
MCUserSpec == {Halves(SetPod("runAsUser", "2000"), EmptyContainer)}
MCContainerSpec == {Halves(NilContext, SetContainer("capabilitiesDrop", "SYS_TIME"))}
MCSpecs == MCNoSpec \cup MCSomeSpecs \cup MCContainerSpec
============================================================================
