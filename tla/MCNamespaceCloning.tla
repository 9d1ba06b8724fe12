------------------------- MODULE MCNamespaceCloning -------------------------
(***************************************************************************)
(* Instances of NamespaceCloning for TLC.                                  *)
(***************************************************************************)
EXTENDS NamespaceCloning

CONSTANTS c1, c2

MCSuffixOf == [c \in Checks |-> IF c = c1 THEN "s1" ELSE "s2"]

baseline == <<"b", "a", "s", "e", "l", "i", "n", "e">>
MCSpelling ==
  [t \in Types |-> CASE t = "baseline"   -> baseline
                     [] t = "baseline-2" -> baseline \o <<"-", "2">>
                     [] t = "user"       -> <<"u", "s", "e", "r">>]

Object(kind, plural, owned, auto) ==
  [kind |-> kind, plural |-> plural, owned |-> owned, auto |-> auto]

(* A deployment and its pod, a secret, the root certificate, endpoints.    *)
MCResources ==
  {Object("deployment", "deployments", FALSE, FALSE),
   Object("pod", "pods", TRUE, FALSE),
   Object("secret", "secrets", FALSE, FALSE),
   Object("configmap", "configmaps", FALSE, TRUE),
   Object("endpoints", "endpoints", FALSE, FALSE)}

MCDeployment == {Object("deployment", "deployments", FALSE, FALSE)}
============================================================================
