--------------------------- MODULE IngressController ---------------------------
(***************************************************************************)
(* The ingresscontroller-validation hook.  The spec of an ingress          *)
(* controller is the set of keys its node placement tolerates, or None     *)
(* without a node placement.                                               *)
(***************************************************************************)
EXTENDS HookRequests

rules == {Rule({"CREATE", "UPDATE"}, {"operator.openshift.io"},
               {"ingresscontroller", "ingresscontrollers"})}

Validate(r) == r.user.username # "" /\ r.kind = "IngressController"

renderIngressController(r) == r.new

isAllowedUser(r) == r.user.username = backplane

\* ic.Spec.NodePlacement is a pointer that the loop dereferences.
authorized(r) ==
    LET ic == renderIngressController(r)
    IN  IF ic = None THEN "undecodable"
        ELSE IF r.user.username = unauthenticated THEN "deny"
        ELSE IF r.user.username \in SystemUsers \cup KubeUsers \/ isAllowedUser(r) THEN "allow"
        ELSE IF ic.spec = None THEN "panic"
        ELSE Verdict(ic.spec \cap MasterKeys = {})
=============================================================================
