---------------------------- MODULE NetworkPolicies ----------------------------
(***************************************************************************)
(* The networkpolicies-validation hook (pkg/webhooks/networkpolicies).     *)
(* The spec of a policy is the ingress controller its pod selector names,  *)
(* or None.                                                                *)
(***************************************************************************)
EXTENDS HookRequests

rules == {Rule(Operations, {"networking.k8s.io"}, {"networkpolicies"})}

Validate(r) == r.user.username # "" /\ r.kind = "NetworkPolicy"

isAllowedNamespace(ns) == ~IsPrivilegedNamespace(ns) \/ ns = "openshift-ingress"

isAllowedUser(r) == r.user.username \in {"system:admin", backplane} \/ srep \in r.user.groups

renderNetworkPolicy(r) == NewElseOld(r)

authorized(r) ==
    LET np == renderNetworkPolicy(r)
        privileged == r.user.groups \cap PrivilegedGroups # {}
    IN  IF np = None THEN "undecodable"
        ELSE IF ~isAllowedNamespace(r.ns) THEN Verdict(isAllowedUser(r) \/ privileged)
        ELSE Verdict(\/ r.ns # "openshift-ingress"
                     \/ privileged
                     \/ np.spec \notin {None, "default"})
=============================================================================
