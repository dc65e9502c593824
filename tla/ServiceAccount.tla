----------------------------- MODULE ServiceAccount -----------------------------
(***************************************************************************)
(* The serviceaccount-validation hook (pkg/webhooks/serviceaccount).       *)
(***************************************************************************)
EXTENDS HookRequests

rules == {Rule({"DELETE"}, {""}, {"serviceaccounts"})}

exceptionNamespaces == {
    "default", "openshift-logging", "openshift-user-workload-monitoring", "openshift-operators"}

Validate(r) == r.user.username # "" /\ r.kind = "ServiceAccount"

renderServiceAccount(r) == IF r.old # None THEN r.name ELSE ""

isAllowedUserGroup(r) == r.user.username = backplane \/ srep \in r.user.groups

isProtectedNamespace(r) == IsPrivilegedNamespace(r.ns) /\ r.ns \notin exceptionNamespaces

isAllowedServiceAccount(name) == name \in {"builder", "default", "deployer"}

authorized(r) ==
    Verdict(/\ r.user.username # unauthenticated
            /\ \/ r.user.username \in SystemUsers \cup KubeUsers
               \/ ~isProtectedNamespace(r)
               \/ isAllowedUserGroup(r)
               \/ r.op # "DELETE"
               \/ isAllowedServiceAccount(renderServiceAccount(r)))
=============================================================================
