---------------------------------- MODULE SCC ----------------------------------
(***************************************************************************)
(* The scc-validation hook (pkg/webhooks/scc/scc.go).                      *)
(***************************************************************************)
EXTENDS HookRequests

rules == {Rule({"UPDATE", "DELETE"}, {"security.openshift.io"}, {"securitycontextconstraints"})}

allowedUsers == {
    "system:serviceaccount:openshift-kube-apiserver-operator:kube-apiserver-operator",
    "system:serviceaccount:openshift-monitoring:cluster-monitoring-operator",
    "system:serviceaccount:openshift-cluster-version:default", "system:admin"}

defaultSCCs == {
    "anyuid", "hostaccess", "hostmount-anyuid", "hostnetwork", "hostnetwork-v2",
    "node-exporter", "nonroot", "nonroot-v2", "privileged", "restricted", "restricted-v2"}

Validate(r) == r.user.username # "" /\ r.kind = "SecurityContextConstraints"

\* The name of the old object; an object without a name if there is none.
renderSCC(r) == IF r.old # None THEN r.name ELSE ""

\* The list of allowed groups is empty.
isAllowedUserGroup(r) == r.user.username \in allowedUsers

isDefaultSCC(name) == name \in defaultSCCs

authorized(r) ==
    Verdict(~ (/\ isDefaultSCC(renderSCC(r)) /\ ~isAllowedUserGroup(r)
               /\ r.op \in {"DELETE", "UPDATE"}))
=============================================================================
