--------------------------- MODULE ClusterRoleBinding ---------------------------
(***************************************************************************)
(* The clusterrolebindings-validation hook (pkg/webhooks/                  *)
(* clusterrolebinding).  The spec of a binding is [subjects, command]: the *)
(* namespaces of the service accounts it binds, and the value of its       *)
(* annotation oc.openshift.io/command.                                     *)
(***************************************************************************)
EXTENDS HookRequests

rules == {Rule({"DELETE"}, {"rbac.authorization.k8s.io"}, {"clusterrolebindings"})}

exceptionNamespaces == {
    "openshift-logging", "openshift-user-workload-monitoring", "openshift-operators",
    "openshift-backplane-managed-scripts", "openshift-gitops"}

Validate(r) == r.user.username # "" /\ r.kind = "ClusterRoleBinding"

renderClusterRoleBinding(r) ==
    IF r.old # None THEN r.old.spec ELSE [subjects |-> {}, command |-> ""]

isAllowedUserGroup(r) == r.user.username = backplane \/ srep \in r.user.groups

\* Faulty variant: one excepted namespace among the subjects is enough.
ProtectedUnlessExcepted(binding) ==
    /\ binding.subjects \cap OpenshiftNamespaces # {}
    /\ binding.subjects \cap exceptionNamespaces = {}

isProtectedNamespace(binding) ==
    \E ns \in binding.subjects : ns \in OpenshiftNamespaces /\ ns \notin exceptionNamespaces

mustGather(r) ==
    /\ renderClusterRoleBinding(r).command = "oc adm must-gather"
    /\ r.user.username = "cluster-admin"

authorized(r) ==
    Verdict(/\ r.user.username # unauthenticated
            /\ \/ r.user.username \in SystemUsers \cup KubeUsers
               \/ ~isProtectedNamespace(renderClusterRoleBinding(r))
               \/ isAllowedUserGroup(r)
               \/ r.op # "DELETE"
               \/ mustGather(r))
=============================================================================
