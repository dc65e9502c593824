------------------------------ MODULE ClusterRole ------------------------------
(***************************************************************************)
(* The clusterroles-validation hook (pkg/webhooks/clusterrole).            *)
(***************************************************************************)
EXTENDS HookRequests

rules == {Rule({"DELETE"}, {"rbac.authorization.k8s.io"}, {"clusterroles"})}

protectedClusterRoles == {
    "cluster-admin", "view", "edit", "admin", "system:admin", "system:node",
    "system:kube-scheduler", "system:kube-controller-manager"}

Validate(r) == r.user.username # "" /\ r.kind = "ClusterRole"

renderClusterRole(r) == IF r.old # None THEN r.name ELSE ""

isAllowedUserGroup(r) == r.user.username = backplane \/ srep \in r.user.groups

isProtectedClusterRole(name) == name \in protectedClusterRoles \cup BackplaneRoles

\* system:admin is the one "system:" user that is not let through at once.
authorized(r) ==
    Verdict(/\ r.user.username # unauthenticated
            /\ \/ r.user.username \in SystemUsers \ {"system:admin"}
               \/ r.user.username \in KubeUsers
               \/ ~isProtectedClusterRole(renderClusterRole(r))
               \/ isAllowedUserGroup(r)
               \/ r.op # "DELETE")
=============================================================================
