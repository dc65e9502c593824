----------------------------- MODULE HookRequests -----------------------------
(***************************************************************************)
(* What the hooks of pkg/webhooks share: the request they are given, the   *)
(* way they answer, the lists of pkg/webhooks/utils and pkg/config.        *)
(*                                                                         *)
(* A request is a record [user, op, group, kind, ns, name, old, new]; user *)
(* is [username, groups], and old and new are the object before and after, *)
(* or None.  An object is [spec, rest]: spec is what the hook of its kind  *)
(* reads, rest everything else.  A regular expression or a prefix is the   *)
(* set of names, groups or keys it matches.                                *)
(***************************************************************************)
EXTENDS Naturals

CONSTANTS
    SystemUsers,            \* usernames that begin with "system:"
    ServiceAccountUsers,    \* usernames that begin with "system:serviceaccount:"
    KubeUsers,              \* usernames that begin with "kube:"
    SystemAdminLike,        \* usernames that `system:admin` matches anywhere
    PrivilegedGroups,       \* groups that PrivilegedServiceAccountGroups matches
    PrivilegedNamespaces,   \* namespaces that IsPrivilegedNamespace matches
    BadNamespaces,          \* namespaces that BadNamespaceRe matches
    BackplaneRoles,         \* names that begin with "backplane-"
    OpenshiftNamespaces,    \* namespaces that `(^openshift-.*|kube-system)` matches
    MasterKeys,             \* keys that contain "node-role.kubernetes.io/master"
    UnauthorizedMirrors,    \* sources that unauthorizedRepositoryMirrors matches
    Width,                  \* the bits of an unsigned integer
    None                    \* no object; an unset field

Uint == 2 ^ Width

srep == "system:serviceaccounts:openshift-backplane-srep"
backplane == "backplane-cluster-admin"
unauthenticated == "system:unauthenticated"

ASSUME HookRequestsAssumption ==
    /\ Uint \in Nat /\ Uint > 7 * 24 * 60 * 60
    /\ ServiceAccountUsers \subseteq SystemUsers
    /\ SystemAdminLike \subseteq SystemUsers \ {unauthenticated}
    /\ {"system:admin", unauthenticated} \subseteq SystemUsers \ ServiceAccountUsers
    /\ "kube:admin" \in KubeUsers /\ KubeUsers \cap SystemUsers = {}
    /\ backplane \notin SystemUsers \cup KubeUsers
    /\ srep \in PrivilegedGroups

\* What a hook answers.  An answer without a UID, and a handler that panics,
\* are no answer to the API server.
Verdict(allowed) == IF allowed THEN "allow" ELSE "deny"

Rule(operations, groups, resources) ==
    [operations |-> operations, groups |-> groups, resources |-> resources]

Operations == {"CREATE", "UPDATE", "DELETE"}

\* renderX: the old object if the request has one, else the new one; and the
\* other way round.
OldElseNew(r) == IF r.old # None THEN r.old ELSE r.new
NewElseOld(r) == IF r.new # None THEN r.new ELSE r.old

IsPrivilegedNamespace(ns) == ns \in PrivilegedNamespaces

IsProtectedByResourceName(name) == name \in {
    "alertmanagerconfigs.monitoring.coreos.com", "alertmanagers.monitoring.coreos.com",
    "prometheuses.monitoring.coreos.com", "thanosrulers.monitoring.coreos.com",
    "podmonitors.monitoring.coreos.com", "probes.monitoring.coreos.com",
    "prometheusrules.monitoring.coreos.com", "servicemonitors.monitoring.coreos.com",
    "prometheusagents.monitoring.coreos.com", "scrapeconfigs.monitoring.coreos.com"}

RequestMatchesGroupKind(r, kind, group) == r.kind = kind /\ r.group = group
=============================================================================
