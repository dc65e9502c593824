----------------------------- MODULE HiveOwnership -----------------------------
(***************************************************************************)
(* The hiveownership-validation hook (pkg/webhooks/hiveownership).  The    *)
(* spec of a quota is the value of its label hive.openshift.io/managed.    *)
(***************************************************************************)
EXTENDS HookRequests

rules == {Rule({"UPDATE", "DELETE"}, {"quota.openshift.io"}, {"clusterresourcequotas"})}

privilegedUsers == {
    "kube:admin", "system:admin", "system:serviceaccount:kube-system:generic-garbage-collector",
    backplane}

\* Whether an object has the labels the hook is called for.
ObjectSelector(object) == object # None /\ object.spec = "true"

Validate(r) == r.user.username # ""

authorized(r) == Verdict(r.user.username \in privilegedUsers \/ srep \in r.user.groups)
=============================================================================
