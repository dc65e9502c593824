---------------------------------- MODULE Pod ----------------------------------
(***************************************************************************)
(* The pod-validation hook (pkg/webhooks/pod/pod.go).  The spec of a pod   *)
(* is the set of its tolerations, records [key, effect].                   *)
(***************************************************************************)
EXTENDS HookRequests

rules == {Rule(Operations, {"v1"}, {"pods"})}

Validate(r) == r.user.username # "" /\ r.kind = "Pod"

renderPod(r) == OldElseNew(r)

\* unprivilegedNamespaceRe is not anchored: openshift-operators-redhat matches.
isRequestPrivileged(ns) ==
    /\ IsPrivilegedNamespace(ns)
    /\ ns \notin {"openshift-logging", "openshift-operators", "openshift-operators-redhat"}

tolerates(toleration) ==
    /\ toleration.key \in {"node-role.kubernetes.io/infra", "node-role.kubernetes.io/master"}
    /\ toleration.effect \in {"NoSchedule", "PreferNoSchedule"}

authorized(r) ==
    IF renderPod(r) = None THEN "undecodable"
    ELSE Verdict(\/ isRequestPrivileged(r.ns)
                 \/ \A t \in renderPod(r).spec : ~tolerates(t))
=============================================================================
