----------------------------- MODULE IngressConfig -----------------------------
(***************************************************************************)
(* The ingress-config-validation hook (pkg/webhooks/ingressconfig).        *)
(***************************************************************************)
EXTENDS HookRequests

rules == {Rule(Operations, {"config.openshift.io"}, {"ingresses"})}

Validate(r) == r.user.username # "" /\ r.kind = "Ingress"

Authorized(r) ==
    Verdict(\/ r.user.groups \cap PrivilegedGroups # {}
            \/ r.user.username \in SystemAdminLike)
=============================================================================
