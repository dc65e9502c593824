----------------------------- MODULE HostedHooks -----------------------------
(***************************************************************************)
(* The four hooks that guard the deletion of a hosted cluster.  Requests   *)
(* are those of HookRequests; of the labels of a cluster, the selectors    *)
(* look at [managed, type, environment].  rules are the operation, group   *)
(* and resource that a hook is called for.  A definition has the       *)
(* initials of its hook in front of its name in the source.                *)
(***************************************************************************)
CONSTANT ProtectedNamespaces   \* those that one of protectedNamespacePatterns matches

-----------------------------------------------------------------------------
(* hcpnamespace-validation (pkg/webhooks/hcpnamespace). *)

hcpns_allowedUsers == {
    "system:admin",
    "system:serviceaccount:open-cluster-management-agent:klusterlet-work-sa",
    "system:serviceaccount:open-cluster-management-agent:klusterlet",
    "system:serviceaccount:hypershift:operator",
    "system:serviceaccount:ocm:ocm",
    "system:serviceaccount:kube-system:namespace-controller"}

hcpns_rules == [operations |-> {"DELETE"}, group |-> "", resource |-> "namespaces"]

hcpns_SyncSetLabelSelector(labels) ==
    labels.managed /\ labels.type \in {"management-cluster", "service-cluster"}

hcpns_Validate(r) == r.user.username # "" /\ r.kind = "Namespace"

hcpns_isProtectedNamespace(name) == name \in ProtectedNamespaces

\* Faulty variant: the negation is missing.
hcpns_authorizedIfProtected(r) ==
    \/ r.user.username \in hcpns_allowedUsers
    \/ hcpns_isProtectedNamespace(r.name)
    \/ r.op # "DELETE"

hcpns_authorized(r) ==
    \/ r.user.username \in hcpns_allowedUsers
    \/ ~hcpns_isProtectedNamespace(r.name)
    \/ r.op # "DELETE"

-----------------------------------------------------------------------------
(* hostedcluster-validation (pkg/webhooks/hostedcluster). *)

hc_allowedServiceAccount == "system:serviceaccount:open-cluster-management-agent:klusterlet-work-sa"

hc_rules == [
    operations |-> {"DELETE"}, group |-> "hypershift.openshift.io", resource |-> "hostedclusters"]

hc_SyncSetLabelSelector(labels) == labels.managed /\ labels.type = "management-cluster"

hc_Validate(r) ==
    /\ r.user.username # ""
    /\ r.kind = "HostedCluster" /\ r.group = "hypershift.openshift.io"

\* Faulty variant: the namespace controller is let through.
hc_authorizedNamespaceController(r) ==
    \/ r.user.username \in {hc_allowedServiceAccount,
                            "system:serviceaccount:kube-system:namespace-controller"}
    \/ r.op # "DELETE"

hc_authorized(r) == r.user.username = hc_allowedServiceAccount \/ r.op # "DELETE"

-----------------------------------------------------------------------------
(* hostedcontrolplane-validation (pkg/webhooks/hostedcontrolplane). *)

\* Faulty variant: the operator is missing.
hcp_usernamesWithoutOperator == {
    "system:serviceaccount:open-cluster-management-agent:klusterlet-work-sa",
    "system:serviceaccount:kube-system:generic-garbage-collector"}

hcp_allowedServiceAccountsUsernames == {
    "system:serviceaccount:open-cluster-management-agent:klusterlet-work-sa",
    "system:serviceaccount:kube-system:generic-garbage-collector",
    "system:serviceaccount:hypershift:operator"}

hcp_allowedServiceAccountsNames == {"cluster-api", "control-plane-pki-operator"}

hcp_rules == [
    operations |-> {"DELETE"}, group |-> "hypershift.openshift.io", resource |-> "hostedcontrolplanes"]

hcp_SyncSetLabelSelector(labels) == labels.managed /\ labels.type = "management-cluster"

hcp_Validate(r) ==
    /\ r.user.username # ""
    /\ r.kind = "HostedControlPlane" /\ r.group = "hypershift.openshift.io"

\* r.user.last is what follows the last colon of the username.
hcp_authorized(r) ==
    \/ r.user.username \in hcp_allowedServiceAccountsUsernames
    \/ r.user.last \in hcp_allowedServiceAccountsNames
    \/ r.op # "DELETE"

-----------------------------------------------------------------------------
(* manifestworks-validation (pkg/webhooks/manifestworks). *)

\* Faulty variant: the controllers of kube-system are missing.
mw_accountsWithoutControllers == {
    "system:serviceaccount:ocm:ocm",
    "system:serviceaccount:multicluster-engine:ocm-foundation-sa",
    "system:serviceaccount:multicluster-hub:grc-policy-addon-sa",
    "system:serviceaccount:multicluster-engine:managedcluster-import-controller-v2"}

mw_allowedServiceAccounts == {
    "system:serviceaccount:ocm:ocm",
    "system:serviceaccount:kube-system:generic-garbage-collector",
    "system:serviceaccount:multicluster-engine:ocm-foundation-sa",
    "system:serviceaccount:multicluster-hub:grc-policy-addon-sa",
    "system:serviceaccount:multicluster-engine:managedcluster-import-controller-v2",
    "system:serviceaccount:kube-system:namespace-controller"}

mw_rules == [
    operations |-> {"DELETE"}, group |-> "work.open-cluster-management.io", resource |-> "manifestworks"]

mw_SyncSetLabelSelector(labels) ==
    labels.managed /\ labels.type = "service-cluster" /\ labels.environment # "integration"

mw_Validate(r) ==
    /\ r.user.username # ""
    /\ r.kind = "ManifestWork" /\ r.group = "work.open-cluster-management.io"

mw_authorized(r) == r.user.username \in mw_allowedServiceAccounts \/ r.op # "DELETE"
=============================================================================
