------------------------------ MODULE RegularUser ------------------------------
(***************************************************************************)
(* The regular-user-validation hook (pkg/webhooks/regularuser/common).     *)
(***************************************************************************)
EXTENDS HookRequests

clusterVersionUsers == {
    "system:serviceaccount:openshift-managed-upgrade-operator:managed-upgrade-operator",
    "system:serviceaccount:openshift-cluster-version:default",
    "system:serviceaccount:openshift-cluster-version:cluster-version-operator"}

machineConfigUsers == {
    "system:serviceaccount:openshift-cluster-node-tuning-operator:cluster-node-tuning-operator",
    "system:serviceaccount:openshift-machine-config-operator:machine-config-controller",
    "system:admin"}

ceeGroup == "system:serviceaccounts:openshift-backplane-cee"

rules == {
    Rule(Operations,
         {"cloudcredential.openshift.io", "machine.openshift.io", "admissionregistration.k8s.io",
          "addons.managed.openshift.io", "cloudingress.managed.openshift.io",
          "managed.openshift.io", "ocmagent.managed.openshift.io",
          "splunkforwarder.managed.openshift.io", "upgrade.managed.openshift.io"},
         {"*/*"}),
    Rule(Operations, {"autoscaling.openshift.io"}, {"clusterautoscalers", "machineautoscalers"}),
    Rule(Operations, {"config.openshift.io"},
         {"clusterversions", "clusterversions/status", "schedulers", "apiservers", "proxies"}),
    Rule(Operations, {""}, {"configmaps"}),
    Rule(Operations, {"machineconfiguration.openshift.io"}, {"machineconfigs", "machineconfigpools"}),
    Rule(Operations, {"operator.openshift.io"}, {"kubeapiservers", "openshiftapiservers"}),
    Rule(Operations, {"managed.openshift.io"}, {"subjectpermissions", "subjectpermissions/*"}),
    Rule(Operations, {"network.openshift.io"}, {"netnamespaces", "netnamespaces/*"})}

Validate(r) == r.user.username # ""

customerAdmin(r) == r.user.groups \cap {"cluster-admins", "dedicated-admins"} # {}

isMustGatherAuthorized(r) == ceeGroup \in r.user.groups

isCustomDomainAuthorized(r) == customerAdmin(r)

\* A deletion has no new object, and so is never valid.
isNetNamespaceValid(r) ==
    r.new # None /\ r.name \notin BadNamespaces /\ ~IsPrivilegedNamespace(r.name)

isNetNamespaceAuthorized(r) == customerAdmin(r) /\ isNetNamespaceValid(r)

isClusterVersionAuthorized(r) ==
    \/ r.user.username \in clusterVersionUsers \cup {backplane}
    \/ srep \in r.user.groups
    \/ r.user.username \in SystemUsers \ ServiceAccountUsers

isMachineConfigAuthorized(r) ==
    \/ "cluster-admins" \in r.user.groups
    \/ r.user.username \in machineConfigUsers \cup {backplane}

shouldAllowConfigMapChange(r) ==
    /\ (IF r.op = "DELETE" THEN r.old ELSE r.new) # None
    /\ r.name # "user-ca-bundle" \/ r.ns # "openshift-config"

\* The kinds of the switch whose test failed go on to the later checks, save
\* ClusterVersion.
laterChecks(r) ==
    \/ r.user.username \in SystemUsers \cup {backplane}
    \/ srep \in r.user.groups
    \/ r.kind = "ConfigMap" /\ shouldAllowConfigMapChange(r)

\* Faulty variant: the later checks come before the switch.
authorizedLaterFirst(r) ==
    Verdict(/\ r.user.username # unauthenticated
            /\ r.user.username \in KubeUsers \/ laterChecks(r) \/ isMachineConfigAuthorized(r))

authorized(r) ==
    LET is(kind, group) == RequestMatchesGroupKind(r, kind, group)
    IN  Verdict(
        /\ r.user.username # unauthenticated
        /\ IF r.group = "machineconfiguration.openshift.io" THEN isMachineConfigAuthorized(r)
           ELSE \/ r.user.username \in KubeUsers
                \/ IF is("ClusterVersion", "config.openshift.io") THEN isClusterVersionAuthorized(r)
                   ELSE \/ is("MustGather", "managed.openshift.io") /\ isMustGatherAuthorized(r)
                        \/ is("CustomDomain", "managed.openshift.io") /\ isCustomDomainAuthorized(r)
                        \/ is("NetNamespace", "network.openshift.io") /\ isNetNamespaceAuthorized(r)
                        \/ laterChecks(r))
=============================================================================
