------------------------------- MODULE MCObjects -------------------------------
(***************************************************************************)
(* An object of each kind the hooks tell apart, contents on both sides of  *)
(* every check, and a requester of each kind.                              *)
(***************************************************************************)
EXTENDS Objects

controller == "system:serviceaccount:openshift-ingress-operator:ingress-operator"

MCServiceAccountUsers == {
    controller,
    "system:serviceaccount:openshift-kube-apiserver-operator:kube-apiserver-operator",
    "system:serviceaccount:openshift-monitoring:cluster-monitoring-operator",
    "system:serviceaccount:openshift-cluster-version:default",
    "system:serviceaccount:openshift-cluster-version:cluster-version-operator",
    "system:serviceaccount:openshift-managed-upgrade-operator:managed-upgrade-operator",
    "system:serviceaccount:openshift-cluster-node-tuning-operator:cluster-node-tuning-operator",
    "system:serviceaccount:openshift-machine-config-operator:machine-config-controller",
    "system:serviceaccount:kube-system:generic-garbage-collector"}
MCSystemUsers == MCServiceAccountUsers \cup {unauthenticated, "system:admin"}

MCPrivilegedGroups == {
    srep, "system:serviceaccounts:openshift-backplane-cee",
    "system:serviceaccounts:openshift-ingress-operator"}

MCUser == {
    [username |-> unauthenticated, groups |-> {}],
    [username |-> "system:admin", groups |-> {}],
    [username |-> "kube:admin", groups |-> {}],
    [username |-> "system:serviceaccount:openshift-cluster-version:default", groups |-> {}],
    [username |-> controller, groups |-> {"system:serviceaccounts:openshift-ingress-operator"}],
    [username |-> "sre", groups |-> {srep}],
    [username |-> "cluster-admin", groups |-> {"cluster-admins"}],
    [username |-> "customer", groups |-> {"dedicated-admins"}]}

\* The namespaces and names of the kinds whose hook looks at them.
Namespaces == [
    ConfigMap |-> {"openshift-config", "team"}, ServiceAccount |-> {"openshift-config", "openshift-logging", "team"},
    NetworkPolicy |-> {"openshift-config", "openshift-ingress", "team"},
    PrometheusRule |-> {"openshift-config", "openshift-customer-monitoring"},
    Pod |-> {"openshift-logging", "team"}]
Names == [
    ClusterRole |-> {"view", "backplane-reader", "custom"}, ConfigMap |-> {"user-ca-bundle", "custom"},
    CustomResourceDefinition |-> {"probes.monitoring.coreos.com", "custom"},
    NetNamespace |-> {"openshift-config", "com", "team"},
    SecurityContextConstraints |-> {"restricted", "custom"}, ServiceAccount |-> {"builder", "custom"}]
Of(table, kind) == IF kind \in DOMAIN table THEN table[kind] ELSE {"custom"}

MCObject == UNION {
    [kind : {k}, ns : Of(Namespaces, k), name : Of(Names, k)] : k \in DOMAIN Kinds}

\* 2^16 + 1 hours are as many seconds as one hour, modulo 2^20.
Ages == {cl!Age(1, "h"), cl!Age(7, "d"), cl!Age(169, "H"), cl!Age(1, "x"), cl!Age(2 ^ 16 + 1, "h"), None}

Specs(kind) ==
    CASE kind = "ClusterLogging" ->
            [app : Ages, infra : {cl!Age(60, "m")}, audit : {cl!Age(3600, "s")}] \cup
            [app : {cl!Age(1, "h")}, infra : {cl!Age(59, "m")}, audit : {None}] \cup {None}
      [] kind = "ClusterResourceQuota" -> {"true", ""}
      [] kind = "ClusterRoleBinding" ->
            [subjects : SUBSET {"openshift-config", "openshift-gitops"}, command : {"oc adm must-gather", ""}]
      [] kind = "FeatureGate" -> {"TechPreviewNoUpgrade", ""}
      [] kind \in {"ImageDigestMirrorSet", "ImageTagMirrorSet", "ImageContentSourcePolicy"} ->
            SUBSET {"quay.io", "example.com"}
      [] kind = "IngressController" -> (SUBSET {"node-role.kubernetes.io/master", "custom"}) \cup {None}
      [] kind = "NetworkPolicy" -> {None, "default", "custom"}
      [] kind = "Node" -> SUBSET {"node-role.kubernetes.io/infra", "custom"}
      [] kind = "Pod" -> SUBSET [key : {"node-role.kubernetes.io/infra"}, effect : {"NoSchedule", "NoExecute"}]
      [] kind = "PrometheusRule" -> {"stackrox", ""}
      [] OTHER -> {""}

\* The rest of an object, where a property compares it.
Versions(kind) ==
    IF kind \in {"ClusterLogging", "ClusterRoleBinding", "FeatureGate", "ImageDigestMirrorSet",
                "ImageTagMirrorSet", "ImageContentSourcePolicy", "IngressController", "NetworkPolicy", "Node", "Pod"}
    THEN 1 ELSE 2

MCContent(kind) == [spec : Specs(kind), rest : 1 .. Versions(kind)]
=============================================================================
