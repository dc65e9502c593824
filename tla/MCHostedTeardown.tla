---------------------------- MODULE MCHostedTeardown ----------------------------
(***************************************************************************)
(* One hosted cluster, from its ManifestWork on a service cluster to its   *)
(* control plane on a management cluster.                                  *)
(***************************************************************************)
EXTENDS HostedTeardown, Sequences

Account(namespace, name) ==
    [username |-> "system:serviceaccount:" \o namespace \o ":" \o name, last |-> name]

Person(name) == [username |-> name, last |-> name]

workAgent == Account("open-cluster-management-agent", "klusterlet-work-sa")
operator == Account("hypershift", "operator")
collector == Account("kube-system", "generic-garbage-collector")
nobody == Person("nobody")

MCUser == {
    Account("ocm", "ocm"), Account("ocm-production-a-cp", "cluster-api"),
    [username |-> "system:admin", last |-> "admin"], Person("backplane-cluster-admin")}

MCLabels == [
    service |-> [managed |-> TRUE, type |-> "service-cluster", environment |-> "production"],
    management |-> [managed |-> TRUE, type |-> "management-cluster", environment |-> "production"]]

It(kind, name, ns, cluster, parent, agent) ==
    [kind |-> kind, name |-> name, ns |-> ns, cluster |-> cluster, parent |-> parent, agent |-> agent]

MCItem == {
    It("Namespace", "hs-mc-1", "", "service", "", nobody),
    It("Secret", "cluster", "hs-mc-1", "service", "", nobody),
    It("ManifestWork", "work", "hs-mc-1", "service", "cluster", collector),
    It("Namespace", "ocm-production-a", "", "management", "work", workAgent),
    It("HostedCluster", "a", "ocm-production-a", "management", "work", workAgent),
    It("Namespace", "ocm-production-a-cp", "", "management", "a", operator),
    It("HostedControlPlane", "a-cp", "ocm-production-a-cp", "management", "a", operator)}
=============================================================================
