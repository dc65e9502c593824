------------------------------ MODULE MCNamespace ------------------------------
(***************************************************************************)
(* A namespace of each kind of name, and a requester of each kind.         *)
(***************************************************************************)
EXTENDS Namespace, TLC

quotaExempt == {"storage-pv-quota-exempt", "service-lb-quota-exempt"}

MCUser == {
    [username |-> "kube:admin", groups |-> {}],
    [username |-> "backplane", groups |-> sreAdminGroups],
    [username |-> "builder", groups |-> {"system:serviceaccounts:openshift-build"}],
    [username |-> "layered", groups |-> {layeredProductAdminGroupName}],
    [username |-> "customer", groups |-> {"dedicated-admins"}]}
=============================================================================
