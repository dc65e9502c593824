-------------------------- MODULE MCNetworkMigration --------------------------
(***************************************************************************)
(* Two network types, two values for every other field, and a requester of *)
(* each kind.  The annotation is nobody's secret: any of them may set it.  *)
(***************************************************************************)
EXTENDS NetworkMigration

MCUser == {
    [username |-> "system:admin", groups |-> {}],
    [username |-> "backplane-cluster-admin", groups |-> {}],
    [username |-> "srep", groups |-> sreAdminGroups],
    [username |-> "customer", groups |-> {"cluster-admins"}]}
=============================================================================
