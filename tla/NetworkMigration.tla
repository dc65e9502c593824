---------------------------- MODULE NetworkMigration ----------------------------
(***************************************************************************)
(* The two hooks around a change of the cluster network, in front of the   *)
(* objects they guard: sdnmigration-validation for the config Network      *)
(* (pkg/webhooks/sdnmigration) and network-operator-validation for         *)
(* spec.migration of the operator Network (pkg/webhooks/networkoperator).  *)
(*                                                                         *)
(* Both hooks see updates only.  The Cluster Network Operator, external,   *)
(* brings status.networkType in line with spec.networkType.                *)
(***************************************************************************)

CONSTANTS
    NetworkType,          \* values of networkType
    Field,                \* values of mode, features and the two MTU ranges
    User,                 \* requesters: records [username, groups]
    PrivilegedSAGroups,   \* groups that privilegedServiceAccountsRe matches
    Nil                   \* a nil pointer

privilegedHiveUserAccount == "system:admin"

allowedUsers ==
    {"backplane-cluster-admin",
     "system:serviceaccount:openshift-network-operator:cluster-network-operator",
     "system:serviceaccount:openshift-managed-upgrade-operator:managed-upgrade-operator"}

sreAdminGroups == {"system:serviceaccounts:openshift-backplane-srep"}

\* spec.migration, through its pointers.
MTUMigration == [network : Field \cup {Nil}, machine : Field \cup {Nil}]
NetworkMigrationSpec ==
    [networkType : NetworkType, mode : Field, features : Field \cup {Nil},
     mtu : MTUMigration \cup {Nil}]
Migration == NetworkMigrationSpec \cup {Nil}

ASSUME NetworkAssumption ==
    Nil \notin User /\ Nil \notin MTUMigration /\ Nil \notin NetworkMigrationSpec

VARIABLES
    spec,        \* spec.networkType of the config Network
    status,      \* its status.networkType
    override,    \* its annotation unsupported-red-hat-internal-testing is "true"
    migration,   \* spec.migration of the operator Network
    author,      \* history: the last requester to change spec, and whether the
                 \* override annotation was there when they did
    migrator     \* history: the last requester to change spec.migration, or Nil

vars == <<spec, status, override, migration, author, migrator>>

-----------------------------------------------------------------------------
(* sdnmigration-validation. *)

PrivilegedConfigUser(user) ==
    \/ user.username = privilegedHiveUserAccount
    \/ user.groups \cap PrivilegedSAGroups # {}

\* Faulty variant: the annotation of the new object counts.
ConfigAuthorizedByNew(user, new) ==
    PrivilegedConfigUser(user) \/ new.override \/ new.spec = status

\* The annotation counts if the stored object has it; the new type is compared
\* with the status of the stored object.
ConfigAuthorized(user, new) ==
    \/ PrivilegedConfigUser(user)
    \/ override
    \/ new.spec = status

-----------------------------------------------------------------------------
(* network-operator-validation. *)

\* Faulty variant: the MTU ranges are not looked into.
ShallowMigrationChanges(old, new) ==
    \/ (old = Nil) # (new = Nil)
    \/ /\ old # Nil /\ new # Nil
       /\ \/ old.networkType # new.networkType
          \/ old.mode # new.mode
          \/ old.features # new.features
          \/ (old.mtu = Nil) # (new.mtu = Nil)

\* Pointers are compared for nil and then by what they point to.
PointeeChanged(old, new) ==
    \/ (old = Nil) # (new = Nil)
    \/ old # Nil /\ new # Nil /\ old # new

hasCriticalMigrationFieldChanges(old, new) ==
    \/ (old = Nil) # (new = Nil)
    \/ /\ old # Nil /\ new # Nil
       /\ \/ old.networkType # new.networkType
          \/ old.mode # new.mode
          \/ PointeeChanged(old.features, new.features)
          \/ (old.mtu = Nil) # (new.mtu = Nil)
          \/ /\ old.mtu # Nil /\ new.mtu # Nil
             /\ \/ PointeeChanged(old.mtu.network, new.mtu.network)
                \/ PointeeChanged(old.mtu.machine, new.mtu.machine)

isAllowedUserGroup(user) ==
    \/ user.username \in allowedUsers
    \/ user.groups \cap sreAdminGroups # {}

OperatorAuthorized(user, new) ==
    hasCriticalMigrationFieldChanges(migration, new) => isAllowedUserGroup(user)

-----------------------------------------------------------------------------
Nobody == [user |-> Nil, overridden |-> FALSE]

Init ==
    /\ spec \in NetworkType
    /\ status = spec
    /\ override = FALSE
    /\ migration = Nil
    /\ author = Nobody
    /\ migrator = Nil

\* Whoever may update the config Network updates its spec and annotations.
UpdateConfig(user) ==
    /\ \E new \in [spec : NetworkType, override : BOOLEAN] :
         /\ ConfigAuthorized(user, new)
         /\ spec' = new.spec
         /\ override' = new.override
         /\ author' = IF new.spec # spec
                      THEN [user |-> user, overridden |-> override] ELSE author
    /\ UNCHANGED <<status, migration, migrator>>

UpdateOperator(user) ==
    /\ \E m \in Migration :
         /\ OperatorAuthorized(user, m)
         /\ migration' = m
         /\ migrator' = IF m # migration THEN user ELSE migrator
    /\ UNCHANGED <<spec, status, override, author>>

\* The operator has moved the cluster to the network asked for.
Migrated ==
    /\ status # spec
    /\ status' = spec
    /\ UNCHANGED <<spec, override, migration, author, migrator>>

Next ==
    \/ \E user \in User : UpdateConfig(user) \/ UpdateOperator(user)
    \/ Migrated

Spec == Init /\ [][Next]_vars

-----------------------------------------------------------------------------
(* Properties. *)

\* The type invariant.
TypeOK ==
    /\ spec \in NetworkType /\ status \in NetworkType
    /\ override \in BOOLEAN
    /\ migration \in Migration
    /\ author \in [user : User \cup {Nil}, overridden : BOOLEAN]
    /\ migrator \in User \cup {Nil}

(***************************************************************************)
(* A network change is under way (spec differs from status) only if hive,  *)
(* a privileged service account or someone on a cluster that carried the   *)
(* override annotation asked for it: not through any sequence of other     *)
(* updates, before, during or after a migration.                           *)
(***************************************************************************)
NoMigrationByCustomers ==
    spec # status =>
      /\ author.user # Nil
      /\ author.overridden \/ PrivilegedConfigUser(author.user)

(***************************************************************************)
(* Users other than backplane-cluster-admin, SRE, CNO and MUO never change *)
(* any part of spec.migration, "not ... even for cluster-admin users": the *)
(* comparison through pointers finds every difference.                     *)
(***************************************************************************)
MigrationByAllowedOnly == migrator # Nil => isAllowedUserGroup(migrator)
=============================================================================
