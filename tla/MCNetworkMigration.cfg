CONSTANTS
    NetworkType = {"OpenShiftSDN", "OVNKubernetes"}
    Field = {f1, f2}
    User <- MCUser
    PrivilegedSAGroups = {"system:serviceaccounts:openshift-backplane-srep"}
    Nil = Nil
SPECIFICATION Spec
INVARIANTS NoMigrationByCustomers MigrationByAllowedOnly
