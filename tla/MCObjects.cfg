CONSTANTS
    None = None
    SystemUsers <- MCSystemUsers
    ServiceAccountUsers <- MCServiceAccountUsers
    KubeUsers = {"kube:admin"}
    SystemAdminLike = {"system:admin"}
    PrivilegedGroups <- MCPrivilegedGroups
    PrivilegedNamespaces = {"openshift-config", "openshift-ingress", "openshift-logging", "openshift-customer-monitoring"}
    BadNamespaces = {"com"}
    BackplaneRoles = {"backplane-reader"}
    OpenshiftNamespaces = {"openshift-config", "openshift-gitops"}
    MasterKeys = {"node-role.kubernetes.io/master"}
    UnauthorizedMirrors = {"quay.io"}
    Width = 20
    User <- MCUser
    Object <- MCObject
    Content <- MCContent
SPECIFICATION Spec
INVARIANTS
    ManagedObjectsKept
    ManagedLabelsKept
    ProtectedAccessStays
    LastAnsweredWriteConforms
    MirrorsFailClosed
    RetentionCheckedOneLate
    HooksAnswer
