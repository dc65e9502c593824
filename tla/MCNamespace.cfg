CONSTANTS
    Name = {"app", "openshift-monitoring", "redhat-rhoam", "com"}
    PrivilegedNamespaces = {"openshift-monitoring", "redhat-rhoam"}
    BadNamespaces = {"com"}
    LayeredNamespaces = {"redhat-rhoam"}
    User <- MCUser
    PrivilegedSAGroups = {"system:serviceaccounts:openshift-build"}
    Label = {"storage-pv-quota-exempt", "service-lb-quota-exempt", "team"}
    protectedLabels <- quotaExempt
    Values = {"", "true", "false"}
    Empty = ""
    None = None
SPECIFICATION Spec
INVARIANTS LabelsKept ManagedNamespacesByTrustedOnly
