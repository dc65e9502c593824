CONSTANTS
    None = None
    Item <- MCItem
    User <- MCUser
    Labels <- MCLabels
    ProtectedNamespaces = {"hs-mc-1", "ocm-production-a", "ocm-production-a-cp"}
SPECIFICATION Spec

    
    
PROPERTIES
    TeardownCompletes
    NamespacesTerminate
CHECK_DEADLOCK FALSE
