\* Pods of up to two images: one in the openshift namespace, one in another
\* namespace of the internal registry, one elsewhere.
CONSTANTS
    Internal = {"openshift/tools", "app/web"}
    Openshift = {"openshift/tools"}
    External = {"quay"}
    MaxImages = 2
SPECIFICATION FairPSpec
INVARIANTS PatchIsResolved MutatesOnlyWithoutRegistry
PROPERTY CallEnds
CHECK_DEADLOCK FALSE
