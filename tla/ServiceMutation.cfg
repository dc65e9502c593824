\* Every annotation of up to three tags.
CONSTANTS
    Required = "red-hat-managed=true"
    Conflict = {"red-hat-managed=false"}
    Other = {"", "team=a"}
    MaxTags = 3
SPECIFICATION SSpec
INVARIANTS PatchApplies TaggedOnceVetted OtherTagsKept
