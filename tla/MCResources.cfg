CONSTANTS
    Selector = {"managed", "classic"}
    Object <- MCObject
    Hooks <- MCHooks
    Options <- MCOptions
    Character = {"a", "b"}
    DefaultLabelSelector = "managed"
    Base = Base
    None = None
SPECIFICATION RSpec
INVARIANTS WritesUniqueURIs TemplateHoldsItsHooks PackageHoldsItsHooks
PROPERTIES  ImplementsMap
CHECK_DEADLOCK FALSE
