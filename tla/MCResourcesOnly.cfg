CONSTANTS
    Selector = {"managed", "classic"}
    Object <- MCObject
    Hooks <- MCHooks
    Options <- OnlyOne
    Character = {"a", "b"}
    DefaultLabelSelector = "managed"
    Base = Base
    None = None
SPECIFICATION RSpec
INVARIANT OnlyIncludesThese
CHECK_DEADLOCK FALSE
