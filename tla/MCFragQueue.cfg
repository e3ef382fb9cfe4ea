SPECIFICATION Spec
CONSTANTS
    CccbSize = 16
    CmdSize = 2
    PadSize = 1
    MaxUfos = 1
    CombinePr = TRUE
    MaxSubmits = 3
    Kinds = {"frag", "pair", "full"}
    MaxDeps = 1
    NoJob = NoJob
INVARIANTS
    NothingDropped
    FoundSpaceStays
    UpdatesAscend
    WaiterIsHeldBack
PROPERTIES
    ImplementsJobOrder
CONSTRAINT DependenciesOfFull
CHECK_DEADLOCK FALSE
