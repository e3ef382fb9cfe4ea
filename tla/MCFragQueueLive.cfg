SPECIFICATION FairSpec
CONSTANTS
    CccbSize = 16
    CmdSize = 2
    PadSize = 1
    MaxUfos = 1
    CombinePr = FALSE
    MaxSubmits = 2
    Kinds = {"frag", "pair", "full"}
    MaxDeps = 1
    NoJob = NoJob
PROPERTIES
    EveryJobFinishes
CHECK_DEADLOCK FALSE
