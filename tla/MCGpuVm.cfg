SPECIFICATION Spec
CONSTANTS
    AddrSpace = 8
    MmStart = 1
    MmRange = 5
    KStart = 1
    KRange = 1
    Objects = {o1, o2}
    ObjSize = 3
    Binders = {b1, b2}
    Nobody = Nobody
    NoVa = NoVa
    NoRequest = NoRequest
    Unmapped = Unmapped
INVARIANTS
    PageTablesMatch
    LinkedToOwnObject
    MappedWhereAllowed
    CursorAlive
    SparesSuffice
    LookUpsFind
PROPERTY ImplementsAddressSpace
