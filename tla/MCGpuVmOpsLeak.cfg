SPECIFICATION Spec
CONSTANTS
    AddrSpace = 8
    MmStart = 1
    MmRange = 3
    KStart = 1
    KRange = 0
    NoVa = NoVa
    Objects = {o1}
    ObjSize = 3
    Callers = {c1, c2}
    CanFail = {"ops", "op", "unmap", "prev", "next"}
    NoObject = NoObject
    NoRequest = NoRequest
SYMMETRY Symmetry
INVARIANT MemoryIsTheLists
