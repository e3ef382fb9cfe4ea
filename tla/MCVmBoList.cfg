SPECIFICATION Spec
CONSTANTS
    Objects = {o1, o2}
    LocalObjects = {o2}
    VmBos = {b1, b2, b3}
    Walkers = {w1, w2}
    Clients = {c1, c2}
    MaxVas = 2
    Vm = Vm
    None = None
    Out = Out
    Main = Main
SYMMETRY Symmetry
INVARIANTS
    NothingDangles
    WalksAlone
    NoForgottenElement
    EveryObjectReady
    LastPutLocked
    FoundAlive
CHECK_DEADLOCK FALSE
