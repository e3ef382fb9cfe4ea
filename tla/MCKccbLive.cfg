SPECIFICATION FairSpec
CONSTANTS
    SlotCount = 2
    Senders = {s1}
    Jobs = {j1, j2}
    Releasers = {}
    Nobody = Nobody
    IrqThread = IrqThread
INVARIANTS
    NoStrandedWaiter
PROPERTIES
    QueuedJobGetsSlot
