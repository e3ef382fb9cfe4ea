SPECIFICATION Spec
CONSTANTS
    SlotCount = 4
    Senders = {s1}
    Jobs = {j1, j2}
    Releasers = {j1, j2}
    Nobody = Nobody
    IrqThread = IrqThread
INVARIANTS
    TypeOK
    ReservationsAccounted
    NeverOvercommitted
    NoCommandDropped
    WaitersAreQueued
    NoStaleCompletion
PROPERTIES
    ImplementsSlotQueue
