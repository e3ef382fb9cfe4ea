SPECIFICATION Spec
CONSTANTS
    SlotCount = 2
    Senders = {s1, s2}
    Jobs = {j1}
    Releasers = {}
    Nobody = Nobody
    IrqThread = IrqThread
PROPERTIES
    ResultIsOwn
