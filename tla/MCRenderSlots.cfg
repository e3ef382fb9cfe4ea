\* Three slots and one place for a data set: its RT data come round before the
\* slots do, and the other size has to evict.
CONSTANTS
  NSlots = 3
  Entries = {e1}
  SetsPerSize = 1
  Sizes = {z1, z2}
  Resources = {r1, r2}
  MaxSeq = 4
  None = None
SPECIFICATION Spec
SYMMETRY Symmetry
CHECK_DEADLOCK FALSE
INVARIANTS
  RtDataExclusive
  CpuIsAlone
PROPERTIES
  CompletionInOrder
