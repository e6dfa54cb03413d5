SPECIFICATION FairSpec
CONSTANTS
  Partition = {p1}
  MaxLen = 3
  MaxStarts = 2
INVARIANTS
  CommittedIsAccounted
  OneRowPerStart
  ViolationsHaveRows
PROPERTIES
  CommittedIsFinal
  KeepsContract
  EventuallyHandled
CHECK_DEADLOCK FALSE
