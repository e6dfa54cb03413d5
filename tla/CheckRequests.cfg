SPECIFICATION FairSpec
CONSTANTS
  Finding = {f1}
  Call = {c1, c2}
  NoCall = NoCall
  MaxLen = 3
  MaxStarts = 2
INVARIANTS
  OnlyNewestRuns
  CommittedIsAnswered
PROPERTIES
  KeepsContract
  RunningIsAnswered
CHECK_DEADLOCK FALSE
