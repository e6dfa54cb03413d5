SPECIFICATION FairSpec
CONSTANTS
  s1 = s1
  e1 = e1
  Call = {s1, e1}
  Topic = {"scan", "access"}
  TopicOf <- CallTopics
  MaxLen = 2
  ScanTopic = "scan"
  Document <- HandWritten
  Form <- Forms
  EngineDefaults <- Environment
  NoNumber = NoNumber
  NoRow = NoRow
  MaxSaves = 1
  MaxStarts = 2
INVARIANTS
  ProducerIsShared
  ScanParamsAreSaved
  LastCommittedIsWhole
PROPERTIES
  KeepsContract
  QueuedIsAttempted
CHECK_DEADLOCK FALSE
