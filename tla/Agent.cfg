SPECIFICATION FairSpec
CONSTANTS
  Config = {a, b}
  Fetchable = {a, b}
  Valid = {a, b}
  Request = {r1, r2}
  WithHeader = {r2}
  None = None
  Gateway = Gateway
  Capacity = 1
  MaxChanges = 2
  MaxStarts = 1
INVARIANTS
  TypeOK
  AppliedWhenQuiet
  EventFromOneConfig
  EventsInOrder
PROPERTIES
  AnsweredIsSettled
  SettingsApplied
CHECK_DEADLOCK FALSE
