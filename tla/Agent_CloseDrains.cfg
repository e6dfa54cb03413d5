SPECIFICATION Spec
CONSTANTS
  Config = {a}
  Fetchable = {a}
  Valid = {a}
  Request = {r1}
  WithHeader = {}
  None = None
  Gateway = Gateway
  Capacity = 1
  MaxChanges = 0
  MaxStarts = 1
PROPERTY
  CloseDrains
CHECK_DEADLOCK FALSE
