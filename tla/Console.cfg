SPECIFICATION Spec
CONSTANTS
  None = None
  NoNumber = NoNumber
  Finding = {f1, f2}
  Endpoint = {e1}
  Role = {r1, r2}
  LoggedRole = {r2}
  e1 = e1
  r1 = r1
  Learned <- OneRole
  DEFAULT_PAGE_SIZE = 1
  MAX_PAGE_SIZE = 2
  PAGE_SIZES = {1, 2}
  Time = {1, 2, 3}
  MaxLogs = 3
  Form <- Forms
  Document <- HandWritten
  Address <- Typed
  MaxClicks = 3
  MaxChanges = 2
INVARIANTS
  
  SavedRolesAreShown
  NothingIsSkipped
  ShownSettingsAreStored
CONSTRAINT OneSubject
CHECK_DEADLOCK FALSE
