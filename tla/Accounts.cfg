SPECIFICATION FairSpec
CONSTANTS
  Tab = {t1, t2}
  Form = {f1, f2}
  None = None
  MaxClicks = 2
INVARIANTS
  NobodyLockedOut
PROPERTIES
  RedirectsSettle
CHECK_DEADLOCK FALSE
