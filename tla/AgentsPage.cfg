SPECIFICATION Spec
CONSTANTS
  Agent = {a1, a2}
  Name = {n1}
  DefaultName = n1
  Mapping = {"json", "empty", "broken"}
  None = None
  MaxSubmits = 2
SYMMETRY Symmetry
INVARIANTS
  DeployedTokenIsShown
  SheetHasAgent
  PageLostForCause
  ShownTokenAuthenticates
CHECK_DEADLOCK FALSE
