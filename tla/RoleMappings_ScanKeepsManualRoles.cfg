SPECIFICATION RolesSpec
CONSTANTS
  Path = {p1}
  Role = {admin, user}
  NoRole = NoRole
  MinSamples = {1, 2}
  Thresholds = {50}
  MaxHits = 2
PROPERTIES
  ScanKeepsManualRoles
