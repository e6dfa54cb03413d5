SPECIFICATION Spec
CONSTANTS
  posts = posts
  number = number
  shortHash = shortHash
  sha1 = sha1
  Segment = {posts, number, shortHash, sha1}
  Uuid = {}
  Numeric = {number}
  Hex = {shortHash}
  Matched = {number, sha1}
  Url <- OneUrl
  User = {alice, bob}
  NoUser = NoUser
  MinSamples = {2, 3}
  Dominances = {50, 95}
  MaxAccess = 3
SYMMETRY UserSymmetry
INVARIANTS
  ViolationsNameOwner
  CacheFollowsTable
PROPERTIES
  LearnsSoleTop
  ConfirmedKept
