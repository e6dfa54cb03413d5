SPECIFICATION Spec
CONSTANTS
  posts = posts
  number = number
  shortHash = shortHash
  sha1 = sha1
  Segment = {posts, number, shortHash, sha1}
  Uuid = {}
  Numeric = {number}
  Hex = {shortHash}
  Matched = {number, sha1}
  Url <- MixedUrls
  User = {alice}
  NoUser = NoUser
  MinSamples = {1}
  Dominances = {95}
  MaxAccess = 1
PROPERTIES
  SingleIdProtected
