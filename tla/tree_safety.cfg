SPECIFICATION Spec
CONSTANTS
  alice = alice
  bob = bob
  docs = docs
  empty = empty
  Users <- MCUsers
  Names <- MCNames
  Empty = empty
  Sessions = {s1, s2}
  Jobs = {j1}
  Typed <- MCTyped
  Uploads <- MCUploads
  None = None
  Faulty = {alice}
  MaxRows = 4
  Quota <- MCQuota
  MaxDepth = 3
SYMMETRY Symmetry
INVARIANTS
  TypeOK
  DirectoriesAreReachable
  FilesAreListed
PROPERTIES
  CwdFollows
  ImplementsDirTree
