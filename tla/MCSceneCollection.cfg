CONSTANTS
  c1 = c1
  c2 = c2
  s1 = s1
  s2 = s2
  s3 = s3
  None = None
  Items = {i1, i2}
  Collections <- MCCollections
  Scenes <- MCScenes
  Home <- MCHome
  Default <- MCDefault
  Environments <- MCEnvironments
  MaxChanges = 4
SPECIFICATION Spec
INVARIANTS
  FilesAreTheirOwn
  ListsMirror
PROPERTIES
  NothingLost
  EditsReachTheFile
CHECK_DEADLOCK FALSE
