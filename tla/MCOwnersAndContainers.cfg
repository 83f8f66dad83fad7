CONSTANTS
  Threads = {t1, t2}
  Handles = {h1, h2, h3}
  Objects = {o1, o2}
  NoObject = NoObject
  Descriptors = {3, 4}
  Room = 2
  MaxSockets = 5
  MaxSent = 2
  MaxSize = 3
  Elements = {1, 2}
  Raw = Raw
  Moved = Moved
SYMMETRY Symmetry
SPECIFICATION AllSpec
INVARIANTS
  OwnersCounted
  DeletedAfterUse
  DescriptorsAccounted
  MessagesAccounted
  ListsAsDocumented
  VectorsAsVectors
  SearchesExact
  StackFits
  IndexExact
  TreeExact
