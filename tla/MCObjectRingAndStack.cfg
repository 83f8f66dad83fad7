CONSTANTS
  Consumers = {c1, c2}
  Values = {b1, b2, b3}
  NoValue = NoValue
  Objects = {1, 2, 3}
  NoObject = NoObject
  Capacity = 2
  TagMod = 3
  MaxPushes = 3
  Null = Null
  StackValues = {1, 2}
  StackTagMod = 32
  MaxOps = 3
SYMMETRY Symmetry
SPECIFICATION AllSpec
INVARIANTS
  BlocksOwned
  ObjectsInOrder
  NodesAccounted
PROPERTIES
  ImplementsLifoStack
