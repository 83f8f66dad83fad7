CONSTANTS
  p = p
  c = c
  Threads = {p, c}
  Nodes = {n1, n2, n3, n4}
  Null = Null
  NoValue = NoValue
  TagMod = 16
  MaxOps <- TwoProducers
SYMMETRY Symmetry
SPECIFICATION Spec
INVARIANTS
  FirstInFirstOut
