CONSTANTS
  Lists = {l1, l2}
  N = 2
  Values = {1}
  Careful = FALSE
SPECIFICATION Spec
INVARIANTS
  SpliceMovesAll
