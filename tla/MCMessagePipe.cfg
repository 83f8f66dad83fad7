CONSTANTS
  Pipes = {p1, p2}
  Fds = {3, 4}
  Careful = FALSE
  Room = 1
  MaxSockets = 4
  MaxSent = 1
SPECIFICATION Spec
INVARIANTS
  NothingForeign
