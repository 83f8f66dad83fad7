CONSTANTS
  Kinds = {"joinable", "detached"}
SPECIFICATION FairSpec
INVARIANTS
  AliveWhileUsed
