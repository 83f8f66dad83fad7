CONSTANTS
  Values = {v1, v2}
  NoValue = NoValue
  Capacity = 2
  MaxPushes = 6
  Consumers = {c1, c2}
  TagMod = 3
  SpmcPushes = 3
  Users = {u1, u2, u3}
  NumSlots = 2
  MaxSections = 1
SPECIFICATION AllSpec
INVARIANTS
  NoDataRace
  VerdictsExact
  SlotsCounted
  EverySectionReleased
PROPERTIES
  ImplementsBoundedFifo
  SpmcIsBoundedFifo
  Delivers
