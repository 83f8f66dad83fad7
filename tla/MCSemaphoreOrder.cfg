CONSTANTS
  Users = {t1, t2}
  NumSlots = 1
  MaxSections = 2
SPECIFICATION Spec
INVARIANTS
  SectionsOrdered
