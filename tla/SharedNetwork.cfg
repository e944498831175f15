SPECIFICATION Spec
CONSTANTS
  Proc = {1, 2}
  NumSlots = 2
  MaxOpens = 3
INVARIANTS TypeOK ReadsComplete OneImage
PROPERTIES OnlyDeadRemoved OpenReturns
