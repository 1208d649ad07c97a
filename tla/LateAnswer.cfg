SPECIFICATION Spec
CONSTANTS
  None = None
  alice = alice  bob = bob
  Clients = {alice, bob}
  MaxCalls = 2
  MaxConnections = 2
  MaxDrops = 0
SYMMETRY Symmetry
CONSTRAINTS Undisturbed
INVARIANTS BothHaveEachOther
\* Everybody may have stopped calling.
CHECK_DEADLOCK FALSE
