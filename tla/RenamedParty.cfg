SPECIFICATION Spec
CONSTANTS
  None = None  NoId = NoId
  c1 = c1  c2 = c2  c3 = c3
  alice = alice  bob = bob  carol = carol
  k1 = k1  k2 = k2
  Conns = {c1, c2, c3}
  Users = {alice, bob, carol}
  CallIds = {k1, k2}
  Watched = {}
SYMMETRY Symmetry
CONSTRAINTS CallsOfTwo
INVARIANTS PartnersToldDespiteRename
\* Every connection may be over.
CHECK_DEADLOCK FALSE
