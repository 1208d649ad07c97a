SPECIFICATION Spec
CONSTANTS
  None = None
  alice = alice  bob = bob
  Clients = {alice, bob}
  MaxCalls = 3
  MaxConnections = 3
  MaxDrops = 2
SYMMETRY Symmetry
CONSTRAINTS Rounds
INVARIANTS TypeOK CallIsShared CandidatesKept MicrophoneInHand LateAnswersAreOver
\* Everybody may have stopped calling.
CHECK_DEADLOCK FALSE
