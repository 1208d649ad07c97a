SPECIFICATION FairSpec
CONSTANTS
  Modulus = 8
  FirstPacket = 5
  LastPacket = 13
  Packets <- MCPackets
  MaxBufferSize = 3
  TargetDelay = 2
  MaxCopies = 2
  None = None
INVARIANTS TypeOK Window Bounded SlotsCountedOnce
PROPERTIES InOrder NothingStuck ImplementsPlayout
\* The stream ends.
CHECK_DEADLOCK FALSE
