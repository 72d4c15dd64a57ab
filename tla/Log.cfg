SPECIFICATION FairSpec
CONSTANTS
  Proc = {p1, p2}
  Block = {a, b, c}
  Val = {0, 1}
  Zero = 0
  NoBuf = NoBuf
  LOGSIZE = 4
  MAXOPBLOCKS = 2
  NLOG = 4
  OpBlocks = 2
INVARIANTS QuiescentIsDurable ReservationKept
PROPERTIES AtomicCalls EverySleeperWakes
