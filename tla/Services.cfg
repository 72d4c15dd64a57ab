SPECIFICATION Spec
CONSTANTS
  p1 = p1
  p2 = p2
  item1 = item1
  item2 = item2
  item3 = item3
  none = none
INVARIANTS
  WakeupsKept TablesCount LocksHold MemoryOwned NamesRight LinksRight
  BlocksKept ImagesRight KeysShown ProgramsRight TestsPass
PROPERTIES
  PipesAreStreams BlocksAreRegisters ReadsAreLines FilesAreBytes
CHECK_DEADLOCK FALSE
