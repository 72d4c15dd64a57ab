SPECIFICATION FairSpec
CONSTANTS
  NPROC = 3
  NCPU = 1
  BaseQuantum = 2
  QuantumStep = 0
  TopPriority = 1
  BoostTicks = 16
  Calls = {"fork", "yield"}
  Priorities = {}
INVARIANTS TailIsLast
PROPERTIES BoostJoins KeepsQueueOrder NoStarvation
