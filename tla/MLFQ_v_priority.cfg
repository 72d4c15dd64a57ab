SPECIFICATION Spec
CONSTANTS
  NPROC = 3
  NCPU = 1
  BaseQuantum = 2
  QuantumStep = 0
  TopPriority = 1
  BoostTicks = 16
  Calls = {"fork", "yield", "setPriority"}
  Priorities = {0, 1}
INVARIANT TailIsLast
