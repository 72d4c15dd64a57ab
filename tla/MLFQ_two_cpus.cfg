SPECIFICATION Spec
CONSTANTS
  NPROC = 3
  NCPU = 2
  BaseQuantum = 2
  QuantumStep = 0
  TopPriority = 0
  BoostTicks = 3
  Calls = {"fork", "exit", "wait"}
  Priorities = {}
INVARIANTS RunnableQueued IInv NoLostWakeup ParentAlive
