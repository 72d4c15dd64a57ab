SPECIFICATION Spec
CONSTANTS
  NPROC = 2
  NCPU = 1
  BaseQuantum = 2
  QuantumStep = 1
  TopPriority = 1
  BoostTicks = 5
  Calls = {"fork", "sleep", "wait", "kill", "setPriorityNotLast", "schedulerLock", "schedulerUnlock"}
  Priorities = {0, 2}
INVARIANTS QuantumFitsLevel NoLockInQueue OnlyRunnableQueued
PROPERTIES LockedNotPreempted UnlockGoesFirst
