SPECIFICATION Spec
CONSTANTS
  NPROC = 2
  NFRAME = 6
  PGSIZE = 2
  NPTE = 2
  NPDE = 2
  NKERN = 1
  Wrap = 16
  Programs = {}
  Stacks = {1}
  Grows = {1}
INVARIANTS SbrkReturns
CHECK_DEADLOCK FALSE
