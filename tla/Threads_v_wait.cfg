SPECIFICATION Spec
CONSTANTS
  NPROC = 4
  MAXPROC = 2
  MAXLOST = 0
  Calls = {"fork", "thread", "early"}
INVARIANTS PgdirLive
