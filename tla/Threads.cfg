SPECIFICATION FairSpec
CONSTANTS
  NPROC = 4
  MAXPROC = 3
  MAXLOST = 1
  Calls = {"fork", "thread", "exec", "exec2", "kill", "limit", "nomem"}
INVARIANTS PgdirLive PgdirOwned FamiliesRight NoLostWakeup DiesWhole
PROPERTIES KilledDies
