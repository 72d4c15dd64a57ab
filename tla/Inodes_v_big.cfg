SPECIFICATION Spec
CONSTANTS
  Proc = {p1}
  Name = {a}
  NINUM = 1
  NINODE = 1
  NDIRECT = 1
  ENTRYNUM = 1
  NBLOCK = 6
  Data = {0}
  MaxSize = 3
  Calls = {"close"}
INVARIANTS WriteThrough
CHECK_DEADLOCK FALSE
