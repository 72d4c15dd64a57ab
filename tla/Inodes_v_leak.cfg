SPECIFICATION Spec
CONSTANTS
  Proc = {p1, p2}
  Name = {a, b}
  NINUM = 2
  NINODE = 2
  NDIRECT = 1
  ENTRYNUM = 1
  NBLOCK = 3
  Data = {0}
  MaxSize = 0
  Calls = {"close", "link", "unlink"}
INVARIANTS LastPutFrees
CHECK_DEADLOCK FALSE
