SPECIFICATION Spec
CONSTANTS
  Song = {1, 2}
  Editor = {e1}
  Layout = {Worship}
  SongName = {n1, n2}
  Text = {Blank, verse}
  Blank = Blank
  NULL = NULL
  Position = {0, 3}
  Foreign = Foreign
  Ops = {"insert", "rename"}
  MaxRequests = 2
  MaxPulls = 1
  MaxSlides = 2
PROPERTY Atomic
CHECK_DEADLOCK FALSE
