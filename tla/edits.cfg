SPECIFICATION Spec
CONSTANTS
  Song = {1}
  Editor = {e1, e2}
  Layout = {Worship, Api}
  SongName = {n1}
  Text = {Blank, verse}
  Blank = Blank
  NULL = NULL
  Position = {0, 3}
  Foreign = Foreign
  Ops = {"paste", "update", "insert", "duplicate", "delete", "reorder", "assign", "trash", "rename"}
  MaxRequests = 2
  MaxPulls = 1
  MaxSlides = 3
SYMMETRY Editors
INVARIANT SnapshotIsCurrent
PROPERTY Atomic
PROPERTY NoMarkRevives
PROPERTY MarkStaysWithText
CHECK_DEADLOCK FALSE
