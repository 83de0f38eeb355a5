SPECIFICATION MCSpec
CONSTANTS
  A = A
  B = B
  Hymns = Hymns
  Psalms = Psalms
  n1 = n1
  n2 = n2
  Scenarios = {"adopting"}
  Site = {A, B}
  Peer <- MCPeer
  Id = {1, 2, 3, 4, 5}
  SongName = {n1, n2}
  LibBase = {Hymns, Psalms}
  Horizon = 100
  Ops = {}
  MaxEdits = 5
  MaxClock = 9
  MaxSuffix = 3
  MaxFaults = 0
SYMMETRY Sites
INVARIANTS SongsFiledAlike
