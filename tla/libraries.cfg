SPECIFICATION MCSpec
CONSTANTS
  A = A
  B = B
  Hymns = Hymns
  Psalms = Psalms
  n1 = n1
  n2 = n2
  Scenarios = {"libraries", "cascading", "pruning"}
  Site = {A, B}
  Peer <- MCPeer
  Id = {1, 2, 3, 4, 5}
  SongName = {n1, n2}
  LibBase = {Hymns, Psalms}
  Horizon = 100
  Ops = {}
  MaxEdits = 6
  MaxClock = 10
  MaxSuffix = 3
  MaxFaults = 0
SYMMETRY Sites
INVARIANTS KeysHold PlaylistsLive CascadeDisagreementIsForced
PROPERTIES ChangesMoveForward
