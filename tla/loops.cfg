SPECIFICATION MCSpec
CONSTANTS
  NULL = NULL
  Library = {l1, l2}
  Task = {r1, r2}
  MaxAttempts = 2
  Breaker = 2
  MaxVersion = 5
  MaxEvents = 3
  Plate = {anna, song}
  NoPlate = NoPlate
  Operator = {o1, o2}
  MaxShows = 3
  Hit = {h1, h2, h3}
  MaxHits = 6
  StaleCycles = 3
  Capacity = 3
  MaxTroubles = 4
  Checker = {c1, c2}
  Sustain = 2
  Spacing = 2
  Hour = 5
  MaxRebuilds = 2
  Built = {1, 2, 3, 4, 5}
  File = {a}
  Refresher = {r1}
  Grace = 3
  Unused = 4
  MaxAsks = 2
  Deck = {d1, d2}
  Threshold = 2
  MaxHostEvents = 2
INVARIANT NamesAreCurrent
INVARIANT NoNudgeLost
INVARIANT WakesForItsPlate
INVARIANT PagesShowTheSlot
INVARIANT FlagIsOfTheProbe
INVARIANT DisconnectsStuckOnly
INVARIANT RebuildsAreSpaced
INVARIANT FreshPlaylistsAreServed
INVARIANT LiveTextStays
INVARIANT VersesAreVisible
INVARIANT FetchesAreEarned
PROPERTY ProbesAreSpaced
PROPERTY CurrentAppStays
PROPERTY StageComesBack
PROPERTY RebuildsAreEarned
PROPERTY MarksEnd
CHECK_DEADLOCK FALSE
