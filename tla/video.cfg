SPECIFICATION Spec
CONSTANTS
  Source = {A, B}
  Pipe = {p1, p2, p3, p4}
  Supervisor = {t1, t2, t3}
  Operator = {r1}
  Ticker = Ticker
  NULL = NULL
  MaxEvents = 4
INVARIANT NoLeakedEncoder
INVARIANT SupervisorsOwnSlots
PROPERTY NoRevival
PROPERTY ActiveSourceShows
