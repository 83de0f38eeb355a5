SPECIFICATION Spec
CONSTANTS
  Task = {t1, t2, t3}
  NoTask = NoTask
  Song = {1, 2}
  NumSlides = 3
  MaxSlides = 3
  Worship = Worship
  Snv = Snv
  Api = Api
  Layout = {Worship, Snv, Api}
  ApiLayout = {Api}
  DefaultLayout = Snv
  Marker <- MCMarker
  Text = {x}
  NoText = NoText
  Ops = {"trigger", "put_api"}
  MaxRequests = 4
INVARIANT WinnerIsShown
INVARIANT WinnerSetsLayout
PROPERTY EveryRequestEnds
CHECK_DEADLOCK FALSE
