SPECIFICATION Spec
CONSTANTS
  Task = {t1, t2}
  NoTask = NoTask
  Song = {1, 2}
  NumSlides = 3
  MaxSlides = 3
  Worship = Worship
  Snv = Snv
  Api = Api
  Layout = {Worship, Snv, Api}
  ApiLayout = {Api}
  DefaultLayout = Snv
  Marker <- MCMarker
  Text = {x}
  NoText = NoText
  Ops = {"switch"}
  MaxRequests = 2
INVARIANT LayoutSurvives
CHECK_DEADLOCK FALSE
