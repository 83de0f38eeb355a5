SPECIFICATION Spec
CONSTANTS
  Task = {t1, t2, t3}
  NoTask = NoTask
  Song = {1, 2}
  NumSlides = 2
  MaxSlides = 3
  Worship = Worship
  Snv = Snv
  Api = Api
  Layout = {Worship, Snv, Api}
  ApiLayout = {Api}
  DefaultLayout = Snv
  Marker <- MCMarker
  Text = {x, y}
  NoText = NoText
  Ops = {"refresh", "clear", "trigger", "switch", "put_api", "edit_slides", "text_mode", "edit_text", "delete_presentation", "restart"}
  MaxRequests = 3
SYMMETRY Tasks
INVARIANT TypeOK
INVARIANT LayoutsAgree
INVARIANT ApiShowsPushed
INVARIANT SlidesReturn
CHECK_DEADLOCK FALSE
