---------------------------- MODULE StageOutput ----------------------------
(***************************************************************************)
(* What the stage shows: the requests that change the stage state, the     *)
(* selected layout, the slides on stage or the text an external program    *)
(* pushes, and the snapshots they publish to the displays.                 *)
(*                                                                         *)
(* Requests run concurrently, each a sequence of steps between which any   *)
(* other may run: a step is what the code does from one await of shared    *)
(* state to the next.  Triggers hold stage_trigger_lock from their write   *)
(* to their broadcast (#515), slide edits hold the lock of their song, a   *)
(* publication reads the layout and sends the camera snapshot and then the *)
(* stage snapshot under the read lock of the layout (#793), which several  *)
(* publications may hold at once; nothing else is locked.                  *)
(*                                                                         *)
(* Displays receive what the live hub publishes in the order in which it   *)
(* is published, so `shown' and `camera' stand for every connected one.    *)
(* A song's content is the set of its slides, numbered as they are added   *)
(* to its end, and the number of edits made to it.  It has at least one    *)
(* slide.  Left out are the order of the slides and the slide after the    *)
(* current one.                                                            *)
(***************************************************************************)
EXTENDS Naturals, FiniteSets

CONSTANTS
  Task,           \* the requests that may be in flight at a time
  Song,           \* songs, numbered in the order of their creation
  NumSlides,      \* the slides each song starts with
  MaxSlides,      \* bound on the slides a song ever has
  Layout,         \* the layouts an operator selects from
  ApiLayout,      \* those that show what PUT /api/stage pushed
  DefaultLayout,  \* DEFAULT_STAGE_LAYOUT_CODE
  Marker,         \* Marker[x]: the layout slide x is marked with, if any
  Text,           \* texts the external program pushes
  NoText,         \* what it pushed before the first
  NoTask,
  Ops,            \* the requests that are made
  MaxRequests     \* bound on their number

Slide == 1..MaxSlides

ASSUME NumberAssumption == /\ Song \subseteq Nat \ {0}
                           /\ NumSlides \in 1..MaxSlides /\ MaxSlides \in Nat
                           /\ MaxRequests \in Nat
ASSUME LayoutAssumption == /\ ApiLayout \subseteq Layout
                           /\ DefaultLayout \in Layout \ ApiLayout
                           /\ Marker \in [Slide -> SUBSET Layout]
                           /\ \A x \in Slide : \A c, d \in Marker[x] : c = d
ASSUME TaskAssumption == NoTask \notin Task

None == 0

VARIABLES
  live,       \* the songs that are not in the trash
  deck,       \* deck[s]: the slides of song s
  unused,     \* unused[s]: the number of the next slide of song s
  rev,        \* rev[s]: how often song s was edited
  state,      \* the stage_state row: one, or none on a fresh database
  layout,     \* the selected layout, in memory
  saved,      \* the layout as persisted
  apiText,    \* the text last pushed
  shown,      \* what the stage displays show: [layout, content]
  camera,     \* what the camera displays show
  trigger,    \* the task that holds stage_trigger_lock
  editor,     \* editor[s]: the task that holds the lock of song s
  pc,         \* pc[t]: the next step of task t
  row,        \* row[t]: the stage state t has read or is to write
  view,       \* view[t]: the content t is to publish
  code,       \* code[t]: the layout t switches to or publishes for, or the
              \* text it pushes
  requests    \* requests made so far

content == <<live, deck, unused, rev>>
output == <<shown, camera>>
settings == <<layout, saved, apiText>>
locks == <<trigger, editor>>
work == <<row, view, code>>
vars == <<content, state, settings, output, locks, pc, work, requests>>

-----------------------------------------------------------------------------
(* What a stage state shows. *)

Row(s, x) == [song |-> s, slide |-> x]
Nothing == [song |-> None, slide |-> None, rev |-> 0]
Pushed(x) == [text |-> x]

Least(N) == CHOOSE n \in N : \A m \in N : n <= m
First(s) == Least(deck[s])

\* stage_resolution_from_presentation: a slide that is gone yields the first.
Slides(s, x) == [song |-> s, slide |-> IF x \in deck[s] THEN x ELSE First(s),
                 rev |-> rev[s]]
\* blanked_stage_resolution: the song without a slide.
Blanked(s) == [song |-> s, slide |-> None, rev |-> rev[s]]

\* resolve_stage_from_state: nothing for a song that is trashed.
Resolved(r) == IF r.song = None THEN {Nothing}
               ELSE IF r.song \notin live THEN {}
               ELSE IF r.slide = None THEN {Blanked(r.song)}
               ELSE {Slides(r.song, r.slide)}

\* resolve_default_stage: the first slide of the oldest song.
Default == IF live = {} THEN {} ELSE {Slides(Least(live), None)}

\* What a display that connects is sent for a normal layout.
Empty(V) == IF V = {} THEN {Nothing} ELSE V

\* build_stage_context.
Context(R) == LET found == UNION {Resolved(r) : r \in R}
              IN  IF found # {} THEN found ELSE Default

-----------------------------------------------------------------------------

Init == /\ live = Song
        /\ deck = [s \in Song |-> 1..NumSlides]
        /\ unused = [s \in Song |-> NumSlides + 1]
        /\ rev = [s \in Song |-> 0]
        /\ state = {}
        /\ layout = DefaultLayout
        /\ saved = DefaultLayout
        /\ apiText = NoText
        /\ camera \in Empty(Default)
        /\ shown = [layout |-> layout, content |-> camera]
        /\ trigger = NoTask
        /\ editor = [s \in Song |-> NoTask]
        /\ pc = [t \in Task |-> "idle"]
        /\ row = [t \in Task |-> {}]
        /\ view = [t \in Task |-> {}]
        /\ code = [t \in Task |-> {}]
        /\ requests = 0

Goto(t, step) == pc' = [pc EXCEPT ![t] = step]
Keep(t, R) == row' = [row EXCEPT ![t] = R]
Prepare(t, V) == view' = [view EXCEPT ![t] = V]

\* A request of kind `op' arrives.
Request(op) == /\ op \in Ops
               /\ requests < MaxRequests
               /\ requests' = requests + 1

Arrive(t, op) == pc[t] = "idle" /\ Request(op)

\* The publications that hold the read lock of the layout.
Readers == {t \in Task : pc[t] = "publish_stage"}

\* Faulty: the answer leaves the trigger lock taken.
FinishLocked(t) ==
  /\ Goto(t, "idle")
  /\ editor' = [s \in Song |-> IF editor[s] = t THEN NoTask ELSE editor[s]]
  /\ row' = [row EXCEPT ![t] = {}]
  /\ view' = [view EXCEPT ![t] = {}]
  /\ code' = [code EXCEPT ![t] = {}]
  /\ UNCHANGED trigger

\* The answer: every lock t holds is released.
Finish(t) ==
  /\ Goto(t, "idle")
  /\ trigger' = IF trigger = t THEN NoTask ELSE trigger
  /\ editor' = [s \in Song |-> IF editor[s] = t THEN NoTask ELSE editor[s]]
  /\ row' = [row EXCEPT ![t] = {}]
  /\ view' = [view EXCEPT ![t] = {}]
  /\ code' = [code EXCEPT ![t] = {}]

-----------------------------------------------------------------------------
(* Publishing. *)

\* publish_stage_context reads the layout, and keeps it from changing.  The
\* camera displays always get the snapshot, ...
PublishCamera(t) ==
  /\ pc[t] = "publish"
  /\ camera' \in view[t]
  /\ IF layout \in ApiLayout
     THEN Finish(t)
     ELSE /\ code' = [code EXCEPT ![t] = {layout}]
          /\ Goto(t, "publish_stage")
          /\ UNCHANGED <<locks, row, view>>
  /\ UNCHANGED <<content, state, settings, shown, requests>>

\* ... the stage displays unless an API layout is selected.
PublishStage(t) ==
  /\ pc[t] = "publish_stage"
  /\ \E c \in code[t], v \in view[t] : shown' = [layout |-> c, content |-> v]
  /\ Finish(t)
  /\ UNCHANGED <<content, state, settings, camera, requests>>

\* broadcast_stage_snapshots: the row is read first, the song then.
ReadState(t) ==
  /\ pc[t] = "read"
  /\ Keep(t, state)
  /\ Goto(t, "resolve")
  /\ UNCHANGED <<content, state, settings, output, locks, view, code, requests>>

ResolveState(t) ==
  /\ pc[t] = "resolve"
  /\ IF Context(row[t]) = {}
     THEN Finish(t)
     ELSE /\ Prepare(t, Context(row[t]))
          /\ Goto(t, "publish")
          /\ UNCHANGED <<locks, row, code>>
  /\ UNCHANGED <<content, state, settings, output, requests>>

\* A timer command, or AbleSet moving to another song, publishes the stage
\* anew.
Refresh(t) ==
  /\ Arrive(t, "refresh")
  /\ Goto(t, "read")
  /\ UNCHANGED <<content, state, settings, output, locks, work>>

-----------------------------------------------------------------------------
(* Triggering a slide. *)

\* The slide is validated, and the snapshot made, before the lock is taken.
Trigger(t, s, x) ==
  /\ Arrive(t, "trigger")
  /\ s \in live
  /\ x \in deck[s]
  /\ Keep(t, {Row(s, x)})
  /\ Prepare(t, {Slides(s, x)})
  /\ Goto(t, "lock")
  /\ UNCHANGED <<content, state, settings, output, locks, code>>

\* Faulty: triggers do not wait for each other.
LockTriggerNever(t) ==
  /\ pc[t] = "lock"
  /\ trigger' = t
  /\ Goto(t, "upsert")
  /\ UNCHANGED <<content, state, settings, output, editor, work, requests>>

LockTrigger(t) ==
  /\ pc[t] = "lock"
  /\ trigger = NoTask
  /\ trigger' = t
  /\ Goto(t, "upsert")
  /\ UNCHANGED <<content, state, settings, output, editor, work, requests>>

UpsertTrigger(t) ==
  /\ pc[t] = "upsert"
  /\ state' = row[t]
  /\ Goto(t, "marker")
  /\ UNCHANGED <<content, settings, output, locks, work, requests>>

\* apply_slide_stage_layout_marker: a slide marked with a layout switches to
\* it before its snapshot is published.  A deleted slide has no marker.
ApplyMarker(t) ==
  /\ pc[t] = "marker"
  /\ \E r \in row[t] :
       code' = [code EXCEPT ![t] =
                  IF r.slide \in deck[r.song] THEN Marker[r.slide] ELSE {}]
  /\ Goto(t, IF code'[t] \subseteq {layout} THEN "publish" ELSE "swap")
  /\ UNCHANGED <<content, state, settings, output, locks, row, view, requests>>

-----------------------------------------------------------------------------
(* Switching the layout. *)

\* The operator selects layout c.  The context is built beforehand, and only
\* tells whether there is a snapshot to publish afterwards.
Switch(t, c) ==
  /\ Arrive(t, "switch")
  /\ c # layout
  /\ code' = [code EXCEPT ![t] = {c}]
  /\ Prepare(t, IF c \in ApiLayout THEN {} ELSE Context(state))
  /\ Goto(t, "swap")
  /\ UNCHANGED <<content, state, settings, output, locks, row>>

\* A switch that is made for the marker of a slide.
Triggers(t) == row[t] # {}

\* Faulty: the switch does not wait for publications that are under way.
SwapUnlocked(t) ==
  /\ pc[t] = "swap"
  /\ \E c \in code[t] :
       /\ c # layout
       /\ layout' = c
       /\ shown' = [shown EXCEPT !.layout = c]
  /\ Goto(t, "persist")
  /\ UNCHANGED <<content, state, saved, apiText, camera, locks, work, requests>>

\* Under the write lock: displays learn of the layout before anything can be
\* published for it.
Swap(t) ==
  /\ pc[t] = "swap"
  /\ Readers = {}
  /\ \E c \in code[t] :
       /\ c # layout
       /\ layout' = c
       /\ shown' = [shown EXCEPT !.layout = c]
  /\ Goto(t, "persist")
  /\ UNCHANGED <<content, state, saved, apiText, camera, locks, work, requests>>

\* Another request has selected the layout meanwhile.
SkipSwap(t) ==
  /\ pc[t] = "swap"
  /\ code[t] = {layout}
  /\ IF Triggers(t)
     THEN Goto(t, "publish") /\ UNCHANGED <<locks, work>>
     ELSE Finish(t)
  /\ UNCHANGED <<content, state, settings, output, requests>>

\* Faulty: an API layout waits for the next push.
AwaitNextPush(t, c) == IF Triggers(t) THEN "publish" ELSE "read"

\* What is left to do after the switch to c is persisted: an API layout shows
\* the text last pushed, a trigger publishes its snapshot, an operator's
\* switch a fresh one.
AfterPersist(t, c) ==
  IF c \in ApiLayout THEN "republish" ELSE IF Triggers(t) THEN "publish" ELSE "read"

Persist(t) ==
  /\ pc[t] = "persist"
  /\ saved' \in code[t]
  /\ IF saved' \notin ApiLayout /\ view[t] = {}
     THEN Finish(t)
     ELSE Goto(t, AfterPersist(t, saved')) /\ UNCHANGED <<locks, work>>
  /\ UNCHANGED <<content, state, layout, apiText, output, requests>>

\* Faulty: pushed text is shown on any layout.
ShowOnAnyLayout(x) == shown' = [layout |-> layout, content |-> Pushed(x)]

\* publish_api_snapshot, with the text that is stored.
ShowPushed(x) ==
  shown' = IF layout \in ApiLayout
           THEN [layout |-> layout, content |-> Pushed(x)] ELSE shown

\* The text cannot change between its reading and its publication.
RepublishApi(t) ==
  /\ pc[t] = "republish"
  /\ ShowPushed(apiText)
  /\ IF Triggers(t)
     THEN Goto(t, "publish") /\ UNCHANGED <<locks, work>>
     ELSE Finish(t)
  /\ UNCHANGED <<content, state, settings, camera, requests>>

\* set_stage_text_mode: which of the pushed lines displays are to show.  One
\* that waits for another to end counts as waiting to republish.
SetTextMode(t) ==
  /\ Arrive(t, "text_mode")
  /\ Goto(t, "republish")
  /\ UNCHANGED <<content, state, settings, output, locks, work>>

-----------------------------------------------------------------------------
(* Text pushed by an external program, which awaits each answer before it    *)
(* pushes again.                                                             *)

PutApi(t, x) ==
  /\ Arrive(t, "put_api")
  /\ \A u \in Task : pc[u] # "announce"
  /\ apiText' = x
  /\ code' = [code EXCEPT ![t] = {x}]
  /\ Goto(t, "announce")
  /\ UNCHANGED <<content, state, layout, saved, output, locks, row, view>>

AnnouncePut(t) ==
  /\ pc[t] = "announce"
  /\ \E x \in code[t] : ShowPushed(x)
  /\ Finish(t)
  /\ UNCHANGED <<content, state, settings, camera, requests>>

-----------------------------------------------------------------------------
(* Clearing the stage, without a lock. *)

\* The song that is on stage stays, its slide goes.
Clear(t) ==
  /\ Arrive(t, "clear")
  /\ Keep(t, {Row(IF state = {} THEN None ELSE (CHOOSE r \in state : TRUE).song,
                  None)})
  /\ Goto(t, "clearing")
  /\ UNCHANGED <<content, state, settings, output, locks, view, code>>

\* Faulty: a song that is gone is kept as long as a slide of it is.
ResolveClearDangling(t) ==
  /\ pc[t] = "clearing"
  /\ Prepare(t, UNION {Resolved(r) : r \in row[t]})
  /\ Goto(t, "wipe")
  /\ UNCHANGED <<content, state, settings, output, locks, row, code, requests>>

\* A song that is gone is not kept.
ResolveClear(t) ==
  /\ pc[t] = "clearing"
  /\ LET found == UNION {Resolved(r) : r \in row[t]}
     IN  /\ Prepare(t, Empty(found))
         /\ Keep(t, IF found = {} THEN {Row(None, None)} ELSE row[t])
  /\ Goto(t, "wipe")
  /\ UNCHANGED <<content, state, settings, output, locks, code, requests>>

WriteClear(t) ==
  /\ pc[t] = "wipe"
  /\ state' = row[t]
  /\ Goto(t, "publish")
  /\ UNCHANGED <<content, settings, output, locks, work, requests>>

-----------------------------------------------------------------------------
(* Editing the song on stage, under the lock of the song: the edit of one    *)
(* that is locked has not arrived yet.                                       *)

Edit(t, s, op, step) ==
  /\ Arrive(t, op)
  /\ s \in live
  /\ editor[s] = NoTask
  /\ editor' = [editor EXCEPT ![s] = t]
  /\ rev' = [rev EXCEPT ![s] = @ + 1]
  /\ Goto(t, step)
  /\ UNCHANGED <<live, state, settings, output, trigger, work>>

\* delete_slide: a blank slide takes the place of the last one.
DeleteSlide(t, s, x) ==
  /\ x \in deck[s]
  /\ deck[s] # {x} \/ unused[s] \in Slide
  /\ deck' = [deck EXCEPT ![s] = IF @ = {x} THEN {unused[s]} ELSE @ \ {x}]
  /\ unused' = [unused EXCEPT ![s] = IF deck[s] = {x} THEN @ + 1 ELSE @]
  /\ Edit(t, s, "edit_slides", "reconcile")

\* insert_blank_slide, duplicate_slide and paste_slides add slides.
AddSlide(t, s) ==
  /\ unused[s] \in Slide
  /\ deck' = [deck EXCEPT ![s] = @ \union {unused[s]}]
  /\ unused' = [unused EXCEPT ![s] = @ + 1]
  /\ Edit(t, s, "edit_slides", "reconcile")

\* The text of a slide changes.
EditText(t, s) == Edit(t, s, "edit_text", "read") /\ UNCHANGED <<deck, unused>>

\* reconcile_stage_state_after_edit: if the slide on stage is gone the first
\* one takes its place.
Reconcile(t) ==
  /\ pc[t] = "reconcile"
  /\ LET stale == {r \in state : /\ r.slide # None
                                 /\ editor[r.song] = t
                                 /\ r.slide \notin deck[r.song]}
     IN  IF stale = {}
         THEN Goto(t, "read") /\ UNCHANGED row
         ELSE /\ Keep(t, {Row(r.song, First(r.song)) : r \in stale})
              /\ Goto(t, "fix")
  /\ UNCHANGED <<content, state, settings, output, locks, view, code, requests>>

Fix(t) ==
  /\ pc[t] = "fix"
  /\ state' = row[t]
  /\ Goto(t, "read")
  /\ UNCHANGED <<content, settings, output, locks, work, requests>>

\* delete_presentation publishes nothing on the stage.
DeleteSong(s) ==
  /\ Request("delete_presentation")
  /\ s \in live
  /\ live' = live \ {s}
  /\ UNCHANGED <<deck, unused, rev, state, settings, output, locks, pc, work>>

-----------------------------------------------------------------------------

\* The server restarts: requests under way are lost, the layout is the
\* persisted one, the pushed text is gone, and displays that reconnect are
\* sent the snapshot of the layout.
Restart ==
  /\ Request("restart")
  /\ layout' = saved
  /\ apiText' = NoText
  /\ camera' \in Empty(Context(state))
  /\ shown' = [layout |-> saved,
               content |-> IF saved \in ApiLayout THEN Pushed(NoText) ELSE camera']
  /\ trigger' = NoTask
  /\ editor' = [s \in Song |-> NoTask]
  /\ pc' = [t \in Task |-> "idle"]
  /\ row' = [t \in Task |-> {}]
  /\ view' = [t \in Task |-> {}]
  /\ code' = [t \in Task |-> {}]
  /\ UNCHANGED <<content, state, saved>>

Arrivals(t) ==
  \/ Refresh(t) \/ Clear(t) \/ SetTextMode(t)
  \/ \E s \in Song, x \in Slide : Trigger(t, s, x)
  \/ \E c \in Layout : Switch(t, c)
  \/ \E x \in Text : PutApi(t, x)
  \/ \E s \in Song, x \in Slide : DeleteSlide(t, s, x)
  \/ \E s \in Song : AddSlide(t, s) \/ EditText(t, s)

\* The next step of the request that task t serves.
Step(t) ==
  \/ PublishCamera(t) \/ PublishStage(t)
  \/ ReadState(t) \/ ResolveState(t)
  \/ LockTrigger(t) \/ UpsertTrigger(t) \/ ApplyMarker(t)
  \/ Swap(t) \/ SkipSwap(t) \/ Persist(t) \/ RepublishApi(t)
  \/ AnnouncePut(t)
  \/ ResolveClear(t) \/ WriteClear(t)
  \/ Reconcile(t) \/ Fix(t)

Next == \/ \E t \in Task : Arrivals(t) \/ Step(t)
        \/ \E s \in Song : DeleteSong(s)
        \/ Restart

\* The runtime polls every request that can proceed.
Fairness == \A t \in Task : WF_vars(Step(t))

Spec == Init /\ [][Next]_vars /\ Fairness

-----------------------------------------------------------------------------
(* Properties. *)

Quiet == \A t \in Task : pc[t] = "idle"

Rows == [song : Song \union {None}, slide : Slide \union {None}]
Views == [song : Song \union {None}, slide : Slide \union {None}, rev : Nat]
Pushes == [text : Text \union {NoText}]
Critical == {"upsert", "marker", "publish", "publish_stage", "swap", "persist",
             "republish"}

\* Every variable has its type, a stage state without a song has no slide, and
\* the trigger lock is held by a trigger that writes or publishes.
TypeOK ==
  /\ live \subseteq Song
  /\ deck \in [Song -> (SUBSET Slide) \ {{}}]
  /\ unused \in [Song -> Nat]
  /\ rev \in [Song -> Nat]
  /\ state \subseteq Rows /\ \A r \in state : r.song = None => r.slide = None
  /\ layout \in Layout /\ saved \in Layout
  /\ apiText \in Text \union {NoText}
  /\ shown.layout \in Layout /\ shown.content \in Views \union Pushes
  /\ camera \in Views
  /\ trigger \in Task \union {NoTask}
  /\ trigger # NoTask => pc[trigger] \in Critical /\ row[trigger] # {}
  /\ editor \in [Song -> Task \union {NoTask}]
  /\ \A s \in Song : editor[s] # NoTask => pc[editor[s]] # "idle"
  /\ \A t \in Task :
       /\ row[t] \subseteq Rows
       /\ view[t] \subseteq Views
       /\ pc[t] = "idle" => row[t] = {} /\ view[t] = {}
       /\ pc[t] \in {"publish", "publish_stage"} => view[t] # {}

\* What displays were last told of the layout is the layout that is selected,
\* whichever switches, triggers and publications overlap: no snapshot for a
\* layout arrives after the switch away from it (#793).
LayoutsAgree == shown.layout = layout

\* Once nothing is under way, an API layout shows the text that was pushed
\* last, also when it was pushed before the switch or during it (#281).
ApiShowsPushed ==
  Quiet /\ layout \in ApiLayout => shown.content = Pushed(apiText)

\* Once nothing is under way, pushed text is not left on a normal layout (as
\* long as there is a song to show in its place).
SlidesReturn ==
  Quiet /\ layout \notin ApiLayout /\ live # {} => shown.content \in Views

\* Where the stage changes by triggers only, it ends on what the database
\* holds: cameras and stage displays show the slide that was written last,
\* never that of a trigger which lost the race (#515).
WinnerIsShown ==
  Quiet => \A r \in state :
             /\ camera \in Resolved(r)
             /\ layout \in ApiLayout \/ shown.content \in Resolved(r)

\* ... and on the layout that slide is marked with, if it is (#515).
WinnerSetsLayout ==
  Quiet => \A r \in state : \A c \in Marker[r.slide] : c = layout

\* Every request is answered: none waits for the trigger lock, or for the
\* layout, forever.
EveryRequestEnds == \A t \in Task : pc[t] # "idle" ~> pc[t] = "idle"

\* "Persist so the layout survives a restart/deploy (#384)": once no switch is
\* under way, the persisted layout is the selected one.
LayoutSurvives == Quiet => saved = layout
=============================================================================
