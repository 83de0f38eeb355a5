------------------------- MODULE StageOutputProof -------------------------
(***************************************************************************)
(* What displays show, for any number of concurrent requests, songs,       *)
(* slides and layouts.                                                     *)
(***************************************************************************)
EXTENDS StageOutput, FiniteSetTheorems, TLAPS

-----------------------------------------------------------------------------
(* What a stage state shows. *)

\* Every non-empty set of natural numbers has a least element: of the intervals
\* that end at its members one is contained in no other.
LEMMA LeastOf ==
  ASSUME NEW N \in SUBSET Nat, N # {}
  PROVE  Least(N) \in N
<1> DEFINE Below == {1..n : n \in N}
<1>1. Below \subseteq FiniteSubsetsOf(Nat) /\ Below # {}
  <2>1. ASSUME NEW n \in N PROVE 1..n \subseteq Nat /\ IsFiniteSet(1..n)
    BY FS_Interval
  <2> QED BY <2>1, Zenon DEF FiniteSubsetsOf
<1>2. PICK B \in Below : \A C \in Below : <<C, B>> \notin StrictSubsetOrdering(Nat)
  BY ONLY <1>1, WFMin, FS_StrictSubsetOrderingWellFounded
<1>3. PICK n \in N : B = 1..n
  OBVIOUS
<1>4. ASSUME NEW m \in N, m < n PROVE FALSE
  <2>1. 1..m \subseteq 1..n /\ n \in 1..n /\ n \notin 1..m
    BY <1>4
  <2>2. 1..m # 1..n /\ 1..m \in SUBSET Nat /\ 1..n \in SUBSET Nat
    BY <2>1
  <2>3. <<1..m, 1..n>> \in StrictSubsetOrdering(Nat)
    BY <2>1, <2>2 DEF StrictSubsetOrdering
  <2> QED BY <1>2, <1>3, <2>3
<1>5. \A m \in N : n <= m
  BY <1>4
<1> QED BY <1>5 DEF Least

ContentOK == /\ live \subseteq Song
             /\ deck \in [Song -> (SUBSET Slide) \ {{}}]
             /\ unused \in [Song -> Nat]
             /\ rev \in [Song -> Nat]

\* Rows that are or may become the stage state.
RowsOK(R) == R \subseteq Rows /\ \A r \in R : r.song = None => r.slide = None

LEMMA FirstOf ==
  ASSUME ContentOK, NEW s \in Song
  PROVE  First(s) \in deck[s] /\ First(s) \in Slide
<1>1. deck[s] \subseteq Slide /\ deck[s] # {}
  <2>1. deck[s] \in (SUBSET Slide) \ {{}}
    BY Zenon DEF ContentOK
  <2> QED BY <2>1, Zenon
<1>2. Slide \subseteq Nat
  BY NumberAssumption DEF Slide
<1>3. deck[s] \in SUBSET Nat /\ deck[s] # {}
  BY <1>1, <1>2
<1>4. First(s) \in deck[s]
  BY <1>3, LeastOf DEF First
<1> QED BY <1>1, <1>4

LEMMA SlidesOf ==
  ASSUME ContentOK, NEW s \in Song, NEW x
  PROVE  Slides(s, x) \in Views /\ Slides(s, x).song = s
<1>1. (IF x \in deck[s] THEN x ELSE First(s)) \in Slide
  BY FirstOf DEF ContentOK
<1> QED BY <1>1 DEF ContentOK, Slides, Views

LEMMA ResolvedOf ==
  ASSUME ContentOK, NEW r \in Rows
  PROVE  Resolved(r) \subseteq Views
<1>1. Nothing \in Views
  BY DEF Nothing, Views, None
<1>2. ASSUME r.song \in Song PROVE Blanked(r.song) \in Views
  BY <1>2 DEF ContentOK, Blanked, Views
<1>3. CASE r.song = None
  BY <1>1, <1>3 DEF Resolved
<1>4. CASE r.song # None
  BY <1>2, <1>4, SlidesOf DEF Resolved, Rows
<1> QED BY <1>3, <1>4

LEMMA DefaultOf ==
  ASSUME ContentOK
  PROVE  Default \subseteq Views /\ (Default = {} => live = {})
<1>1. CASE live = {}
  BY <1>1 DEF Default
<1>2. CASE live # {}
  <2>1. Least(live) \in Song
    BY <1>2, LeastOf, NumberAssumption DEF ContentOK
  <2> QED BY <1>2, <2>1, SlidesOf DEF Default
<1> QED BY <1>1, <1>2

\* There is nothing to show only when there is no song.
LEMMA ContextOf ==
  ASSUME ContentOK, NEW R \in SUBSET Rows
  PROVE  Context(R) \subseteq Views /\ (Context(R) = {} => live = {})
<1> DEFINE found == UNION {Resolved(r) : r \in R}
<1>1. found \subseteq Views
  BY ResolvedOf
<1>2. Context(R) = IF found # {} THEN found ELSE Default
  BY DEF Context
<1> HIDE DEF found
<1> QED BY <1>1, <1>2, DefaultOf

LEMMA EmptyOf ==
  ASSUME NEW V \in SUBSET Views
  PROVE  Empty(V) \subseteq Views /\ Empty(V) # {}
<1>1. Nothing \in Views
  BY DEF Nothing, Views, None
<1> QED BY <1>1 DEF Empty

-----------------------------------------------------------------------------
(* Types, and the layout a publication holds. *)

\* Displays were last told of the selected layout.
OutputOK == /\ shown = [layout |-> layout, content |-> shown.content]
            /\ shown.content \in Views \union Pushes
            /\ camera \in Views
StateOK == /\ RowsOK(state)
           /\ layout \in Layout /\ saved \in Layout
           /\ apiText \in Text \union {NoText}

\* The steps of a trigger before it publishes.
Triggering == {"lock", "upsert", "marker"}
Switching == {"swap", "persist"}
Reader == "publish_stage"

\* What task t holds is what its next step needs: a publication the layout it
\* read, still selected, and a push the text that is stored.
OK(t) ==
  /\ RowsOK(row[t])
  /\ view[t] \subseteq Views
  /\ pc[t] = "idle" => row[t] = {} /\ view[t] = {}
  /\ pc[t] \in Triggering => row[t] \subseteq [song : Song, slide : Slide] /\ row[t] # {}
  /\ pc[t] \in Triggering \union Switching \union {"republish"} /\ row[t] # {} => view[t] # {}
  /\ pc[t] \in Switching => \E c \in Layout : code[t] = {c}
  /\ pc[t] \in {"wipe", "publish", Reader} => view[t] # {}
  /\ pc[t] = Reader => code[t] = {layout} /\ layout \notin ApiLayout
  /\ pc[t] = "announce" => code[t] = {apiText}

TasksOK == /\ pc = [t \in Task |-> pc[t]] /\ row = [t \in Task |-> row[t]]
           /\ view = [t \in Task |-> view[t]] /\ code = [t \in Task |-> code[t]]
           /\ \A t \in Task : OK(t)

LocksOK ==
  /\ trigger \in Task \union {NoTask}
  /\ trigger # NoTask => pc[trigger] \in Critical /\ row[trigger] # {}
  /\ editor \in [Song -> Task \union {NoTask}]
  /\ \A s \in Song : editor[s] # NoTask => pc[editor[s]] # "idle"

TInv == ContentOK /\ StateOK /\ OutputOK /\ TasksOK /\ LocksOK

LEMMA InvTypes == TInv => TypeOK
<1> SUFFICES ASSUME TInv PROVE TypeOK
  OBVIOUS
<1>1. shown.layout \in Layout
  BY DEF TInv, StateOK, OutputOK
<1>2. ASSUME NEW t \in Task
      PROVE  /\ row[t] \subseteq Rows
             /\ view[t] \subseteq Views
             /\ pc[t] = "idle" => row[t] = {} /\ view[t] = {}
             /\ pc[t] \in {"publish", "publish_stage"} => view[t] # {}
  BY DEF TInv, TasksOK, OK, RowsOK, Reader
<1> QED BY <1>1, <1>2 DEF TInv, ContentOK, StateOK, OutputOK, LocksOK, RowsOK, TypeOK

\* Task t takes a step.
Only(t) == /\ pc' = [pc EXCEPT ![t] = pc'[t]] /\ row' = [row EXCEPT ![t] = row'[t]]
           /\ view' = [view EXCEPT ![t] = view'[t]] /\ code' = [code EXCEPT ![t] = code'[t]]

\* No publication but that of t sees the layout change, and no push but that of
\* t the text.
LEMMA TasksStep ==
  ASSUME TasksOK, NEW t \in Task, Only(t), OK(t)',
         \A u \in Task \ {t} : pc[u] # Reader \/ layout' = layout,
         \A u \in Task \ {t} : pc[u] # "announce" \/ apiText' = apiText
  PROVE  TasksOK'
<1>1. /\ pc' = [u \in Task |-> pc'[u]] /\ row' = [u \in Task |-> row'[u]]
      /\ view' = [u \in Task |-> view'[u]] /\ code' = [u \in Task |-> code'[u]]
  BY DEF TasksOK, Only
<1>2. ASSUME NEW u \in Task, u # t PROVE OK(u)'
  <2>1. pc'[u] = pc[u] /\ row'[u] = row[u] /\ view'[u] = view[u] /\ code'[u] = code[u]
    BY <1>2 DEF TasksOK, Only
  <2>2. OK(u)
    BY DEF TasksOK
  <2> QED BY <1>2, <2>1, <2>2 DEF OK, RowsOK
<1> QED BY <1>1, <1>2 DEF TasksOK

\* A task that takes no lock and is not done, ...
LEMMA KeepsLocks ==
  ASSUME TasksOK, LocksOK, NEW t \in Task, Only(t), UNCHANGED locks, pc'[t] # "idle",
         trigger = t => pc'[t] \in Critical /\ row'[t] # {}
  PROVE  LocksOK'
<1>1. \A u \in Task : u # t => pc'[u] = pc[u] /\ row'[u] = row[u]
  BY DEF TasksOK, Only
<1> QED BY <1>1, TaskAssumption DEF LocksOK, locks

\* ... and one that answers.
LEMMA Finishes ==
  ASSUME TasksOK, LocksOK, NEW t \in Task, Finish(t)
  PROVE  Only(t) /\ pc'[t] = "idle" /\ OK(t)' /\ LocksOK'
<1>1. Only(t) /\ pc'[t] = "idle" /\ row'[t] = {} /\ view'[t] = {}
  BY DEF Finish, Goto, TasksOK, Only
<1>2. OK(t)'
  BY <1>1 DEF OK, RowsOK, Triggering, Switching, Reader
<1>3. \A u \in Task : u # t => pc'[u] = pc[u] /\ row'[u] = row[u]
  BY <1>1 DEF TasksOK, Only
<1>4. LocksOK'
  BY <1>3, TaskAssumption DEF Finish, LocksOK
<1> QED BY <1>1, <1>2, <1>4

LEMMA InitTypes == Init => TInv
<1> SUFFICES ASSUME Init PROVE TInv
  OBVIOUS
<1>1. ContentOK
  <2>1. 1..NumSlides \subseteq Slide /\ 1 \in 1..NumSlides /\ NumSlides + 1 \in Nat
    BY NumberAssumption DEF Slide
  <2>2. 1..NumSlides \in (SUBSET Slide) \ {{}}
    BY <2>1
  <2> QED BY <2>1, <2>2 DEF Init, ContentOK
<1>2. StateOK /\ TasksOK /\ LocksOK
  BY LayoutAssumption
  DEF Init, StateOK, RowsOK, TasksOK, OK, LocksOK, Triggering, Switching, Reader
<1>3. OutputOK
  <2>1. Empty(Default) \subseteq Views
    BY <1>1, DefaultOf, EmptyOf
  <2> QED BY <2>1 DEF Init, OutputOK
<1> QED BY <1>1, <1>2, <1>3 DEF TInv

\* A request that arrives, or that reads or prepares what it is to publish:
\* what is shared does not change, but for the text that is pushed.
LEMMA ArrivalTypes == ASSUME TInv, NEW t \in Task, Arrivals(t) PROVE TInv'
<1> USE DEF Arrive, Goto, Keep, Prepare, settings, locks, work, output
<1> USE DEF Refresh, Clear, SetTextMode, Trigger, Switch, PutApi, DeleteSlide, AddSlide,
            EditText, Edit
<1>1. pc[t] = "idle"
  BY DEF Arrivals
<1>2. row[t] = {} /\ view[t] = {} /\ trigger # t
  <2>1. OK(t)
    BY DEF TInv, TasksOK
  <2>2. trigger # t
    BY <1>1, TaskAssumption DEF TInv, LocksOK, Critical
  <2> QED BY <1>1, <2>1, <2>2 DEF OK
<1>3. Only(t) /\ pc'[t] # "idle"
  BY DEF Arrivals, TInv, TasksOK, Only
<1>4. ContentOK'
  <2>1. ASSUME NEW s \in Song, NEW x \in Slide, DeleteSlide(t, s, x) PROVE ContentOK'
    <3>1. (IF deck[s] = {x} THEN {unused[s]} ELSE deck[s] \ {x}) \in (SUBSET Slide) \ {{}}
      BY <2>1 DEF TInv, ContentOK
    <3> QED BY <2>1, <3>1 DEF TInv, ContentOK
  <2>2. ASSUME NEW s \in Song, AddSlide(t, s) PROVE ContentOK'
    <3>1. deck[s] \union {unused[s]} \in (SUBSET Slide) \ {{}}
      BY <2>2 DEF TInv, ContentOK
    <3> QED BY <2>2, <3>1 DEF TInv, ContentOK
  <2>3. ASSUME NEW s \in Song, EditText(t, s) PROVE ContentOK'
    BY <2>3 DEF TInv, ContentOK
  <2>4. CASE UNCHANGED content
    BY <2>4 DEF TInv, ContentOK, content
  <2> QED BY <2>1, <2>2, <2>3, <2>4 DEF Arrivals
<1>5. StateOK' /\ OutputOK'
  BY DEF Arrivals, TInv, StateOK, OutputOK, RowsOK
<1>6. OK(t)'
  <2>1. ASSUME NEW s \in Song, NEW x \in Slide, Trigger(t, s, x) PROVE OK(t)'
    <3>1. row'[t] = {Row(s, x)} /\ view'[t] = {Slides(s, x)} /\ pc'[t] = "lock"
      BY <2>1 DEF TInv, TasksOK
    <3>2. Slides(s, x) \in Views
      BY SlidesOf DEF TInv
    <3>3. Row(s, x) \in [song : Song, slide : Slide] /\ Row(s, x).song # None
          /\ Row(s, x) \in Rows
      BY NumberAssumption DEF Row, None, Rows
    <3> QED BY <3>1, <3>2, <3>3 DEF OK, RowsOK, Triggering, Switching, Reader
  <2>2. ASSUME NEW c \in Layout, Switch(t, c) PROVE OK(t)'
    <3>1. row'[t] = {} /\ pc'[t] = "swap" /\ code'[t] = {c}
          /\ view'[t] = IF c \in ApiLayout THEN {} ELSE Context(state)
      BY <1>2, <2>2 DEF TInv, TasksOK
    <3>2. Context(state) \subseteq Views
      BY ContextOf DEF TInv, StateOK, RowsOK
    <3> QED BY <3>1, <3>2 DEF OK, RowsOK, Triggering, Switching, Reader
  <2>3. ASSUME NEW x \in Text, PutApi(t, x) PROVE OK(t)'
    BY <1>2, <2>3 DEF TInv, TasksOK, OK, RowsOK, Triggering, Switching, Reader
  <2>4. CASE Clear(t)
    <3>1. ASSUME state # {} PROVE (CHOOSE r \in state : TRUE) \in Rows
      BY <3>1 DEF TInv, StateOK, RowsOK
    <3>2. PICK n \in Song \union {None} : row'[t] = {Row(n, None)}
      <4>1. CASE state = {}
        BY <2>4, <4>1 DEF TInv, TasksOK
      <4>2. CASE state # {}
        BY <2>4, <3>1, <4>2 DEF TInv, TasksOK, Rows
      <4> QED BY <4>1, <4>2
    <3>3. Row(n, None) \in Rows /\ Row(n, None).slide = None
      BY DEF Row, Rows
    <3>4. pc'[t] = "clearing" /\ view'[t] = {}
      BY <1>2, <2>4 DEF TInv, TasksOK
    <3> QED BY <3>2, <3>3, <3>4 DEF OK, RowsOK, Triggering, Switching, Reader
  <2>5. ASSUME pc'[t] \in {"read", "republish", "reconcile"}, UNCHANGED work PROVE OK(t)'
    BY <1>2, <2>5 DEF OK, RowsOK, Triggering, Switching, Reader
  <2>6. CASE \E s \in Song, x \in Slide : DeleteSlide(t, s, x)
    BY <2>5, <2>6 DEF TInv, TasksOK
  <2>7. CASE \E s \in Song : AddSlide(t, s) \/ EditText(t, s)
    BY <2>5, <2>7 DEF TInv, TasksOK
  <2>8. CASE Refresh(t) \/ SetTextMode(t)
    BY <2>5, <2>8 DEF TInv, TasksOK
  <2> QED BY <2>1, <2>2, <2>3, <2>4, <2>6, <2>7, <2>8 DEF Arrivals
<1>7. \A u \in Task \ {t} : pc[u] # "announce" \/ apiText' = apiText
  BY DEF Arrivals
<1>8. LocksOK'
  <2>1. CASE UNCHANGED locks
    BY <1>2, <1>3, <2>1, KeepsLocks DEF TInv
  <2>2. ASSUME NEW s \in Song, editor' = [editor EXCEPT ![s] = t], UNCHANGED trigger
        PROVE  LocksOK'
    <3>1. \A u \in Task : u # t => pc'[u] = pc[u] /\ row'[u] = row[u]
      BY <1>3 DEF TInv, TasksOK, Only
    <3> QED BY <1>2, <1>3, <2>2, <3>1, TaskAssumption DEF TInv, LocksOK
  <2> QED BY <2>1, <2>2 DEF Arrivals
<1>9. UNCHANGED layout
  BY DEF Arrivals
<1> QED BY <1>3, <1>4, <1>5, <1>6, <1>7, <1>8, <1>9, TasksStep DEF TInv

\* The next step of a request.
LEMMA StepTypes == ASSUME TInv, NEW t \in Task, Step(t) PROVE TInv'
<1> USE DEF Goto, Keep, Prepare, settings, locks, work, output
<1>1. TasksOK /\ LocksOK /\ OK(t)
  BY DEF TInv, TasksOK
\* What a step leaves alone: all but the stage, and the tasks and their locks.
<1>2. UNCHANGED content /\ ContentOK'
  <2>1. UNCHANGED content
    BY DEF Step, PublishCamera, PublishStage, ReadState, ResolveState, LockTrigger,
           UpsertTrigger, ApplyMarker, Swap, SkipSwap, Persist, RepublishApi, AnnouncePut,
           ResolveClear, WriteClear, Reconcile, Fix
  <2> QED BY <2>1 DEF TInv, ContentOK, content
<1>3. UNCHANGED apiText
  BY DEF Step, PublishCamera, PublishStage, ReadState, ResolveState, LockTrigger,
         UpsertTrigger, ApplyMarker, Swap, SkipSwap, Persist, RepublishApi, AnnouncePut,
         ResolveClear, WriteClear, Reconcile, Fix
<1>4. \A u \in Task \ {t} : pc[u] # Reader \/ layout' = layout
  BY DEF Step, PublishCamera, PublishStage, ReadState, ResolveState, LockTrigger,
         UpsertTrigger, ApplyMarker, Swap, SkipSwap, Persist, RepublishApi, AnnouncePut,
         ResolveClear, WriteClear, Reconcile, Fix, Readers, Reader
<1> DEFINE Right == Only(t) /\ OK(t)' /\ LocksOK' /\ StateOK' /\ OutputOK'
<1> SUFFICES Right
  BY <1>1, <1>2, <1>3, <1>4, TasksStep DEF TInv
<1>5. CASE PublishCamera(t)
  <2>1. StateOK' /\ OutputOK'
    BY <1>1, <1>5 DEF PublishCamera, TInv, StateOK, OutputOK, RowsOK, OK
  <2>2. CASE layout \in ApiLayout
    BY <1>1, <1>5, <2>1, <2>2, Finishes DEF PublishCamera
  <2>3. CASE layout \notin ApiLayout
    <3>1. Only(t) /\ pc'[t] = Reader /\ code'[t] = {layout} /\ UNCHANGED <<layout, locks, row, view>>
      BY <1>1, <1>5, <2>3 DEF PublishCamera, TasksOK, Only, Reader
    <3>2. OK(t)'
      BY <1>1, <1>5, <2>3, <3>1 DEF PublishCamera, OK, RowsOK, Triggering, Switching, Reader
    <3>3. LocksOK'
      <4>1. trigger = t => row'[t] # {}
        BY <1>1, <3>1, TaskAssumption DEF LocksOK
      <4> QED BY <1>1, <3>1, <4>1, KeepsLocks DEF Critical, Reader
    <3> QED BY <2>1, <3>1, <3>2, <3>3
  <2> QED BY <2>2, <2>3
<1>6. CASE PublishStage(t)
  <2>1. StateOK' /\ OutputOK'
    BY <1>1, <1>6 DEF PublishStage, TInv, StateOK, OutputOK, RowsOK, OK, Reader
  <2> QED BY <1>1, <1>6, <2>1, Finishes DEF PublishStage
<1>7. ASSUME pc[t] \in Critical, UNCHANGED <<locks, row>>, Only(t), pc'[t] \in Critical
      PROVE  LocksOK'
  <2>1. trigger = t => row'[t] # {}
    BY <1>1, <1>7, TaskAssumption DEF LocksOK
  <2> QED BY <1>1, <1>7, <2>1, KeepsLocks DEF Critical
<1>8. ASSUME pc[t] \notin Critical, UNCHANGED locks, Only(t), pc'[t] # "idle"
      PROVE  LocksOK'
  BY <1>1, <1>8, TaskAssumption, KeepsLocks DEF LocksOK
<1>9. CASE ReadState(t)
  <2>1. StateOK' /\ OutputOK'
    BY <1>9 DEF ReadState, TInv, StateOK, OutputOK, RowsOK
  <2>2. Only(t) /\ row'[t] = state /\ pc'[t] = "resolve" /\ view' = view /\ pc[t] = "read"
    BY <1>1, <1>9 DEF ReadState, TasksOK, Only
  <2>3. OK(t)'
    BY <1>1, <2>2 DEF TInv, StateOK, OK, RowsOK, Triggering, Switching, Reader
  <2>4. LocksOK'
    BY <1>8, <1>9, <2>2 DEF ReadState, Critical
  <2> QED BY <2>1, <2>2, <2>3, <2>4
<1>10. CASE ResolveState(t)
  <2>1. StateOK' /\ OutputOK'
    BY <1>10 DEF ResolveState, TInv, StateOK, OutputOK, RowsOK
  <2>2. CASE Context(row[t]) = {}
    BY <1>1, <1>10, <2>1, <2>2, Finishes DEF ResolveState
  <2>3. CASE Context(row[t]) # {}
    <3>1. Only(t) /\ row' = row /\ pc'[t] = "publish" /\ view'[t] = Context(row[t])
      BY <1>1, <1>10, <2>3 DEF ResolveState, TasksOK, Only
    <3>2. Context(row[t]) \subseteq Views
      BY <1>1, ContextOf DEF TInv, OK, RowsOK
    <3>3. OK(t)'
      BY <1>1, <2>3, <3>1, <3>2 DEF OK, RowsOK, Triggering, Switching, Reader
    <3>4. LocksOK'
      BY <1>8, <1>10, <2>3, <3>1 DEF ResolveState, Critical
    <3> QED BY <2>1, <3>1, <3>3, <3>4
  <2> QED BY <2>2, <2>3
<1>11. CASE LockTrigger(t)
  <2>1. StateOK' /\ OutputOK'
    BY <1>11 DEF LockTrigger, TInv, StateOK, OutputOK, RowsOK
  <2>2. Only(t) /\ pc[t] = "lock" /\ pc'[t] = "upsert" /\ UNCHANGED <<row, view, code, editor>>
    BY <1>1, <1>11 DEF LockTrigger, TasksOK, Only
  <2>3. OK(t)'
    BY <1>1, <2>2 DEF OK, RowsOK, Triggering, Switching, Reader
  <2>4. \A u \in Task : u # t => pc'[u] = pc[u] /\ row'[u] = row[u]
    BY <1>1, <2>2 DEF TasksOK, Only
  <2>5. LocksOK'
    BY <1>1, <1>11, <2>2, <2>4, TaskAssumption
    DEF LockTrigger, LocksOK, Critical, OK, Triggering
  <2> QED BY <2>1, <2>2, <2>3, <2>5
<1>12. CASE UpsertTrigger(t)
  <2>1. StateOK' /\ OutputOK'
    BY <1>1, <1>12 DEF UpsertTrigger, TInv, StateOK, OutputOK, RowsOK, OK
  <2>2. Only(t) /\ pc[t] = "upsert" /\ pc'[t] = "marker" /\ UNCHANGED <<row, view, code>>
    BY <1>1, <1>12 DEF UpsertTrigger, TasksOK, Only
  <2>3. OK(t)'
    BY <1>1, <2>2 DEF OK, RowsOK, Triggering, Switching, Reader
  <2>4. LocksOK'
    BY <1>7, <1>12, <2>2 DEF UpsertTrigger, Critical
  <2> QED BY <2>1, <2>2, <2>3, <2>4
<1>13. CASE ApplyMarker(t)
  <2>1. StateOK' /\ OutputOK'
    BY <1>13 DEF ApplyMarker, TInv, StateOK, OutputOK, RowsOK
  <2>2. /\ Only(t) /\ pc[t] = "marker" /\ UNCHANGED <<row, view, layout>>
        /\ pc'[t] = IF code'[t] \subseteq {layout} THEN "publish" ELSE "swap"
    BY <1>1, <1>13 DEF ApplyMarker, TasksOK, Only
  <2>3. PICK r \in row[t] :
          code'[t] = IF r.slide \in deck[r.song] THEN Marker[r.slide] ELSE {}
    BY <1>1, <1>13 DEF ApplyMarker, TasksOK
  <2>4. r.slide \in Slide
    BY <1>1, <2>2 DEF OK, Triggering
  <2>5. code'[t] \subseteq {layout} \/ \E c \in Layout : code'[t] = {c}
    BY <2>3, <2>4, LayoutAssumption
  <2>6. OK(t)'
    BY <1>1, <2>2, <2>5 DEF OK, RowsOK, Triggering, Switching, Reader
  <2>7. LocksOK'
    BY <1>7, <1>13, <2>2 DEF ApplyMarker, Critical
  <2> QED BY <2>1, <2>2, <2>6, <2>7
<1>14. CASE Swap(t)
  <2>1. PICK c \in Layout : code[t] = {c}
    BY <1>1, <1>14 DEF Swap, OK, Switching
  <2>2. StateOK' /\ OutputOK'
    BY <1>14, <2>1 DEF Swap, TInv, StateOK, OutputOK, RowsOK
  <2>3. Only(t) /\ pc[t] = "swap" /\ pc'[t] = "persist" /\ UNCHANGED <<row, view, code>>
    BY <1>1, <1>14 DEF Swap, TasksOK, Only
  <2>4. OK(t)'
    BY <1>1, <2>3 DEF OK, RowsOK, Triggering, Switching, Reader
  <2>5. LocksOK'
    BY <1>7, <1>14, <2>3 DEF Swap, Critical
  <2> QED BY <2>2, <2>3, <2>4, <2>5
<1>15. CASE SkipSwap(t)
  <2>1. StateOK' /\ OutputOK'
    BY <1>15 DEF SkipSwap, TInv, StateOK, OutputOK, RowsOK
  <2>2. CASE ~Triggers(t)
    BY <1>1, <1>15, <2>1, <2>2, Finishes DEF SkipSwap
  <2>3. CASE Triggers(t)
    <3>1. Only(t) /\ pc[t] = "swap" /\ pc'[t] = "publish" /\ UNCHANGED <<row, view, code>>
      BY <1>1, <1>15, <2>3 DEF SkipSwap, TasksOK, Only
    <3>2. OK(t)'
      BY <1>1, <2>3, <3>1 DEF Triggers, OK, RowsOK, Triggering, Switching, Reader
    <3>3. LocksOK'
      BY <1>7, <1>15, <2>3, <3>1 DEF SkipSwap, Critical
    <3> QED BY <2>1, <3>1, <3>2, <3>3
  <2> QED BY <2>2, <2>3
<1>16. CASE Persist(t)
  <2>1. PICK c \in Layout : code[t] = {c} /\ saved' = c
    BY <1>1, <1>16 DEF Persist, OK, Switching
  <2>2. StateOK' /\ OutputOK'
    BY <1>16, <2>1 DEF Persist, TInv, StateOK, OutputOK, RowsOK
  <2>3. CASE Finish(t)
    BY <1>1, <2>2, <2>3, Finishes
  <2>4. CASE ~Finish(t)
    <3>1. Only(t) /\ pc[t] = "persist" /\ pc'[t] = AfterPersist(t, c) /\ UNCHANGED <<row, view, code>>
      BY <1>1, <1>16, <2>1, <2>4 DEF Persist, TasksOK, Only
    <3>2. OK(t)'
      BY <1>1, <3>1 DEF AfterPersist, Triggers, OK, RowsOK, Triggering, Switching, Reader
    <3>3. LocksOK'
      <4>1. CASE Triggers(t)
        BY <1>7, <1>16, <2>4, <3>1, <4>1 DEF Persist, AfterPersist, Critical
      <4>2. CASE ~Triggers(t)
        <5>1. trigger # t
          BY <1>1, <4>2, TaskAssumption DEF LocksOK, Triggers
        <5> QED BY <1>1, <1>16, <2>4, <3>1, <5>1, KeepsLocks DEF Persist, AfterPersist
      <4> QED BY <4>1, <4>2
    <3> QED BY <2>2, <3>1, <3>2, <3>3
  <2> QED BY <2>3, <2>4
<1>17. CASE RepublishApi(t)
  <2>1. StateOK' /\ OutputOK'
    BY <1>17 DEF RepublishApi, ShowPushed, Pushed, Pushes, TInv, StateOK, OutputOK, RowsOK
  <2>2. CASE ~Triggers(t)
    BY <1>1, <1>17, <2>1, <2>2, Finishes DEF RepublishApi
  <2>3. CASE Triggers(t)
    <3>1. Only(t) /\ pc[t] = "republish" /\ pc'[t] = "publish" /\ UNCHANGED <<row, view, code>>
      BY <1>1, <1>17, <2>3 DEF RepublishApi, TasksOK, Only
    <3>2. OK(t)'
      BY <1>1, <2>3, <3>1 DEF Triggers, OK, RowsOK, Triggering, Switching, Reader
    <3>3. LocksOK'
      BY <1>7, <1>17, <2>3, <3>1 DEF RepublishApi, Critical
    <3> QED BY <2>1, <3>1, <3>2, <3>3
  <2> QED BY <2>2, <2>3
<1>18. CASE AnnouncePut(t)
  <2>1. StateOK' /\ OutputOK'
    BY <1>1, <1>18 DEF AnnouncePut, ShowPushed, Pushed, Pushes, TInv, StateOK, OutputOK, RowsOK, OK
  <2> QED BY <1>1, <1>18, <2>1, Finishes DEF AnnouncePut
<1>19. CASE ResolveClear(t)
  <2> DEFINE found == UNION {Resolved(r) : r \in row[t]}
  <2>1. StateOK' /\ OutputOK'
    BY <1>19 DEF ResolveClear, TInv, StateOK, OutputOK, RowsOK
  <2>2. found \subseteq Views
    BY <1>1, ResolvedOf DEF TInv, OK, RowsOK
  <2>3. /\ Only(t) /\ pc[t] = "clearing" /\ pc'[t] = "wipe" /\ view'[t] = Empty(found)
        /\ row'[t] = IF found = {} THEN {Row(None, None)} ELSE row[t]
    BY <1>1, <1>19 DEF ResolveClear, TasksOK, Only
  <2>4. Row(None, None) \in Rows /\ Row(None, None).slide = None
    BY DEF Row, Rows
  <2> HIDE DEF found
  <2>5. RowsOK(row'[t]) /\ view'[t] \subseteq Views /\ view'[t] # {}
    BY <1>1, <2>2, <2>3, <2>4, EmptyOf DEF OK, RowsOK
  <2>6. OK(t)'
    BY <2>3, <2>5 DEF OK, RowsOK, Triggering, Switching, Reader
  <2>7. LocksOK'
    BY <1>8, <1>19, <2>3 DEF ResolveClear, Critical
  <2> QED BY <2>1, <2>3, <2>6, <2>7
<1>20. CASE WriteClear(t)
  <2>1. StateOK' /\ OutputOK'
    BY <1>1, <1>20 DEF WriteClear, TInv, StateOK, OutputOK, RowsOK, OK
  <2>2. Only(t) /\ pc[t] = "wipe" /\ pc'[t] = "publish" /\ UNCHANGED <<row, view, code>>
    BY <1>1, <1>20 DEF WriteClear, TasksOK, Only
  <2>3. OK(t)'
    BY <1>1, <2>2 DEF OK, RowsOK, Triggering, Switching, Reader
  <2>4. LocksOK'
    BY <1>8, <1>20, <2>2 DEF WriteClear, Critical
  <2> QED BY <2>1, <2>2, <2>3, <2>4
<1>21. CASE Reconcile(t)
  <2> DEFINE stale == {r \in state : /\ r.slide # None
                                     /\ editor[r.song] = t
                                     /\ r.slide \notin deck[r.song]}
  <2>1. StateOK' /\ OutputOK'
    BY <1>21 DEF Reconcile, TInv, StateOK, OutputOK, RowsOK
  <2>2. /\ Only(t) /\ pc[t] = "reconcile" /\ pc'[t] \in {"read", "fix"} /\ view' = view
        /\ row'[t] = row[t] \/ row'[t] = {Row(r.song, First(r.song)) : r \in stale}
    BY <1>1, <1>21 DEF Reconcile, TasksOK, Only
  <2>3. ASSUME NEW r \in stale
        PROVE  Row(r.song, First(r.song)) \in Rows /\ Row(r.song, First(r.song)).song # None
    <3>1. r.song \in Song
      BY DEF TInv, StateOK, RowsOK, Rows
    <3> QED BY <3>1, FirstOf, NumberAssumption DEF TInv, Row, Rows, None
  <2> HIDE DEF stale
  <2>4. RowsOK(row'[t])
    <3> DEFINE fixed == {Row(r.song, First(r.song)) : r \in stale}
    <3>1. \A f \in fixed : f \in Rows /\ f.song # None
      BY <2>3
    <3>2. row'[t] = row[t] \/ row'[t] = fixed
      BY <2>2
    <3> HIDE DEF fixed
    <3> QED BY <1>1, <3>1, <3>2 DEF OK, RowsOK
  <2>5. OK(t)'
    BY <1>1, <2>2, <2>4 DEF OK, RowsOK, Triggering, Switching, Reader
  <2>6. LocksOK'
    BY <1>8, <1>21, <2>2 DEF Reconcile, Critical
  <2> QED BY <2>1, <2>2, <2>5, <2>6
<1>22. CASE Fix(t)
  <2>1. StateOK' /\ OutputOK'
    BY <1>1, <1>22 DEF Fix, TInv, StateOK, OutputOK, RowsOK, OK
  <2>2. Only(t) /\ pc[t] = "fix" /\ pc'[t] = "read" /\ UNCHANGED <<row, view, code>>
    BY <1>1, <1>22 DEF Fix, TasksOK, Only
  <2>3. OK(t)'
    BY <1>1, <2>2 DEF OK, RowsOK, Triggering, Switching, Reader
  <2>4. LocksOK'
    BY <1>8, <1>22, <2>2 DEF Fix, Critical
  <2> QED BY <2>1, <2>2, <2>3, <2>4
<1> QED
  BY <1>5, <1>6, <1>9, <1>10, <1>11, <1>12, <1>13, <1>14, <1>15, <1>16, <1>17, <1>18,
     <1>19, <1>20, <1>21, <1>22 DEF Step

LEMMA NextTypes == TInv /\ [Next]_vars => TInv'
<1> SUFFICES ASSUME TInv, [Next]_vars PROVE TInv'
  OBVIOUS
<1>1. CASE \E t \in Task : Arrivals(t) \/ Step(t)
  BY <1>1, ArrivalTypes, StepTypes
<1>2. ASSUME NEW s \in Song, DeleteSong(s) PROVE TInv'
  BY <1>2 DEF DeleteSong, output, settings, locks, work, TInv, ContentOK, StateOK, OutputOK,
              TasksOK, OK, LocksOK, RowsOK
<1>3. CASE Restart
  <2>1. ContentOK' /\ StateOK'
    BY <1>3 DEF Restart, content, TInv, ContentOK, StateOK, RowsOK
  <2>2. TasksOK' /\ LocksOK'
    BY <1>3 DEF Restart, TasksOK, OK, LocksOK, RowsOK, Triggering, Switching, Reader
  <2>3. camera' \in Views
    BY <1>3, ContextOf, EmptyOf DEF Restart, TInv, StateOK, RowsOK
  <2>4. OutputOK'
    BY <1>3, <2>3 DEF Restart, OutputOK, Pushed, Pushes
  <2> QED BY <2>1, <2>2, <2>4 DEF TInv
<1>4. CASE UNCHANGED vars
  BY <1>4 DEF vars, content, output, settings, locks, work, TInv, ContentOK, StateOK, OutputOK,
              TasksOK, OK, LocksOK, RowsOK
<1> QED
  BY <1>1, <1>2, <1>3, <1>4 DEF Next

-----------------------------------------------------------------------------
(* Pushed text and slides. *)

\* Task t is about to show the text last pushed on an API layout, ...
Pushing(t) == \/ pc[t] \in {"announce", "republish"}
              \/ pc[t] = "persist" /\ code[t] \subseteq ApiLayout
PushedInv == layout \in ApiLayout =>
               shown.content = Pushed(apiText) \/ \E t \in Task : Pushing(t)

\* ... or slides on another.
Showing(t) == \/ pc[t] \in {"read", "resolve", "publish", Reader}
              \/ pc[t] = "persist" /\ code[t] \intersect ApiLayout = {}
SlidesInv == layout \notin ApiLayout /\ live # {} =>
               shown.content \in Views \/ \E t \in Task : Showing(t)
\* A switch to slides has some to publish, unless there is no song.
SwitchesOK == \A t \in Task :
  pc[t] \in Switching /\ code[t] \intersect ApiLayout = {} => view[t] # {} \/ live = {}

ShowInv == PushedInv /\ SlidesInv /\ SwitchesOK

LEMMA InitShow == Init => ShowInv
<1> SUFFICES ASSUME Init PROVE ShowInv
  OBVIOUS
<1>1. shown.content \in Views
  <2>1. TInv
    BY InitTypes
  <2> QED BY <2>1 DEF Init, TInv, OutputOK
<1> QED BY <1>1, LayoutAssumption DEF Init, ShowInv, PushedInv, SlidesInv, SwitchesOK, Switching

\* A step of t that was to show nothing and that shows nothing.
LEMMA ShowsNothing ==
  ASSUME TInv, ShowInv, NEW t \in Task, Only(t), UNCHANGED <<layout, apiText, shown>>,
         live' \subseteq live,
         Pushing(t) => Pushing(t)' \/ layout \notin ApiLayout,
         Showing(t) => Showing(t)' \/ layout \in ApiLayout \/ live = {},
         pc'[t] \in Switching /\ code'[t] \intersect ApiLayout = {} => view'[t] # {} \/ live = {}
  PROVE  ShowInv'
<1>1. \A u \in Task : u # t => pc'[u] = pc[u] /\ code'[u] = code[u] /\ view'[u] = view[u]
  BY DEF TInv, TasksOK, Only
<1>2. \A u \in Task : u # t => (Pushing(u)' <=> Pushing(u)) /\ (Showing(u)' <=> Showing(u))
  BY <1>1 DEF Pushing, Showing
<1>3. PushedInv'
  BY <1>2 DEF ShowInv, PushedInv
<1>4. SlidesInv'
  BY <1>2 DEF ShowInv, SlidesInv
<1>5. SwitchesOK'
  BY <1>1 DEF ShowInv, SwitchesOK
<1> QED BY <1>3, <1>4, <1>5 DEF ShowInv

LEMMA ArrivalShows == ASSUME TInv, ShowInv, NEW t \in Task, Arrivals(t) PROVE ShowInv'
<1> USE DEF Arrive, Goto, Keep, Prepare, settings, locks, work, output, content
<1> USE DEF Refresh, Clear, SetTextMode, Trigger, Switch, PutApi, DeleteSlide, AddSlide,
            EditText, Edit
<1>1. pc[t] = "idle" /\ Only(t) /\ UNCHANGED <<layout, shown, live>>
  BY DEF Arrivals, TInv, TasksOK, Only
<1>2. ~Pushing(t) /\ ~Showing(t)
  BY <1>1 DEF Pushing, Showing, Reader
<1>3. ASSUME NEW x \in Text, PutApi(t, x) PROVE ShowInv'
  <2>1. pc'[t] = "announce"
    BY <1>3 DEF TInv, TasksOK
  <2>2. \A u \in Task : u # t => pc'[u] = pc[u] /\ code'[u] = code[u] /\ view'[u] = view[u]
    BY <1>1 DEF TInv, TasksOK, Only
  <2>3. Pushing(t)' /\ PushedInv'
    BY <2>1 DEF Pushing, PushedInv
  <2>4. SlidesInv'
    BY <1>1, <1>2, <2>2 DEF ShowInv, SlidesInv, Showing
  <2>5. SwitchesOK'
    BY <1>1, <2>1, <2>2 DEF ShowInv, SwitchesOK, Switching
  <2> QED BY <2>3, <2>4, <2>5 DEF ShowInv
<1>4. ASSUME NEW c \in Layout, Switch(t, c) PROVE ShowInv'
  <2>1. code'[t] = {c} /\ view'[t] = IF c \in ApiLayout THEN {} ELSE Context(state)
    BY <1>4 DEF TInv, TasksOK
  <2>2. Context(state) = {} => live = {}
    BY ContextOf DEF TInv, StateOK, RowsOK
  <2>3. UNCHANGED apiText
    BY <1>4
  <2> QED BY <1>1, <1>2, <2>1, <2>2, <2>3, ShowsNothing
<1>5. ASSUME pc'[t] \notin Switching, UNCHANGED apiText PROVE ShowInv'
  BY <1>1, <1>2, <1>5, ShowsNothing
<1>6. CASE ~\E c \in Layout : Switch(t, c)
  <2>1. pc'[t] \notin Switching
    BY <1>6 DEF Arrivals, TInv, TasksOK, Switching
  <2>2. CASE ~\E x \in Text : PutApi(t, x)
    BY <1>5, <1>6, <2>1, <2>2 DEF Arrivals
  <2> QED BY <1>3, <2>2
<1> QED BY <1>4, <1>6

LEMMA StepShows == ASSUME TInv, ShowInv, NEW t \in Task, Step(t) PROVE ShowInv'
<1> USE DEF Goto, Keep, Prepare, settings, locks, work, output, content
<1>1. TasksOK /\ LocksOK /\ OK(t)
  BY DEF TInv, TasksOK
<1>2. /\ Only(t) /\ UNCHANGED <<live, apiText>>
      /\ \A u \in Task : u # t => pc'[u] = pc[u] /\ code'[u] = code[u] /\ view'[u] = view[u]
  <2>1. ASSUME Finish(t) PROVE Only(t)
    BY <1>1, <2>1, Finishes
  <2>2. ASSUME ~Finish(t) PROVE Only(t)
    BY <1>1, <2>2
    DEF Step, PublishCamera, PublishStage, ReadState, ResolveState, LockTrigger,
        UpsertTrigger, ApplyMarker, Swap, SkipSwap, Persist, RepublishApi, AnnouncePut,
        ResolveClear, WriteClear, Reconcile, Fix, TasksOK, Only
  <2>3. UNCHANGED <<live, apiText>>
    BY DEF Step, PublishCamera, PublishStage, ReadState, ResolveState, LockTrigger,
        UpsertTrigger, ApplyMarker, Swap, SkipSwap, Persist, RepublishApi, AnnouncePut,
        ResolveClear, WriteClear, Reconcile, Fix
  <2> QED BY <1>1, <2>1, <2>2, <2>3 DEF TasksOK, Only
<1>3. ASSUME UNCHANGED <<layout, shown>>, ~Pushing(t) \/ Pushing(t)' \/ layout \notin ApiLayout,
             ~Showing(t) \/ Showing(t)' \/ layout \in ApiLayout \/ live = {},
             pc'[t] \notin Switching
      PROVE  ShowInv'
  BY <1>2, <1>3, ShowsNothing
<1>4. CASE PublishCamera(t)
  <2>1. pc[t] = "publish" /\ pc'[t] \in {"idle", Reader} /\ (layout \notin ApiLayout => pc'[t] = Reader)
    BY <1>1, <1>4 DEF PublishCamera, Finish, TasksOK, Reader
  <2> QED BY <1>3, <1>4, <2>1 DEF PublishCamera, Pushing, Showing, Switching, Reader
<1>5. CASE PublishStage(t)
  <2>1. layout \notin ApiLayout /\ UNCHANGED layout /\ pc'[t] = "idle"
    BY <1>1, <1>5 DEF PublishStage, Finish, TasksOK, OK, Reader
  <2>2. shown'.content \in Views
    BY <1>1, <1>5 DEF PublishStage, OK
  <2>3. SwitchesOK'
    BY <1>2, <2>1 DEF ShowInv, SwitchesOK, Switching
  <2> QED BY <2>1, <2>2, <2>3 DEF ShowInv, PushedInv, SlidesInv
<1>6. CASE ReadState(t)
  <2>1. pc[t] = "read" /\ pc'[t] = "resolve"
    BY <1>1, <1>6 DEF ReadState, TasksOK
  <2> QED BY <1>3, <1>6, <2>1 DEF ReadState, Pushing, Showing, Switching, Reader
<1>7. CASE ResolveState(t)
  <2>1. pc[t] = "resolve" /\ pc'[t] \in {"idle", "publish"} /\ (Context(row[t]) # {} => pc'[t] = "publish")
    BY <1>1, <1>7 DEF ResolveState, Finish, TasksOK
  <2>2. Context(row[t]) = {} => live = {}
    BY <1>1, ContextOf DEF TInv, OK, RowsOK
  <2> QED BY <1>3, <1>7, <2>1, <2>2 DEF ResolveState, Pushing, Showing, Switching, Reader
<1>8. CASE LockTrigger(t) \/ UpsertTrigger(t) \/ WriteClear(t) \/ Fix(t) \/ ResolveClear(t) \/ Reconcile(t)
  <2>1. /\ pc[t] \in {"lock", "upsert", "wipe", "fix", "clearing", "reconcile"}
        /\ pc'[t] \in {"upsert", "marker", "publish", "read", "wipe", "fix"}
        /\ UNCHANGED <<layout, shown>>
    BY <1>1, <1>8 DEF LockTrigger, UpsertTrigger, WriteClear, Fix, ResolveClear, Reconcile, TasksOK
  <2> QED BY <1>3, <2>1 DEF Pushing, Showing, Switching, Reader
<1>9. CASE ApplyMarker(t)
  <2>1. /\ pc[t] = "marker" /\ row[t] # {} /\ UNCHANGED <<layout, shown, view>>
    BY <1>1, <1>9 DEF ApplyMarker, OK, Triggering
  <2>2. view'[t] # {}
    BY <1>1, <2>1 DEF OK, Triggering
  <2> QED BY <1>2, <2>1, <2>2, ShowsNothing DEF Pushing, Showing, Reader
<1>10. CASE Swap(t)
  <2>1. PICK c \in Layout : code[t] = {c}
    BY <1>1, <1>10 DEF Swap, OK, Switching
  <2>2. pc[t] = "swap" /\ pc'[t] = "persist" /\ UNCHANGED <<code, view>> /\ layout' = c
    BY <1>1, <1>10, <2>1 DEF Swap, TasksOK
  <2>3. PushedInv' /\ SlidesInv'
    BY <2>1, <2>2 DEF PushedInv, SlidesInv, Pushing, Showing
  <2>4. SwitchesOK'
    BY <1>2, <2>2 DEF ShowInv, SwitchesOK, Switching
  <2> QED BY <2>3, <2>4 DEF ShowInv
<1>11. CASE SkipSwap(t)
  <2>1. pc[t] = "swap" /\ pc'[t] \in {"publish", "idle"}
    BY <1>1, <1>11 DEF SkipSwap, Finish, TasksOK
  <2> QED BY <1>3, <1>11, <2>1 DEF SkipSwap, Pushing, Showing, Switching, Reader
<1>12. CASE Persist(t)
  <2>1. PICK c \in Layout : code[t] = {c} /\ saved' = c
    BY <1>1, <1>12 DEF Persist, OK, Switching
  <2>2. pc[t] = "persist" /\ UNCHANGED <<layout, shown>>
    BY <1>12 DEF Persist
  <2>3. CASE c \in ApiLayout
    <3>1. pc'[t] = "republish"
      BY <1>1, <1>12, <2>1, <2>3 DEF Persist, AfterPersist, TasksOK
    <3> QED BY <1>3, <2>1, <2>2, <2>3, <3>1 DEF Pushing, Showing, Switching, Reader
  <2>4. CASE c \notin ApiLayout /\ view[t] # {}
    <3>1. pc'[t] \in {"publish", "read"}
      BY <1>1, <1>12, <2>1, <2>4 DEF Persist, AfterPersist, TasksOK
    <3> QED BY <1>3, <2>1, <2>2, <2>4, <3>1 DEF Pushing, Showing, Switching, Reader
  <2>5. CASE c \notin ApiLayout /\ view[t] = {}
    <3>1. live = {}
      BY <2>1, <2>2, <2>5 DEF ShowInv, SwitchesOK, Switching
    <3>2. pc'[t] = "idle"
      BY <1>1, <1>12, <2>1, <2>5 DEF Persist, Finish, TasksOK
    <3> QED BY <1>3, <2>1, <2>2, <2>5, <3>1, <3>2 DEF Pushing, Showing, Switching, Reader
  <2> QED BY <2>3, <2>4, <2>5
<1>13. CASE RepublishApi(t) \/ AnnouncePut(t)
  <2>1. pc[t] \in {"republish", "announce"} /\ pc'[t] \in {"publish", "idle"} /\ UNCHANGED layout
    BY <1>1, <1>13 DEF RepublishApi, AnnouncePut, Finish, TasksOK
  <2>2. ShowPushed(apiText)
    BY <1>1, <1>13 DEF RepublishApi, AnnouncePut, OK
  <2>3. PushedInv'
    BY <1>2, <2>1, <2>2 DEF ShowPushed, PushedInv
  <2>4. ~Showing(t)
    BY <2>1 DEF Showing, Reader
  <2>5. SlidesInv'
    BY <1>2, <2>1, <2>2, <2>4 DEF ShowPushed, ShowInv, SlidesInv, Showing
  <2>6. SwitchesOK'
    BY <1>2, <2>1 DEF ShowInv, SwitchesOK, Switching
  <2> QED BY <2>3, <2>5, <2>6 DEF ShowInv
<1> QED
  BY <1>4, <1>5, <1>6, <1>7, <1>8, <1>9, <1>10, <1>11, <1>12, <1>13 DEF Step

LEMMA NextShows == TInv /\ ShowInv /\ [Next]_vars => ShowInv'
<1> SUFFICES ASSUME TInv, ShowInv, [Next]_vars PROVE ShowInv'
  OBVIOUS
<1> USE DEF settings, locks, work, output, content
<1>1. CASE \E t \in Task : Arrivals(t) \/ Step(t)
  BY <1>1, ArrivalShows, StepShows
<1>2. ASSUME NEW s \in Song, DeleteSong(s) PROVE ShowInv'
  BY <1>2 DEF DeleteSong, ShowInv, PushedInv, SlidesInv, SwitchesOK, Pushing, Showing
<1>3. CASE Restart
  <2>1. camera' \in Views
    BY <1>3, ContextOf, EmptyOf DEF Restart, TInv, StateOK, RowsOK
  <2> QED BY <1>3, <2>1 DEF Restart, ShowInv, PushedInv, SlidesInv, SwitchesOK, Switching
<1>4. CASE UNCHANGED vars
  BY <1>4 DEF vars, ShowInv, PushedInv, SlidesInv, SwitchesOK, Pushing, Showing
<1> QED
  BY <1>1, <1>2, <1>3, <1>4 DEF Next

-----------------------------------------------------------------------------
(* Triggers. *)

\* The stage changes by triggers only.
TriggersOnly == Ops \subseteq {"trigger", "put_api", "text_mode"}

\* Task t serves a trigger that holds the lock, that has written the stage
\* state, and whose marker is applied.
Owner(t) == \/ pc[t] \in {"upsert", "marker", "publish", Reader} \union Switching
            \/ pc[t] = "republish" /\ row[t] # {}
Written(t) == Owner(t) /\ pc[t] # "upsert"
Marked(t) == Written(t) /\ pc[t] \notin {"marker", "swap"}

TriggerOK(t) ==
  /\ pc[t] \in {"idle", "lock", "announce", "republish"} \/ Owner(t)
  /\ pc[t] = "lock" \/ Owner(t) =>
       \E s \in Song, x \in Slide : x \in deck[s] /\ row[t] = {Row(s, x)} /\ view[t] = {Slides(s, x)}
  /\ Owner(t) => trigger = t
  /\ Written(t) => state = row[t]
  /\ pc[t] \in Switching => \A r \in row[t] : Marker[r.slide] = code[t]
  /\ Marked(t) => \A r \in row[t] : Marker[r.slide] \subseteq {layout}
  /\ pc[t] = Reader => camera \in view[t]

\* Between triggers the stage shows what the last one wrote.
Shows(r) == /\ camera \in Resolved(r)
            /\ layout \in ApiLayout \/ shown.content \in Resolved(r)
            /\ Marker[r.slide] \subseteq {layout}
Settled == (\A t \in Task : ~Written(t)) => \A r \in state : Shows(r)

WInv == live = Song /\ Settled /\ \A t \in Task : TriggerOK(t)

LEMMA InitWins == Init => WInv
BY TaskAssumption
DEF Init, WInv, Settled, TriggerOK, Owner, Written, Marked, Switching, Reader

\* A live song's slide resolves to itself.
LEMMA ResolvedRow ==
  ASSUME TInv, live = Song, NEW s \in Song, NEW x \in deck[s]
  PROVE  Resolved(Row(s, x)) = {Slides(s, x)} /\ Row(s, x).slide = x /\ Row(s, x).song = s
         /\ x \in Slide
<1>1. x \in Slide
  BY DEF TInv, ContentOK
<1>2. s # None /\ x # None
  BY <1>1, NumberAssumption DEF None, Slide
<1> QED BY <1>1, <1>2 DEF Resolved, Row

\* A step of t disturbs no other trigger, if only the holder of the lock
\* changes the stage.
LEMMA OtherTriggers ==
  ASSUME TInv, WInv, NEW t \in Task, Only(t), UNCHANGED content, TriggerOK(t)',
         trigger' = trigger \/ {trigger, trigger'} \subseteq {t, NoTask},
         UNCHANGED <<state, layout, camera>> \/ trigger = t
  PROVE  live' = Song /\ \A u \in Task : TriggerOK(u)'
<1>1. ASSUME NEW u \in Task, u # t PROVE TriggerOK(u)'
  <2>1. pc'[u] = pc[u] /\ row'[u] = row[u] /\ view'[u] = view[u] /\ code'[u] = code[u]
    BY <1>1 DEF TInv, TasksOK, Only
  <2>2. (Owner(u)' <=> Owner(u)) /\ (Written(u)' <=> Written(u)) /\ (Marked(u)' <=> Marked(u))
    BY <2>1 DEF Owner, Written, Marked
  <2>3. TriggerOK(u)
    BY DEF WInv
  <2>4. \A s \in Song, x \in Slide : Slides(s, x)' = Slides(s, x)
    BY DEF content, Slides, First, Least
  <2>5. deck' = deck /\ \A s \in Song : \A x \in deck[s] : x \in Slide
    BY DEF TInv, ContentOK, content
  <2>6. Owner(u) => UNCHANGED <<state, layout, camera>> /\ trigger' = u
    BY <1>1, <2>3, TaskAssumption DEF TriggerOK
  <2>7. pc[u] = Reader => Owner(u)
    BY DEF Owner
  <2> QED BY <2>1, <2>2, <2>3, <2>4, <2>5, <2>6, <2>7 DEF TriggerOK, Written, Marked
<1> QED BY <1>1 DEF WInv, content

\* Where t has written the stage state nothing is settled yet; where it has not
\* and was not to, all is as it was, but for the text on an API layout.
LEMMA SettledStep ==
  ASSUME TInv, WInv, NEW t \in Task, Only(t), UNCHANGED content,
         \/ Written(t)'
         \/ /\ ~Written(t) /\ UNCHANGED <<state, layout, camera>>
            /\ UNCHANGED shown \/ layout \in ApiLayout
         \/ \A r \in state' :
              /\ camera' \in Resolved(r)
              /\ layout' \in ApiLayout \/ shown'.content \in Resolved(r)
              /\ Marker[r.slide] \subseteq {layout'}
  PROVE  Settled'
<1>1. \A u \in Task : u # t => (Written(u)' <=> Written(u))
  BY DEF TInv, TasksOK, Only, Written, Owner
<1>2. \A r : Resolved(r)' = Resolved(r)
  BY DEF content, Resolved, Slides, Blanked, First, Least
<1>3. CASE \E u \in Task : Written(u)'
  BY <1>3 DEF Settled
<1>4. CASE \A u \in Task : ~Written(u)'
  <2>1. ~Written(t) => \A r \in state : Shows(r)
    BY <1>1, <1>4 DEF WInv, Settled
  <2> QED BY <1>2, <1>4, <2>1 DEF Settled, Shows
<1> QED BY <1>3, <1>4

LEMMA ArrivalWins ==
  ASSUME TriggersOnly, TInv, WInv, NEW t \in Task, Arrivals(t)
  PROVE  WInv'
<1> USE DEF Arrive, Request, Goto, Keep, Prepare, settings, locks, work, output
<1>1. \/ \E s \in Song, x \in Slide : Trigger(t, s, x)
      \/ \E x \in Text : PutApi(t, x)
      \/ SetTextMode(t)
  BY DEF Arrivals, TriggersOnly, Refresh, Clear, Switch, DeleteSlide, AddSlide, EditText, Edit
<1>2. /\ pc[t] = "idle" /\ Only(t) /\ UNCHANGED <<state, layout, camera, shown, trigger, content>>
  BY <1>1 DEF Trigger, PutApi, SetTextMode, TInv, TasksOK, Only
<1>3. row[t] = {} /\ ~Written(t)
  BY <1>2 DEF TInv, TasksOK, OK, Written, Owner, Switching, Reader
<1>4. TriggerOK(t)'
  <2>1. ASSUME NEW s \in Song, NEW x \in Slide, Trigger(t, s, x) PROVE TriggerOK(t)'
    <3>1. pc'[t] = "lock" /\ row'[t] = {Row(s, x)} /\ view'[t] = {Slides(s, x)} /\ x \in deck[s]
      BY <2>1 DEF Trigger, TInv, TasksOK
    <3>2. deck' = deck /\ Slides(s, x)' = Slides(s, x)
      BY <1>2 DEF content, Slides, First, Least
    <3> QED BY <3>1, <3>2 DEF TriggerOK, Owner, Written, Marked, Switching, Reader
  <2>2. CASE \E x \in Text : PutApi(t, x)
    <3>1. pc'[t] = "announce"
      BY <2>2 DEF PutApi, TInv, TasksOK
    <3> QED BY <3>1 DEF TriggerOK, Owner, Written, Marked, Switching, Reader
  <2>3. CASE SetTextMode(t)
    <3>1. pc'[t] = "republish" /\ row'[t] = {}
      BY <1>3, <2>3 DEF SetTextMode, TInv, TasksOK
    <3> QED BY <3>1 DEF TriggerOK, Owner, Written, Marked, Switching, Reader
  <2> QED BY <1>1, <2>1, <2>2, <2>3
<1> QED BY <1>2, <1>3, <1>4, OtherTriggers, SettledStep DEF WInv

LEMMA StepWins == ASSUME TInv, WInv, NEW t \in Task, Step(t) PROVE WInv'
<1> USE DEF Goto, Keep, Prepare, settings, locks, work, output
<1>1. TasksOK /\ LocksOK /\ OK(t) /\ TriggerOK(t) /\ live = Song
  BY DEF TInv, TasksOK, WInv
<1>2. UNCHANGED content
  BY DEF Step, PublishCamera, PublishStage, ReadState, ResolveState, LockTrigger,
         UpsertTrigger, ApplyMarker, Swap, SkipSwap, Persist, RepublishApi, AnnouncePut,
         ResolveClear, WriteClear, Reconcile, Fix
<1>3. \A s \in Song, x \in Slide : Slides(s, x)' = Slides(s, x)
  BY <1>2 DEF content, Slides, First, Least
<1>4. \A r : Resolved(r)' = Resolved(r)
  BY <1>2 DEF content, Resolved, Slides, Blanked, First, Least
<1>5. ASSUME Written(t)
      PROVE  /\ trigger = t
             /\ \A r \in state :
                 /\ Resolved(r) = view[t]
                 /\ Marked(t) => Marker[r.slide] \subseteq {layout}
  <2>1. PICK s \in Song, x \in Slide : x \in deck[s] /\ row[t] = {Row(s, x)} /\ view[t] = {Slides(s, x)}
    BY <1>1, <1>5 DEF TriggerOK, Written
  <2> QED BY <1>1, <1>5, <2>1, ResolvedRow DEF TriggerOK, Written
<1>6. ASSUME Finish(t), UNCHANGED state,
             Written(t) => /\ camera' \in view[t] /\ UNCHANGED layout /\ Marked(t)
                           /\ layout \in ApiLayout \/ shown'.content \in view[t],
             Written(t) \/ /\ UNCHANGED <<layout, camera>>
                           /\ UNCHANGED shown \/ layout \in ApiLayout
      PROVE  WInv'
  <2>1. Only(t) /\ pc'[t] = "idle"
    BY <1>1, <1>6, Finishes
  <2>2. TriggerOK(t)'
    BY <2>1 DEF TriggerOK, Owner, Written, Marked, Switching, Reader
  <2>3. trigger' = trigger \/ {trigger, trigger'} \subseteq {t, NoTask}
    BY <1>6 DEF Finish
  <2>4. Settled'
    <3>1. CASE Written(t)
      <4>1. \A r \in state : Resolved(r) = view[t] /\ Marker[r.slide] \subseteq {layout}
        BY <1>5, <1>6, <3>1
      <4>2. \A r \in state' :
           /\ camera' \in Resolved(r)
           /\ layout' \in ApiLayout \/ shown'.content \in Resolved(r)
           /\ Marker[r.slide] \subseteq {layout'}
        BY <1>6, <3>1, <4>1
      <4> QED BY <1>2, <2>1, <4>2, SettledStep
    <3>2. CASE ~Written(t)
      BY <1>2, <1>6, <2>1, <3>2, SettledStep
    <3> QED BY <3>1, <3>2
  <2> QED BY <1>2, <1>5, <1>6, <2>1, <2>2, <2>3, <2>4, OtherTriggers DEF WInv
<1>7. CASE PublishCamera(t)
  <2>1. pc[t] = "publish" /\ Written(t) /\ Marked(t) /\ camera' \in view[t] /\ UNCHANGED <<state, layout, shown>>
    BY <1>1, <1>7 DEF PublishCamera, Owner, Written, Marked
  <2>2. CASE layout \in ApiLayout
    BY <1>6, <1>7, <2>1, <2>2 DEF PublishCamera
  <2>3. CASE layout \notin ApiLayout
    <3>1. Only(t) /\ pc'[t] = Reader /\ UNCHANGED <<trigger, row, view>>
      BY <1>1, <1>7, <2>3 DEF PublishCamera, TasksOK, Only, Reader
    <3>2. TriggerOK(t)' /\ Written(t)'
      <4>1. PICK s \in Song, x \in Slide : x \in deck[s] /\ row[t] = {Row(s, x)} /\ view[t] = {Slides(s, x)}
        BY <1>1, <2>1 DEF TriggerOK, Written
      <4>2. deck' = deck /\ Slides(s, x)' = Slides(s, x)
        BY <1>2, <1>3 DEF content, TInv, ContentOK
      <4> QED BY <1>1, <2>1, <3>1, <4>1, <4>2 DEF TriggerOK, Owner, Written, Marked, Switching, Reader
    <3> QED BY <1>2, <1>5, <2>1, <3>1, <3>2, OtherTriggers, SettledStep DEF WInv
  <2> QED BY <2>2, <2>3
<1>8. CASE PublishStage(t)
  <2>1. /\ pc[t] = Reader /\ Written(t) /\ Marked(t) /\ camera \in view[t]
        /\ UNCHANGED <<state, layout, camera>> /\ shown'.content \in view[t]
    BY <1>1, <1>8 DEF PublishStage, TriggerOK, Owner, Written, Marked, Reader
  <2> QED BY <1>6, <1>8, <2>1 DEF PublishStage
<1>9. CASE LockTrigger(t)
  <2>1. /\ Only(t) /\ pc[t] = "lock" /\ pc'[t] = "upsert" /\ UNCHANGED <<row, view, code, state, layout, camera, shown>>
        /\ trigger = NoTask /\ trigger' = t
    BY <1>1, <1>9 DEF LockTrigger, TasksOK, Only
  <2>2. PICK s \in Song, x \in Slide : x \in deck[s] /\ row[t] = {Row(s, x)} /\ view[t] = {Slides(s, x)}
    BY <1>1, <2>1 DEF TriggerOK
  <2>3. deck' = deck /\ Slides(s, x)' = Slides(s, x)
    BY <1>2, <1>3 DEF content, TInv, ContentOK
  <2>4. TriggerOK(t)' /\ ~Written(t)
    BY <2>1, <2>2, <2>3 DEF TriggerOK, Owner, Written, Marked, Switching, Reader
  <2> QED BY <1>2, <2>1, <2>4, OtherTriggers, SettledStep DEF WInv
\* A trigger that goes on.
<1>10. ASSUME Owner(t), Only(t), Written(t)', UNCHANGED <<row, view, trigger, camera>>,
              pc'[t] # Reader, state' = row[t],
              pc'[t] \in Switching => \A r \in row[t] : Marker[r.slide] = code'[t],
              Marked(t)' => \A r \in row[t] : Marker[r.slide] \subseteq {layout'}
       PROVE  WInv'
  <2>1. PICK s \in Song, x \in Slide : x \in deck[s] /\ row[t] = {Row(s, x)} /\ view[t] = {Slides(s, x)}
    BY <1>1, <1>10 DEF TriggerOK
  <2>2. deck' = deck /\ Slides(s, x)' = Slides(s, x)
    BY <1>2, <1>3 DEF content, TInv, ContentOK
  <2>3. trigger = t /\ trigger' = t
    BY <1>1, <1>10 DEF TriggerOK
  <2>4. TriggerOK(t)'
    BY <1>10, <2>1, <2>2, <2>3 DEF TriggerOK, Written
  <2> QED BY <1>2, <1>10, <2>3, <2>4, OtherTriggers, SettledStep DEF WInv
<1>11. CASE UpsertTrigger(t)
  <2>1. /\ Only(t) /\ pc[t] = "upsert" /\ pc'[t] = "marker" /\ state' = row[t]
        /\ UNCHANGED <<row, view, trigger, camera>>
    BY <1>1, <1>11 DEF UpsertTrigger, TasksOK, Only
  <2> QED BY <1>10, <2>1 DEF Owner, Written, Marked, Switching, Reader
<1>12. CASE ApplyMarker(t)
  <2>1. /\ Only(t) /\ pc[t] = "marker" /\ UNCHANGED <<row, view, trigger, camera, state, layout>>
        /\ pc'[t] = IF code'[t] \subseteq {layout} THEN "publish" ELSE "swap"
    BY <1>1, <1>12 DEF ApplyMarker, TasksOK, Only
  <2>2. PICK r \in row[t] :
          code'[t] = IF r.slide \in deck[r.song] THEN Marker[r.slide] ELSE {}
    BY <1>1, <1>12 DEF ApplyMarker, TasksOK
  <2>3. PICK s \in Song, x \in Slide : x \in deck[s] /\ row[t] = {Row(s, x)}
    BY <1>1, <2>1 DEF TriggerOK
  <2>4. \A q \in row[t] : Marker[q.slide] = code'[t]
    BY <1>1, <2>2, <2>3, ResolvedRow
  <2>5. state' = row[t] /\ Owner(t) /\ Written(t)'
    BY <1>1, <2>1 DEF TriggerOK, Owner, Written, Switching
  <2> QED BY <1>10, <2>1, <2>4, <2>5 DEF Marked, Written, Reader
<1>13. CASE Swap(t)
  <2>1. /\ Only(t) /\ pc[t] = "swap" /\ pc'[t] = "persist"
        /\ UNCHANGED <<row, view, code, trigger, camera, state>> /\ layout' \in code[t]
    BY <1>1, <1>13 DEF Swap, TasksOK, Only
  <2>2. PICK c : code[t] = {c}
    BY <1>1, <2>1 DEF OK, Switching
  <2>3. Owner(t) /\ Written(t) /\ Written(t)' /\ state' = row[t]
    BY <1>1, <2>1 DEF TriggerOK, Owner, Written, Switching
  <2> QED BY <1>1, <1>10, <2>1, <2>2, <2>3 DEF TriggerOK, Switching, Reader
<1>14. CASE SkipSwap(t)
  <2>1. pc[t] = "swap" /\ Triggers(t) /\ code[t] = {layout}
    BY <1>1, <1>14 DEF SkipSwap, Triggers, TriggerOK, Owner, Switching
  <2>2. /\ Only(t) /\ pc'[t] = "publish"
        /\ UNCHANGED <<row, view, code, trigger, camera, state, layout>>
    BY <1>1, <1>14, <2>1 DEF SkipSwap, TasksOK, Only
  <2>3. Owner(t) /\ Written(t) /\ Written(t)' /\ state' = row[t]
    BY <1>1, <2>1, <2>2 DEF TriggerOK, Owner, Written, Switching
  <2> QED BY <1>1, <1>10, <2>1, <2>2, <2>3 DEF TriggerOK, Switching, Reader
<1>15. CASE Persist(t)
  <2>1. pc[t] = "persist" /\ Owner(t) /\ Written(t) /\ Marked(t) /\ row[t] # {} /\ view[t] # {}
    BY <1>1, <1>15 DEF Persist, TriggerOK, Owner, Written, Marked, Switching
  <2>2. /\ Only(t) /\ pc'[t] \in {"publish", "republish"}
        /\ UNCHANGED <<row, view, code, trigger, camera, state, layout>>
    BY <1>1, <1>15, <2>1 DEF Persist, AfterPersist, Triggers, TasksOK, Only
  <2>3. Written(t)' /\ state' = row[t]
    BY <1>1, <2>1, <2>2 DEF TriggerOK, Owner, Written, Switching
  <2> QED BY <1>1, <1>10, <2>1, <2>2, <2>3 DEF TriggerOK, Switching, Reader
<1>16. CASE RepublishApi(t)
  <2>1. CASE Triggers(t)
    <3>1. pc[t] = "republish" /\ Owner(t) /\ Written(t) /\ Marked(t)
      BY <1>16, <2>1 DEF RepublishApi, Triggers, Owner, Written, Marked
    <3>2. /\ Only(t) /\ pc'[t] = "publish"
          /\ UNCHANGED <<row, view, code, trigger, camera, state, layout>>
      BY <1>1, <1>16, <2>1 DEF RepublishApi, TasksOK, Only
    <3>3. Written(t)' /\ state' = row[t]
      BY <1>1, <3>1, <3>2 DEF TriggerOK, Owner, Written
    <3> QED BY <1>1, <1>10, <3>1, <3>2, <3>3 DEF TriggerOK, Switching, Reader
  <2>2. CASE ~Triggers(t)
    <3>1. ~Written(t) /\ Finish(t) /\ UNCHANGED <<state, layout, camera>>
          /\ (UNCHANGED shown \/ layout \in ApiLayout)
      BY <1>16, <2>2
      DEF RepublishApi, ShowPushed, Triggers, Owner, Written, Switching, Reader
    <3> QED BY <1>6, <3>1
  <2> QED BY <2>1, <2>2
<1>17. CASE AnnouncePut(t)
  <2>1. ~Written(t) /\ Finish(t) /\ UNCHANGED <<state, layout, camera>>
        /\ (UNCHANGED shown \/ layout \in ApiLayout)
    BY <1>17 DEF AnnouncePut, ShowPushed, Owner, Written, Switching, Reader
  <2> QED BY <1>6, <2>1
<1>18. CASE \/ ReadState(t) \/ ResolveState(t) \/ ResolveClear(t) \/ WriteClear(t)
            \/ Reconcile(t) \/ Fix(t)
  BY <1>1, <1>18 DEF ReadState, ResolveState, ResolveClear, WriteClear, Reconcile, Fix,
                     TriggerOK, Owner, Switching, Reader
<1> QED
  BY <1>7, <1>8, <1>9, <1>11, <1>12, <1>13, <1>14, <1>15, <1>16, <1>17, <1>18 DEF Step

LEMMA NextWins == ASSUME TriggersOnly PROVE TInv /\ WInv /\ [Next]_vars => WInv'
<1> SUFFICES ASSUME TInv, WInv, [Next]_vars PROVE WInv'
  OBVIOUS
<1>1. CASE \E t \in Task : Arrivals(t) \/ Step(t)
  BY <1>1, ArrivalWins, StepWins
<1>2. CASE (\E s \in Song : DeleteSong(s)) \/ Restart
  BY <1>2 DEF DeleteSong, Restart, Request, TriggersOnly
<1>3. CASE UNCHANGED vars
  <2>1. UNCHANGED <<pc, row, view, code, trigger, state, layout, camera, shown, content>>
    BY <1>3 DEF vars, output, settings, locks, work
  <2>2. \A r : Resolved(r)' = Resolved(r)
    BY <2>1 DEF content, Resolved, Slides, Blanked, First, Least
  <2>3. \A s \in Song, x \in Slide : Slides(s, x)' = Slides(s, x)
    BY <2>1 DEF content, Slides, First, Least
  <2>4. Settled' /\ live' = Song
    BY <2>1, <2>2 DEF content, WInv, Settled, Shows, Written, Owner
  <2>5. \A s \in Song : \A x \in deck[s] : x \in Slide
    BY DEF TInv, ContentOK
  <2>6. ASSUME NEW t \in Task PROVE TriggerOK(t)'
    BY <2>1, <2>3, <2>5 DEF content, WInv, TriggerOK, Owner, Written, Marked
  <2> QED BY <2>4, <2>6 DEF WInv
<1> QED
  BY <1>1, <1>2, <1>3 DEF Next

-----------------------------------------------------------------------------
(* Results. *)

\* Quiet leaves nobody to write, and nobody with the lock of triggers.
LEMMA QuietWins == ASSUME TInv, WInv, Quiet PROVE WinnerIsShown /\ WinnerSetsLayout
<1>1. \A r \in state : Shows(r)
  BY DEF Quiet, WInv, Settled, Written, Owner, Switching, Reader
<1> QED BY <1>1 DEF Shows, WinnerIsShown, WinnerSetsLayout

\* Whatever requests overlap, every table, every snapshot and every lock is well
\* formed: no view is published empty, and the trigger lock is a trigger's.
THEOREM TypeCorrect == Spec => []TypeOK
BY InitTypes, NextTypes, InvTypes, PTL DEF Spec

\* What displays were last told of the layout is the layout that is selected,
\* however many switches, triggers and publications overlap (#793).
THEOREM LayoutsAlwaysAgree == Spec => []LayoutsAgree
<1>1. TInv => LayoutsAgree
  BY DEF TInv, OutputOK, LayoutsAgree
<1> QED
  BY <1>1, InitTypes, NextTypes, PTL DEF Spec

\* Once nothing is under way an API layout shows the text pushed last, whatever
\* overlapped the push or the switch to it (#281).
THEOREM PushedTextShows == Spec => []ApiShowsPushed
<1>1. ShowInv => ApiShowsPushed
  BY DEF ShowInv, PushedInv, Pushing, ApiShowsPushed, Quiet
<1> QED
  BY <1>1, InitTypes, NextTypes, InitShow, NextShows, PTL DEF Spec

\* Once nothing is under way another layout shows slides again, as long as there
\* is a song.
THEOREM SlidesAlwaysReturn == Spec => []SlidesReturn
<1>1. ShowInv => SlidesReturn
  BY DEF ShowInv, SlidesInv, Showing, SlidesReturn, Quiet, Reader
<1> QED
  BY <1>1, InitTypes, NextTypes, InitShow, NextShows, PTL DEF Spec

\* Where the stage changes by triggers only, the slide written last is the one on
\* stage once nothing is under way (#515), ...
THEOREM WinnerAlwaysShown == ASSUME TriggersOnly PROVE Spec => []WinnerIsShown
<1>1. TInv /\ WInv => WinnerIsShown
  BY QuietWins DEF WinnerIsShown
<1> QED
  BY <1>1, InitTypes, NextTypes, InitWins, NextWins, PTL DEF Spec

\* ... and its layout is the selected one.
THEOREM WinnerAlwaysSetsLayout == ASSUME TriggersOnly PROVE Spec => []WinnerSetsLayout
<1>1. TInv /\ WInv => WinnerSetsLayout
  BY QuietWins DEF WinnerSetsLayout
<1> QED
  BY <1>1, InitTypes, NextTypes, InitWins, NextWins, PTL DEF Spec
=============================================================================
