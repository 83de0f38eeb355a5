-------------------------- MODULE VideoSourcesProof --------------------------
(***************************************************************************)
(* For any number of sources, pipelines, supervisors and requests: no      *)
(* pipeline comes up for a source that is not the active one, no encoder   *)
(* runs beside the slot of its source, and every supervisor is reached     *)
(* through its slot. The invariant has a part for the manager, whose steps *)
(* need no request to hold the activation lock, and one for the requests.  *)
(***************************************************************************)
EXTENDS VideoSources, TLAPS

-----------------------------------------------------------------------------
\* The inductive invariant.

Waiting == {"wait", "attach"} \union Outcome

ManagerType ==
  /\ slot \in [Source -> [pipe : Pipe \union {NULL}, sup : Supervisor \union {NULL}]]
  /\ pipe \in [Pipe -> [src : Source \union {NULL},
                        state : {"starting", "streaming", "errored", "stopped"}]]
  /\ start \in [Pipe -> Waiting \union Result \union {"none"}]
  /\ sup \in [Supervisor -> [pc : {"gone", "watch", "blind", "rebuild", "wait", "resubscribe"},
                             src : Source \union {NULL}, pipe : Pipe \union {NULL}]]

\* A pipeline in a slot, or being started, is for the source of the slot.
PipesFiled == /\ \A s \in Source : slot[s].pipe # NULL => pipe[slot[s].pipe].src = s
              /\ \A p \in Pipe : Running(p) \/ start[p] \in Waiting => pipe[p].src \in Source

\* No encoder runs beside the one in the slot of its source.
NoLeak == \A p \in Pipe : Running(p) => slot[pipe[p].src].pipe = p

\* While a start waits for its pipeline, the slot has no supervisor yet.
StartsAlone == \A s \in Source : slot[s].pipe # NULL =>
                 (slot[s].sup = NULL <=> start[slot[s].pipe] \in Waiting)

\* A supervisor owns the slot of its source, and rebuilds a pipeline for it.
SupervisorOK(t) == sup[t].pc # "gone" => /\ sup[t].src \in Source
                                         /\ slot[sup[t].src].sup = t
                                         /\ sup[t].pc = "wait" => /\ sup[t].pipe \in Pipe
                                                                  /\ pipe[sup[t].pipe].src = sup[t].src

ManagerInv == /\ ManagerType /\ PipesFiled /\ NoLeak /\ StartsAlone
              /\ \A t \in Supervisor : SupervisorOK(t)

\* What a request knows where it is.
RequestOK(q) ==
  /\ q = At(q.pc, q.op, q.src, q.pipe)
  /\ q.src \in Source \union {NULL} /\ q.pipe \in Pipe \union {NULL}
  /\ q.pc \in {"flip", "start", "await", "observe", "reap", "stop", "row", "heartbeat"} =>
       q.src \in Source
  /\ q.pc = "lock" /\ q.op \in {"activate", "delete"} => q.src \in Source
  /\ q.pc \in {"await", "observe"} => q.pipe \in Pipe

RequestsOK == /\ req = [r \in Request |-> req[r]]
              /\ \A r \in Request : RequestOK(req[r])
              /\ active \in Source \union {NULL}

\* Past the lock a request holds it, and what it starts is what is active.
Locked == \A r \in Request :
            /\ req[r].pc \notin {"idle", "lock"} => lock = r
            /\ req[r].pc = "start" => active = req[r].src

RequestInv == RequestsOK /\ Locked

IInv == ManagerInv /\ RequestInv

-----------------------------------------------------------------------------
\* Steps of the manager.

\* Emptying slots, with what runs in them, keeps the manager in order.
LEMMA StopSlotsKeeps ==
  ASSUME ManagerInv, NEW S, StopSlots(S), UNCHANGED start
  PROVE  ManagerInv'
<1> USE NullAssumption
<1>1. ManagerType'
  BY DEF ManagerInv, ManagerType, StopSlots, Empty, Gone, Watcher
<1>2. \A p \in Pipe : /\ pipe'[p].src = pipe[p].src
                      /\ Running(p)' => Running(p) /\ \A s \in S : s \in Source => slot[s].pipe # p
  BY DEF ManagerInv, ManagerType, StopSlots, Running
<1>3. PipesFiled' /\ NoLeak'
  BY <1>1, <1>2 DEF ManagerInv, ManagerType, PipesFiled, NoLeak, StopSlots, Empty
<1>4. StartsAlone'
  BY DEF ManagerInv, ManagerType, StartsAlone, StopSlots, Empty
<1>5. \A t \in Supervisor : SupervisorOK(t)'
  <2> SUFFICES ASSUME NEW t \in Supervisor, sup'[t].pc # "gone" PROVE SupervisorOK(t)'
    BY DEF SupervisorOK
  <2>1. sup'[t] = sup[t] /\ \A s \in S : slot[s].sup # t
    BY DEF ManagerInv, ManagerType, StopSlots, Gone, Watcher
  <2>2. sup[t].src \in Source /\ slot[sup[t].src].sup = t
    BY <2>1 DEF ManagerInv, SupervisorOK
  <2>3. slot'[sup[t].src] = slot[sup[t].src]
    BY <2>1, <2>2 DEF StopSlots
  <2> QED  BY <1>2, <2>1, <2>2, <2>3 DEF ManagerInv, SupervisorOK
<1> QED  BY <1>1, <1>3, <1>4, <1>5 DEF ManagerInv

\* Putting a pipeline in the place of a dead one leaves no other running for
\* the source.
LEMMA ReserveFiles ==
  ASSUME ManagerInv, NEW s \in Source, NEW p \in NextPipe, NEW o \in Supervisor \union {NULL},
         Reserve(s, p, o), ~Holds(s, {"starting", "streaming"})
  PROVE  /\ p \in Pipe /\ Free(p)
         /\ slot' \in [Source -> [pipe : Pipe \union {NULL}, sup : Supervisor \union {NULL}]]
         /\ pipe' \in [Pipe -> [src : Source \union {NULL},
                                state : {"starting", "streaming", "errored", "stopped"}]]
         /\ slot'[s] = [pipe |-> p, sup |-> o]
         /\ \A x \in Source : x # s => slot'[x] = slot[x]
         /\ pipe'[p].src = s
         /\ \A q \in Pipe : q # p => pipe'[q].src = pipe[q].src
         /\ NoLeak'
         /\ \A x \in Source : slot'[x].pipe # NULL => pipe'[slot'[x].pipe].src = x
<1> USE NullAssumption
<1>1. p \in Pipe /\ Free(p)
  BY DEF NextPipe
<1>2. /\ slot' \in [Source -> [pipe : Pipe \union {NULL}, sup : Supervisor \union {NULL}]]
      /\ pipe' \in [Pipe -> [src : Source \union {NULL},
                             state : {"starting", "streaming", "errored", "stopped"}]]
  BY <1>1 DEF ManagerInv, ManagerType, Reserve
<1>3. slot'[s] = [pipe |-> p, sup |-> o] /\ \A x \in Source : x # s => slot'[x] = slot[x]
  BY DEF ManagerInv, ManagerType, Reserve
<1>4. pipe'[p] = [src |-> s, state |-> "starting"]
  BY <1>1 DEF Reserve
<1>5. \A q \in Pipe : q # p => pipe'[q].src = pipe[q].src /\ (Running(q)' => Running(q))
  BY DEF Reserve, Running
<1>6. \A x \in Source : slot[x].pipe # p
  BY <1>1 DEF Free
<1>7. \A x \in Source : slot'[x].pipe # NULL => pipe'[slot'[x].pipe].src = x
  <2> SUFFICES ASSUME NEW x \in Source, slot'[x].pipe # NULL PROVE pipe'[slot'[x].pipe].src = x
    OBVIOUS
  <2>1. CASE x = s
    BY <2>1, <1>3, <1>4
  <2>2. CASE x # s
    <3>1. slot[x].pipe \in Pipe /\ pipe[slot[x].pipe].src = x
      BY <2>2, <1>3 DEF ManagerInv, ManagerType, PipesFiled
    <3> QED  BY <3>1, <2>2, <1>3, <1>5, <1>6
  <2> QED  BY <2>1, <2>2
<1>8. NoLeak'
  <2> SUFFICES ASSUME NEW q \in Pipe, Running(q)' PROVE slot'[pipe'[q].src].pipe = q
    BY DEF NoLeak
  <2>1. CASE q = p
    BY <2>1, <1>3, <1>4
  <2>2. CASE q # p
    <3>1. Running(q) /\ pipe'[q].src = pipe[q].src
      BY <2>2, <1>5
    <3>2. pipe[q].src \in Source /\ slot[pipe[q].src].pipe = q
      BY <3>1 DEF ManagerInv, PipesFiled, NoLeak
    <3>3. pipe[q].src # s
      BY <3>1, <3>2 DEF Holds, Running, ManagerInv, ManagerType
    <3> QED  BY <3>1, <3>2, <3>3, <1>3
  <2> QED  BY <2>1, <2>2
<1> QED  BY <1>1, <1>2, <1>3, <1>4, <1>5, <1>7, <1>8

\* A stopped pipeline leaves its slot and nothing else changes.
LEMMA DiscardFiles ==
  ASSUME ManagerInv, NEW p \in Pipe, Discard(p)
  PROVE  /\ slot' \in [Source -> [pipe : Pipe \union {NULL}, sup : Supervisor \union {NULL}]]
         /\ pipe' \in [Pipe -> [src : Source \union {NULL},
                                state : {"starting", "streaming", "errored", "stopped"}]]
         /\ \A q \in Pipe : pipe'[q].src = pipe[q].src /\ (Running(q)' => Running(q))
         /\ \A x \in Source : IF slot[x].pipe = p THEN slot'[x] = Empty ELSE slot'[x] = slot[x]
         /\ NoLeak'
         /\ \A x \in Source : slot'[x].pipe # NULL => pipe'[slot'[x].pipe].src = x
<1> USE NullAssumption
<1>1. /\ slot' \in [Source -> [pipe : Pipe \union {NULL}, sup : Supervisor \union {NULL}]]
      /\ pipe' \in [Pipe -> [src : Source \union {NULL},
                             state : {"starting", "streaming", "errored", "stopped"}]]
  BY DEF ManagerInv, ManagerType, Discard, Empty
<1>2. \A q \in Pipe : pipe'[q].src = pipe[q].src /\ (Running(q)' => Running(q)) /\ ~Running(p)'
  BY DEF ManagerInv, ManagerType, Discard, Running
<1>3. \A x \in Source : IF slot[x].pipe = p THEN slot'[x] = Empty ELSE slot'[x] = slot[x]
  BY DEF Discard
<1>4. NoLeak'
  BY <1>2, <1>3 DEF ManagerInv, PipesFiled, NoLeak
<1>5. \A x \in Source : slot'[x].pipe # NULL => pipe'[slot'[x].pipe].src = x
  BY <1>1, <1>2, <1>3 DEF ManagerInv, PipesFiled, Empty
<1> QED  BY <1>1, <1>2, <1>3, <1>4, <1>5

\* Slots, starts and supervisors that stay as they were stay in order, whatever
\* becomes of the state of pipelines, as long as none is brought up.
LEMMA PipesOnly ==
  ASSUME ManagerInv, UNCHANGED <<slot, start, sup>>, NEW p \in Pipe,
         NEW x \in {"streaming", "errored", "stopped"}, Running(p),
         pipe' = [pipe EXCEPT ![p] = [src |-> pipe[p].src, state |-> x]]
  PROVE  ManagerInv'
<1>1. ManagerType'
  BY DEF ManagerInv, ManagerType
<1>2. \A q \in Pipe : pipe'[q].src = pipe[q].src /\ (Running(q)' => Running(q))
  BY DEF ManagerInv, ManagerType, Running
<1>3. PipesFiled' /\ NoLeak' /\ StartsAlone'
  BY <1>1, <1>2 DEF ManagerInv, ManagerType, PipesFiled, NoLeak, StartsAlone
<1>4. \A t \in Supervisor : SupervisorOK(t)'
  BY <1>2 DEF ManagerInv, SupervisorOK
<1> QED  BY <1>1, <1>3, <1>4 DEF ManagerInv

\* A supervisor that goes on with the same source, or goes for good.
LEMMA SupervisorMoves ==
  ASSUME ManagerInv, UNCHANGED <<slot, pipe, start>>, NEW t \in Supervisor, NEW w,
         sup[t].pc # "gone", Become(t, w),
         \/ w = Gone
         \/ \E pc \in {"watch", "blind", "rebuild", "resubscribe"}, p \in Pipe \union {NULL} :
              w = Watcher(pc, sup[t].src, p)
  PROVE  ManagerInv'
<1>1. ManagerType'
  BY DEF ManagerInv, ManagerType, Become, Watcher, Gone
<1>2. PipesFiled' /\ NoLeak' /\ StartsAlone'
  BY DEF ManagerInv, PipesFiled, NoLeak, StartsAlone, Running
<1>3. \A u \in Supervisor : SupervisorOK(u)'
  <2> SUFFICES ASSUME NEW u \in Supervisor PROVE SupervisorOK(u)'
    OBVIOUS
  <2>1. CASE u = t
    BY <2>1 DEF ManagerInv, ManagerType, SupervisorOK, Become, Watcher, Gone
  <2>2. CASE u # t
    BY <2>2 DEF ManagerInv, ManagerType, SupervisorOK, Become
  <2> QED  BY <2>1, <2>2
<1> QED  BY <1>1, <1>2, <1>3 DEF ManagerInv

-----------------------------------------------------------------------------
\* Steps of the tasks of starts.

LEMMA AwakenKeeps == ASSUME ManagerInv, NEW p \in Pipe, Awaken(p) PROVE ManagerInv'
<1>1. PICK o \in Outcome : start' = [start EXCEPT ![p] = o]
  BY DEF Awaken
<1>2. UNCHANGED <<slot, pipe, sup>> /\ start[p] \in Waiting /\ o \in Waiting
  BY DEF Awaken, Waiting
<1>3. ManagerType'
  BY <1>1, <1>2 DEF ManagerInv, ManagerType
<1>4. \A q \in Pipe : start'[q] \in Waiting <=> start[q] \in Waiting
  BY <1>1, <1>2 DEF ManagerInv, ManagerType
<1>5. PipesFiled' /\ NoLeak' /\ StartsAlone'
  BY <1>2, <1>4 DEF ManagerInv, ManagerType, PipesFiled, NoLeak, StartsAlone, Running
<1>6. \A t \in Supervisor : SupervisorOK(t)'
  BY <1>2 DEF ManagerInv, SupervisorOK
<1> QED  BY <1>3, <1>5, <1>6 DEF ManagerInv

\* A start that is given up takes its pipeline along: nobody supervised it.
LEMMA GivenUp ==
  ASSUME ManagerInv, NEW p \in Pipe, start[p] \in Waiting, Discard(p), UNCHANGED sup,
         NEW result \in Result, start' = [start EXCEPT ![p] = result]
  PROVE  ManagerInv'
<1> USE NullAssumption
<1>1. ManagerType'
  BY DiscardFiles DEF ManagerInv, ManagerType
<1>2. PipesFiled' /\ NoLeak'
  BY DiscardFiles DEF ManagerInv, ManagerType, PipesFiled, Waiting, Result, Outcome
<1>3. StartsAlone'
  BY DiscardFiles DEF ManagerInv, ManagerType, StartsAlone, Empty
<1>4. \A t \in Supervisor : SupervisorOK(t)'
  <2> SUFFICES ASSUME NEW t \in Supervisor, sup[t].pc # "gone" PROVE SupervisorOK(t)'
    BY DEF SupervisorOK
  <2>1. sup[t].src \in Source /\ slot[sup[t].src].sup = t
    BY DEF ManagerInv, SupervisorOK
  <2>2. slot[sup[t].src].pipe # p
    BY <2>1 DEF ManagerInv, StartsAlone
  <2>3. slot'[sup[t].src] = slot[sup[t].src]
    BY <2>1, <2>2, DiscardFiles
  <2> QED  BY <2>1, <2>3, DiscardFiles DEF ManagerInv, SupervisorOK
<1> QED  BY <1>1, <1>2, <1>3, <1>4 DEF ManagerInv

LEMMA FinalizeKeeps == ASSUME ManagerInv, NEW p \in Pipe, Finalize(p) PROVE ManagerInv'
<1>1. start[p] \in Waiting /\ UNCHANGED sup
  BY DEF Finalize, Waiting
<1>2. CASE start' = [start EXCEPT ![p] = "attach"] /\ UNCHANGED <<slot, pipe>>
  <2>1. ManagerType'
    BY <1>1, <1>2 DEF ManagerInv, ManagerType, Waiting
  <2>2. \A q \in Pipe : start'[q] \in Waiting <=> start[q] \in Waiting
    BY <1>1, <1>2 DEF ManagerInv, ManagerType, Waiting
  <2>3. PipesFiled' /\ NoLeak' /\ StartsAlone'
    BY <1>2, <2>2 DEF ManagerInv, ManagerType, PipesFiled, NoLeak, StartsAlone, Running
  <2>4. \A t \in Supervisor : SupervisorOK(t)'
    BY <1>1, <1>2 DEF ManagerInv, SupervisorOK
  <2> QED  BY <2>1, <2>3, <2>4 DEF ManagerInv
<1>3. CASE ~(start' = [start EXCEPT ![p] = "attach"] /\ UNCHANGED <<slot, pipe>>)
  <2>1. Discard(p) /\ \E result \in Result : start' = [start EXCEPT ![p] = result]
    BY <1>3 DEF Finalize, Result
  <2> QED  BY <1>1, <2>1, GivenUp
<1> QED  BY <1>2, <1>3

LEMMA AttachKeeps == ASSUME ManagerInv, NEW p \in Pipe, Attach(p) PROVE ManagerInv'
<1> USE NullAssumption
<1> DEFINE s == pipe[p].src
<1>1. start[p] \in Waiting /\ s \in Source
  BY DEF Attach, Waiting, ManagerInv, PipesFiled
<1>2. CASE slot[s].pipe = p
  <2>1. PICK t \in NextSupervisor :
          /\ sup' = [sup EXCEPT ![t] = Watcher("watch", s, p)]
          /\ slot' = [slot EXCEPT ![s] = [pipe |-> p, sup |-> t]]
    BY <1>2 DEF Attach
  <2>2. t \in Supervisor /\ sup[t].pc = "gone"
    BY DEF NextSupervisor, Gone, Watcher
  <2>3. UNCHANGED pipe /\ start' = [start EXCEPT ![p] = "ok"]
    BY <1>2 DEF Attach
  <2>4. ManagerType'
    BY <1>1, <2>1, <2>2, <2>3 DEF ManagerInv, ManagerType, Watcher, Result
  <2>5. slot'[s] = [pipe |-> p, sup |-> t] /\ \A x \in Source : x # s => slot'[x] = slot[x]
    BY <1>1, <2>1 DEF ManagerInv, ManagerType
  <2>5a. \A q \in Pipe : start'[q] \in Waiting => start[q] \in Waiting
    BY <1>1, <2>3 DEF ManagerInv, ManagerType
  <2>5b. \A x \in Source : slot'[x].pipe = slot[x].pipe
    BY <1>2, <2>5
  <2>6. PipesFiled' /\ NoLeak'
    BY <2>3, <2>5a, <2>5b DEF ManagerInv, PipesFiled, NoLeak, Running
  <2>7. StartsAlone'
    <3> SUFFICES ASSUME NEW x \in Source, slot'[x].pipe # NULL
                 PROVE  slot'[x].sup = NULL <=> start'[slot'[x].pipe] \in Waiting
      BY DEF StartsAlone
    <3>1. CASE x = s
      BY <3>1, <2>2, <2>3, <2>5 DEF ManagerInv, ManagerType, Waiting, Outcome
    <3>2. CASE x # s
      <4>1. slot[x].pipe \in Pipe /\ slot[x].pipe # p
        BY <3>2, <2>5, <1>2 DEF ManagerInv, ManagerType, PipesFiled
      <4> QED  BY <3>2, <4>1, <2>3, <2>5 DEF ManagerInv, ManagerType, StartsAlone
    <3> QED  BY <3>1, <3>2
  <2>8. \A u \in Supervisor : SupervisorOK(u)'
    <3> SUFFICES ASSUME NEW u \in Supervisor PROVE SupervisorOK(u)'
      OBVIOUS
    <3>1. CASE u = t
      BY <3>1, <1>1, <2>1, <2>2, <2>5 DEF ManagerInv, ManagerType, SupervisorOK, Watcher
    <3>2. CASE u # t
      <4>1. sup'[u] = sup[u]
        BY <3>2, <2>1 DEF ManagerInv, ManagerType
      <4>2. sup[u].pc # "gone" => sup[u].src # s
        BY <1>1, <1>2 DEF ManagerInv, SupervisorOK, StartsAlone
      <4> QED  BY <4>1, <4>2, <2>3, <2>5 DEF ManagerInv, SupervisorOK
    <3> QED  BY <3>1, <3>2
  <2> QED  BY <2>4, <2>6, <2>7, <2>8 DEF ManagerInv
<1>3. CASE slot[s].pipe # p
  <2>1. Discard(p) /\ UNCHANGED sup /\ start' = [start EXCEPT ![p] = "superseded"]
    BY <1>3 DEF Attach
  <2>2. "superseded" \in Result
    BY DEF Result
  <2> QED  BY <1>1, <2>1, <2>2, GivenUp
<1> QED  BY <1>2, <1>3

-----------------------------------------------------------------------------
\* Steps of supervisors.

\* A pipeline given up with its supervisor.
LEMMA BothGo ==
  ASSUME ManagerInv, NEW t \in Supervisor, NEW p \in Pipe, sup[t].pc # "gone",
         pipe[p].src = sup[t].src, Discard(p), Become(t, Gone), UNCHANGED start
  PROVE  ManagerInv'
<1> USE NullAssumption
<1>1. ManagerType'
  BY DiscardFiles DEF ManagerInv, ManagerType, Become, Gone, Watcher
<1>2. PipesFiled' /\ NoLeak'
  BY DiscardFiles DEF ManagerInv, PipesFiled
<1>3. StartsAlone'
  BY DiscardFiles DEF ManagerInv, ManagerType, StartsAlone, Empty
<1>4. \A u \in Supervisor : SupervisorOK(u)'
  <2> SUFFICES ASSUME NEW u \in Supervisor, sup'[u].pc # "gone" PROVE SupervisorOK(u)'
    BY DEF SupervisorOK
  <2>1. u # t /\ sup'[u] = sup[u]
    BY DEF ManagerInv, ManagerType, Become, Gone, Watcher
  <2>2. /\ sup[u].src \in Source /\ slot[sup[u].src].sup = u
        /\ slot[sup[t].src].sup = t
    BY <2>1 DEF ManagerInv, SupervisorOK
  <2>3. slot[sup[u].src].pipe # p
    BY <2>1, <2>2 DEF ManagerInv, ManagerType, PipesFiled
  <2>4. slot'[sup[u].src] = slot[sup[u].src]
    BY <2>2, <2>3, DiscardFiles
  <2> QED  BY <2>1, <2>2, <2>4, DiscardFiles DEF ManagerInv, SupervisorOK
<1> QED  BY <1>1, <1>2, <1>3, <1>4 DEF ManagerInv

LEMMA NoticeKeeps == ASSUME ManagerInv, NEW t \in Supervisor, Notice(t) PROVE ManagerInv'
<1>1. sup[t].pipe \in Pipe \union {NULL}
  BY DEF ManagerInv, ManagerType
<1> QED  BY <1>1, SupervisorMoves DEF Notice

LEMMA ResubscribeKeeps ==
  ASSUME ManagerInv, NEW t \in Supervisor, Resubscribe(t) PROVE ManagerInv'
<1> DEFINE p == slot[sup[t].src].pipe
<1>1. sup[t].pc # "gone" /\ sup[t].src \in Source
  BY DEF Resubscribe, ManagerInv, SupervisorOK
<1>2. p \in Pipe \union {NULL}
  BY <1>1 DEF ManagerInv, ManagerType
<1>3. \E w : /\ Become(t, w)
             /\ \/ w = Gone
                \/ \E pc \in {"watch", "blind", "rebuild", "resubscribe"} :
                     w = Watcher(pc, sup[t].src, p)
  <2>1. Become(t, IF p = NULL THEN Gone
                  ELSE Watcher(IF Running(p) THEN "watch" ELSE "blind", sup[t].src, p))
    BY DEF Resubscribe
  <2> QED  BY <2>1
<1> QED  BY <1>1, <1>2, <1>3, SupervisorMoves DEF Resubscribe

LEMMA RebuildKeeps == ASSUME ManagerInv, NEW t \in Supervisor, Rebuild(t) PROVE ManagerInv'
<1> USE NullAssumption
<1> DEFINE s == sup[t].src
<1>1. sup[t].pc # "gone" /\ s \in Source /\ slot[s].sup = t /\ UNCHANGED start
  BY DEF Rebuild, Replace, ManagerInv, SupervisorOK
<1>2. CASE Become(t, Gone) /\ UNCHANGED <<slot, pipe>>
  BY <1>1, <1>2, SupervisorMoves
<1>3. CASE Become(t, Watcher("resubscribe", s, NULL)) /\ UNCHANGED <<slot, pipe>>
  BY <1>1, <1>3, SupervisorMoves
<1>4. ASSUME Holds(s, {"errored", "stopped"}), NEW p \in NextPipe,
             Reserve(s, p, t), Become(t, Watcher("wait", s, p))
      PROVE  ManagerInv'
  <2>1. ~Holds(s, {"starting", "streaming"})
    BY <1>4 DEF Holds
  <2>2. p \in Pipe /\ Free(p)
    BY <1>1, <1>4, <2>1, ReserveFiles
  <2>3. ManagerType'
    BY <1>1, <1>4, <2>1, <2>2, ReserveFiles DEF ManagerInv, ManagerType, Become, Watcher
  <2>4. start[p] \notin Waiting
    BY <2>2 DEF Free, Waiting, Result, Outcome
  <2>5. PipesFiled' /\ NoLeak'
    BY <1>1, <1>4, <2>1, <2>2, ReserveFiles DEF ManagerInv, PipesFiled, Running, Reserve
  <2>5a. /\ slot'[s] = [pipe |-> p, sup |-> t]
         /\ \A x \in Source : x # s => slot'[x] = slot[x]
         /\ pipe'[p].src = s
         /\ \A q \in Pipe : q # p => pipe'[q].src = pipe[q].src
    BY <1>1, <1>4, <2>1, ReserveFiles
  <2>6. StartsAlone'
    <3> SUFFICES ASSUME NEW x \in Source, slot'[x].pipe # NULL
                 PROVE  slot'[x].sup = NULL <=> start'[slot'[x].pipe] \in Waiting
      BY DEF StartsAlone
    <3>1. CASE x = s
      BY <3>1, <1>1, <2>4, <2>5a
    <3>2. CASE x # s
      BY <3>2, <1>1, <2>5a DEF ManagerInv, StartsAlone
    <3> QED  BY <3>1, <3>2
  <2>7. \A u \in Supervisor : SupervisorOK(u)'
    <3> SUFFICES ASSUME NEW u \in Supervisor PROVE SupervisorOK(u)'
      OBVIOUS
    <3>1. CASE u = t
      <4>1. sup'[t] = Watcher("wait", s, p)
        BY <1>4 DEF ManagerInv, ManagerType, Become
      <4> QED  BY <3>1, <4>1, <1>1, <2>2, <2>5a DEF SupervisorOK, Watcher
    <3>2. CASE u # t
      <4>1. sup'[u] = sup[u]
        BY <3>2, <1>4 DEF ManagerInv, ManagerType, Become
      <4>2. sup[u].pc # "gone" => sup[u].src # s
        BY <3>2, <1>1 DEF ManagerInv, SupervisorOK
      <4>3. sup[u].pipe # p
        BY <2>2 DEF Free
      <4> QED  BY <4>1, <4>2, <4>3, <2>5a DEF ManagerInv, SupervisorOK
    <3> QED  BY <3>1, <3>2
  <2> QED  BY <2>3, <2>5, <2>6, <2>7 DEF ManagerInv
<1>5. CASE /\ Holds(s, {"errored", "stopped"})
           /\ Discard(slot[s].pipe) /\ Become(t, Gone)
  <2>1. slot[s].pipe \in Pipe /\ pipe[slot[s].pipe].src = s
    BY <1>1, <1>5 DEF Holds, ManagerInv, ManagerType, PipesFiled
  <2> QED  BY <1>1, <1>5, <2>1, BothGo
<1> QED  BY <1>1, <1>2, <1>3, <1>4, <1>5 DEF Rebuild, Replace

LEMMA RebuiltKeeps == ASSUME ManagerInv, NEW t \in Supervisor, Rebuilt(t) PROVE ManagerInv'
<1> DEFINE p == sup[t].pipe
<1>1. /\ sup[t].pc # "gone" /\ p \in Pipe /\ pipe[p].src = sup[t].src /\ UNCHANGED start
  BY DEF Rebuilt, ManagerInv, SupervisorOK
<1>2. CASE Become(t, Watcher("resubscribe", sup[t].src, NULL)) /\ UNCHANGED <<slot, pipe>>
  BY <1>1, <1>2, SupervisorMoves
<1>3. CASE Become(t, Gone) /\ Discard(p)
  BY <1>1, <1>3, BothGo
<1> QED  BY <1>2, <1>3 DEF Rebuilt

LEMMA WatchKeeps == ASSUME ManagerInv, NEW t \in Supervisor, WatchStep(t) PROVE ManagerInv'
BY NoticeKeeps, RebuildKeeps, RebuiltKeeps, ResubscribeKeeps DEF WatchStep

LEMMA TaskKeeps == ASSUME ManagerInv, NEW p \in Pipe, TaskStep(p) PROVE ManagerInv'
BY AwakenKeeps, FinalizeKeeps, AttachKeeps DEF TaskStep

-----------------------------------------------------------------------------
\* Steps of requests.

\* A request goes on to q. It changes the active source only when it holds the
\* lock, which it takes when it is free and gives up only for itself.
LEMMA RequestMoves ==
  ASSUME RequestInv, NEW r \in Request, NEW q, req' = [req EXCEPT ![r] = q], RequestOK(q),
         lock' \in {lock, r, NULL}, lock' = r => lock \in {r, NULL}, lock' = NULL => lock \in {r, NULL},
         q.pc \notin {"idle", "lock"} => lock' = r,
         active' \in Source \union {NULL}, active' = active \/ lock = r,
         q.pc = "start" => active' = q.src
  PROVE  RequestInv'
<1> USE NullAssumption
<1>1. req'[r] = q /\ \A x \in Request : x # r => req'[x] = req[x]
  BY DEF RequestInv, RequestsOK
<1>2. RequestsOK'
  BY <1>1 DEF RequestInv, RequestsOK
<1>3. Locked'
  <2> SUFFICES ASSUME NEW x \in Request
               PROVE  /\ req'[x].pc \notin {"idle", "lock"} => lock' = x
                      /\ req'[x].pc = "start" => active' = req'[x].src
    BY DEF Locked
  <2>1. CASE x = r
    BY <2>1, <1>1
  <2>2. CASE x # r
    <3>1. req[x].pc \notin {"idle", "lock"} => lock = x /\ x # NULL
      BY DEF RequestInv, Locked, Request
    <3> QED  BY <2>2, <3>1, <1>1 DEF RequestInv, Locked
  <2> QED  BY <2>1, <2>2
<1> QED  BY <1>2, <1>3 DEF RequestInv

\* A request that ends, at any point.
LEMMA RequestEnds ==
  ASSUME RequestInv, NEW r \in Request, Done(r), active' \in Source \union {NULL},
         active' = active \/ lock = r
  PROVE  RequestInv'
<1>1. RequestOK(Idle) /\ Idle.pc = "idle"
  BY DEF RequestOK, Idle, At
<1>2. lock' \in {lock, NULL} /\ (lock' = NULL => lock \in {r, NULL})
  BY DEF Done
<1> QED  BY <1>1, <1>2, RequestMoves DEF Done

\* A request that goes on with what it has.
Moved(r, pc, s, p) == req' = [req EXCEPT ![r] = At(pc, req[r].op, s, p)]

LEMMA RequestGoes ==
  ASSUME RequestInv, NEW r \in Request, NEW pc, NEW s \in Source \union {NULL},
         NEW p \in Pipe \union {NULL}, Moved(r, pc, s, p),
         pc \in {"flip", "start", "await", "observe", "reap", "stop", "row", "heartbeat"} => s \in Source,
         pc \in {"await", "observe"} => p \in Pipe, pc \notin {"idle", "lock"},
         lock = r, UNCHANGED lock, active' \in Source \union {NULL},
         pc = "start" => active' = s
  PROVE  RequestInv'
<1> DEFINE q == At(pc, req[r].op, s, p)
<1>1. RequestOK(q) /\ q.pc = pc /\ q.src = s
  BY DEF RequestOK, At
<1> HIDE DEF q
<1>2. req' = [req EXCEPT ![r] = q]
  BY DEF q, Moved
<1> QED  BY <1>1, <1>2, RequestMoves

LEMMA StopSlotsOfRequest ==
  ASSUME IInv, NEW r \in Request, NEW S, StopSlots(S), UNCHANGED <<start, active>>, Done(r)
  PROVE  IInv'
<1>1. active' \in Source \union {NULL}
  BY DEF IInv, RequestInv, RequestsOK
<1> QED  BY <1>1, StopSlotsKeeps, RequestEnds DEF IInv

\* The manager does not notice a step of a request alone.
LEMMA ManagerStays == ASSUME ManagerInv, UNCHANGED manager PROVE ManagerInv'
<1>1. UNCHANGED <<slot, pipe, start, sup>>
  BY DEF manager
<1> QED  BY <1>1 DEF ManagerInv, ManagerType, PipesFiled, NoLeak, StartsAlone, SupervisorOK, Running

LEMMA RequestsStay == ASSUME RequestInv, UNCHANGED <<req, lock, active>> PROVE RequestInv'
BY DEF RequestInv, RequestsOK, Locked

LEMMA AskKeeps == ASSUME IInv, NEW r \in Request, Ask(r) \/ (r = Ticker /\ Tick) PROVE IInv'
<1>1. PICK op \in {"activate", "delete", "deactivate", "reconnect"}, s \in Source \union {NULL} :
        /\ op \in {"activate", "delete"} => s \in Source
        /\ req' = [req EXCEPT ![r] = At("lock", op, s, NULL)]
  BY DEF Ask, Tick
<1>2. UNCHANGED <<manager, lock, active>>
  BY DEF Ask, Tick, database
<1>3. req[r] = Idle
  BY DEF Ask, Tick
<1> DEFINE q == At("lock", op, s, NULL)
<1>4. RequestOK(q) /\ q.pc = "lock"
  BY <1>1 DEF RequestOK, At
<1> HIDE DEF q
<1>5. req' = [req EXCEPT ![r] = q]
  BY <1>1 DEF q
<1>6. lock' = lock /\ active' = active /\ active \in Source \union {NULL} /\ RequestInv
  BY <1>2 DEF IInv, RequestInv, RequestsOK
<1>7. RequestInv'
  BY <1>4, <1>5, <1>6, RequestMoves
<1> QED  BY <1>2, <1>7, ManagerStays DEF IInv

LEMMA LockKeeps == ASSUME IInv, NEW r \in Request, Lock(r) PROVE IInv'
<1> DEFINE q == At(First(req[r].op), req[r].op, req[r].src, req[r].pipe)
<1>1. /\ req[r].pc = "lock" /\ lock = NULL /\ lock' = r /\ UNCHANGED <<manager, active>>
      /\ req' = [req EXCEPT ![r] = q]
  BY DEF Lock, Goto, database
<1>2. RequestOK(req[r])
  BY DEF IInv, RequestInv, RequestsOK
<1>3. RequestOK(q) /\ q.pc # "start"
  BY <1>1, <1>2 DEF RequestOK, At, First
<1> HIDE DEF q
<1>4. r # NULL
  BY NullAssumption DEF Request
<1>5. RequestInv'
  BY <1>1, <1>3, <1>4, RequestMoves DEF IInv, RequestInv, RequestsOK
<1> QED  BY <1>1, <1>5, ManagerStays DEF IInv

\* Where a request past the lock stands.
LEMMA PastLock ==
  ASSUME IInv, NEW r \in Request, req[r].pc \notin {"idle", "lock"}
  PROVE  /\ lock = r /\ RequestInv /\ RequestOK(req[r]) /\ active \in Source \union {NULL}
         /\ req[r].src \in Source \union {NULL} /\ req[r].pipe \in Pipe \union {NULL}
         /\ req[r].pc \in {"flip", "start", "await", "observe", "reap", "stop", "row", "heartbeat"}
              => req[r].src \in Source
BY DEF IInv, RequestInv, RequestsOK, Locked, RequestOK

\* Steps past the lock: first those that leave the manager alone ...
LEMMA FlipKeeps == ASSUME IInv, NEW r \in Request, Flip(r) PROVE IInv'
<1>1. req[r].pc = "flip" /\ UNCHANGED manager
  BY DEF Flip
<1>2. CASE req[r].src \in rows
  <2>1. /\ Moved(r, "start", req[r].src, req[r].pipe)
        /\ active' = req[r].src /\ UNCHANGED lock
    BY <1>2 DEF Flip, Goto, Moved
  <2>2. RequestInv'
    BY <1>1, <2>1, PastLock, RequestGoes
  <2> QED  BY <1>1, <2>2, ManagerStays DEF IInv
<1>3. CASE req[r].src \notin rows
  <2>1. Done(r) /\ UNCHANGED active
    BY <1>3 DEF Flip
  <2>2. RequestInv'
    BY <1>1, <2>1, PastLock, RequestEnds
  <2> QED  BY <1>1, <2>2, ManagerStays DEF IInv
<1> QED  BY <1>2, <1>3

LEMMA StartAgainKeeps == ASSUME IInv, NEW r \in Request, StartAgain(r) PROVE IInv'
<1>1. /\ req[r].pc = "start" /\ UNCHANGED manager /\ UNCHANGED lock /\ UNCHANGED active
      /\ Moved(r, "reap", req[r].src, req[r].pipe)
  BY DEF StartAgain, Goto, Moved, database
<1>2. RequestInv'
  BY <1>1, PastLock, RequestGoes
<1> QED  BY <1>1, <1>2, ManagerStays DEF IInv

LEMMA StartJoinKeeps == ASSUME IInv, NEW r \in Request, StartJoin(r) PROVE IInv'
<1> DEFINE p == slot[req[r].src].pipe
<1>1. /\ req[r].pc = "start" /\ UNCHANGED manager /\ UNCHANGED lock /\ UNCHANGED active
      /\ Moved(r, "observe", req[r].src, p)
  BY DEF StartJoin, Moved, database
<1>2. p \in Pipe
  BY <1>1, PastLock DEF StartJoin, Holds, IInv, ManagerInv, ManagerType
<1>3. RequestInv'
  BY <1>1, <1>2, PastLock, RequestGoes
<1> QED  BY <1>1, <1>3, ManagerStays DEF IInv

LEMMA LearnKeeps ==
  ASSUME IInv, NEW r \in Request, req[r].pc \in {"await", "observe"}, NEW result,
         Learn(r, result), UNCHANGED <<database, manager>>
  PROVE  IInv'
<1>1. UNCHANGED manager /\ UNCHANGED active
  BY DEF database
<1>2. CASE result \in {"ok", "silent"}
  <2>1. Moved(r, "reap", req[r].src, NULL) /\ UNCHANGED lock
    BY <1>2 DEF Learn, Moved
  <2>2. RequestInv'
    BY <1>1, <2>1, PastLock, RequestGoes
  <2> QED  BY <1>1, <2>2, ManagerStays DEF IInv
<1>3. CASE result \notin {"ok", "silent"}
  <2>1. Done(r)
    BY <1>3 DEF Learn
  <2>2. RequestInv'
    BY <1>1, <2>1, PastLock, RequestEnds
  <2> QED  BY <1>1, <2>2, ManagerStays DEF IInv
<1> QED  BY <1>2, <1>3

LEMMA ClearKeeps == ASSUME IInv, NEW r \in Request, Clear(r) PROVE IInv'
<1>1. /\ req[r].pc = "clear" /\ UNCHANGED manager /\ UNCHANGED lock /\ active' = NULL
      /\ Moved(r, "stopall", req[r].src, req[r].pipe)
  BY DEF Clear, Goto, Moved
<1>2. RequestInv'
  BY <1>1, PastLock, RequestGoes
<1> QED  BY <1>1, <1>2, ManagerStays DEF IInv

LEMMA DeleteRowKeeps == ASSUME IInv, NEW r \in Request, DeleteRow(r) PROVE IInv'
<1>1. req[r].pc = "row" /\ UNCHANGED manager /\ Done(r)
  BY DEF DeleteRow
<1>2. active' \in Source \union {NULL}
  BY <1>1, PastLock DEF DeleteRow
<1>3. RequestInv'
  BY <1>1, <1>2, PastLock, RequestEnds
<1> QED  BY <1>1, <1>3, ManagerStays DEF IInv

LEMMA LookKeeps == ASSUME IInv, NEW r \in Request, Look(r) PROVE IInv'
<1>1. req[r].pc = "look" /\ UNCHANGED manager /\ UNCHANGED active
  BY DEF Look, database
<1>2. CASE Done(r)
  <2>1. RequestInv'
    BY <1>1, <1>2, PastLock, RequestEnds
  <2> QED  BY <1>1, <2>1, ManagerStays DEF IInv
<1>3. ASSUME active # NULL, UNCHANGED lock, NEW pc \in {"heartbeat", "flip"},
             Moved(r, pc, active, NULL)
      PROVE  IInv'
  <2>1. RequestInv'
    BY <1>1, <1>3, PastLock, RequestGoes
  <2> QED  BY <1>1, <2>1, ManagerStays DEF IInv
<1> QED  BY <1>1, <1>2, <1>3 DEF Look, Moved

\* ... then those that have it stop pipelines or start one.
LEMMA StopStepKeeps ==
  ASSUME IInv, NEW r \in Request, Reap(r) \/ StopAll(r) \/ Heartbeat(r) \/ StartFails(r)
  PROVE  IInv'
<1>1. PICK S : StopSlots(S)
  BY DEF Reap, StopAll, Heartbeat, StartFails
<1>2. UNCHANGED <<start, active>> /\ Done(r)
  BY DEF Reap, StopAll, Heartbeat, StartFails, database
<1> QED  BY <1>1, <1>2, StopSlotsOfRequest

LEMMA StopKeeps == ASSUME IInv, NEW r \in Request, Stop(r) PROVE IInv'
<1>1. /\ req[r].pc = "stop" /\ UNCHANGED lock /\ UNCHANGED active /\ UNCHANGED start
      /\ StopSlots({req[r].src})
      /\ Moved(r, "row", req[r].src, req[r].pipe)
  BY DEF Stop, Goto, Moved, database
<1>2. RequestInv'
  BY <1>1, PastLock, RequestGoes
<1> QED  BY <1>1, <1>2, StopSlotsKeeps DEF IInv

LEMMA StartFreshKeeps == ASSUME IInv, NEW r \in Request, StartFresh(r) PROVE IInv'
<1> USE NullAssumption
<1> DEFINE s == req[r].src
<1>1. /\ req[r].pc = "start" /\ UNCHANGED lock /\ UNCHANGED active
      /\ ~Holds(s, {"starting", "streaming"})
  BY DEF StartFresh, database
<1>2. s \in Source /\ ManagerInv
  BY <1>1, PastLock DEF IInv
<1>3. PICK p \in NextPipe :
        /\ Reserve(s, p, NULL)
        /\ start' = [start EXCEPT ![p] = "wait"]
        /\ Moved(r, "await", s, p)
  BY DEF StartFresh, Moved
<1>4. /\ p \in Pipe /\ Free(p)
      /\ slot'[s] = [pipe |-> p, sup |-> NULL]
      /\ \A x \in Source : x # s => slot'[x] = slot[x]
      /\ pipe'[p].src = s
      /\ \A q \in Pipe : q # p => pipe'[q].src = pipe[q].src
  BY <1>1, <1>2, <1>3, ReserveFiles
<1>5. sup' = [t \in Supervisor |-> IF slot[s].sup = t THEN Gone ELSE sup[t]]
  BY DEF StartFresh
<1>6. RequestInv'
  BY <1>1, <1>2, <1>3, <1>4, PastLock, RequestGoes
<1>7. ManagerType'
  BY <1>1, <1>2, <1>3, <1>4, <1>5, ReserveFiles DEF ManagerInv, ManagerType, Gone, Watcher, Waiting
<1>8. NoLeak' /\ \A x \in Source : slot'[x].pipe # NULL => pipe'[slot'[x].pipe].src = x
  BY <1>1, <1>2, <1>3, ReserveFiles
<1>9. /\ start'[p] = "wait" /\ "wait" \in Waiting
      /\ \A q \in Pipe : q # p => start'[q] = start[q] /\ (Running(q)' => Running(q))
  BY <1>2, <1>3, <1>4 DEF ManagerInv, ManagerType, Waiting, Running, Reserve
<1>10. PipesFiled'
  BY <1>2, <1>4, <1>8, <1>9 DEF ManagerInv, PipesFiled
<1>11. StartsAlone'
  <2> SUFFICES ASSUME NEW x \in Source, slot'[x].pipe # NULL
               PROVE  slot'[x].sup = NULL <=> start'[slot'[x].pipe] \in Waiting
    BY DEF StartsAlone
  <2>1. CASE x = s
    BY <2>1, <1>4, <1>9
  <2>2. CASE x # s
    <3>1. slot'[x] = slot[x] /\ slot[x].pipe \in Pipe /\ slot[x].pipe # p
      BY <2>2, <1>2, <1>4 DEF ManagerInv, ManagerType, Free
    <3> QED  BY <3>1, <1>2, <1>9 DEF ManagerInv, StartsAlone
  <2> QED  BY <2>1, <2>2
<1>12. \A t \in Supervisor : SupervisorOK(t)'
  <2> SUFFICES ASSUME NEW t \in Supervisor, sup'[t].pc # "gone" PROVE SupervisorOK(t)'
    BY DEF SupervisorOK
  <2>1. sup'[t] = sup[t] /\ slot[s].sup # t
    BY <1>5 DEF Gone, Watcher
  <2>2. sup[t].src \in Source /\ slot[sup[t].src].sup = t /\ sup[t].pipe # p
    BY <2>1, <1>2, <1>4 DEF ManagerInv, SupervisorOK, Free
  <2> QED  BY <2>1, <2>2, <1>2, <1>4 DEF ManagerInv, SupervisorOK
<1> QED  BY <1>6, <1>7, <1>8, <1>10, <1>11, <1>12 DEF IInv, ManagerInv

LEMMA RequestKeeps == ASSUME IInv, NEW r \in Request, RequestStep(r) PROVE IInv'
<1>1. ASSUME Await(r) PROVE IInv'
  BY <1>1, LearnKeeps DEF Await
<1>2. ASSUME Observe(r) PROVE IInv'
  BY <1>2, LearnKeeps DEF Observe
<1> QED  BY <1>1, <1>2, FlipKeeps, StartAgainKeeps, StartJoinKeeps, StartFreshKeeps, ClearKeeps,
            DeleteRowKeeps, LookKeeps, StopStepKeeps, StopKeeps DEF RequestStep

-----------------------------------------------------------------------------
\* What happens to requests, pipelines and the process.

LEMMA DropKeeps == ASSUME IInv, NEW r \in Request, Drop(r) PROVE IInv'
<1>1. Done(r) /\ UNCHANGED manager /\ UNCHANGED active
  BY DEF Drop, database
<1>2. RequestInv'
  BY <1>1, RequestEnds DEF IInv, RequestInv, RequestsOK
<1> QED  BY <1>1, <1>2, ManagerStays DEF IInv

LEMMA PipeKeeps == ASSUME IInv, NEW p \in Pipe, Play(p) \/ Die(p) PROVE IInv'
<1>1. PICK x \in {"streaming", "errored", "stopped"} :
        Running(p) /\ pipe' = [pipe EXCEPT ![p] = [src |-> pipe[p].src, state |-> x]]
  BY DEF Play, Die, Running
<1>2. UNCHANGED <<slot, start, sup, req, lock, active>>
  BY DEF Play, Die, database
<1> QED  BY <1>1, <1>2, PipesOnly, RequestsStay DEF IInv

LEMMA RestartKeeps == ASSUME IInv, Restart PROVE IInv'
<1> USE NullAssumption
<1>1. ManagerInv'
  BY DEF Restart, ManagerInv, ManagerType, PipesFiled, NoLeak, StartsAlone, SupervisorOK,
         Running, Empty, Gone, Watcher, Waiting, Result, Outcome
<1>2. RequestInv'
  BY DEF Restart, IInv, RequestInv, RequestsOK, RequestOK, Locked, Idle, At, database
<1> QED  BY <1>1, <1>2 DEF IInv

LEMMA InitInv == Init => IInv
<1> SUFFICES ASSUME Init PROVE IInv
  OBVIOUS
<1> USE NullAssumption
<1>1. ManagerInv
  BY DEF Init, ManagerInv, ManagerType, PipesFiled, NoLeak, StartsAlone, SupervisorOK,
         Running, Empty, Gone, Watcher, Waiting, Result, Outcome
<1>2. RequestInv
  BY DEF Init, RequestInv, RequestsOK, RequestOK, Locked, Idle, At
<1> QED  BY <1>1, <1>2 DEF IInv

LEMMA NextInv == IInv /\ [Next]_vars => IInv'
<1> SUFFICES ASSUME IInv, [Next]_vars PROVE IInv'
  OBVIOUS
<1>1. ASSUME NEW r \in Operator, Ask(r) \/ Drop(r) PROVE IInv'
  BY <1>1, AskKeeps, DropKeeps DEF Request
<1>2. ASSUME Tick PROVE IInv'
  BY <1>2, AskKeeps DEF Request
<1>3. ASSUME NEW r \in Request, Lock(r) \/ RequestStep(r) PROVE IInv'
  BY <1>3, LockKeeps, RequestKeeps
<1>4. ASSUME NEW p \in Pipe, TaskStep(p) \/ Play(p) \/ Die(p) PROVE IInv'
  <2>1. CASE TaskStep(p)
    <3>1. UNCHANGED <<req, lock, active>>
      BY <2>1 DEF TaskStep, Awaken, Finalize, Attach, database
    <3> QED  BY <2>1, <3>1, TaskKeeps, RequestsStay DEF IInv
  <2> QED  BY <1>4, <2>1, PipeKeeps
<1>5. ASSUME NEW t \in Supervisor, WatchStep(t) PROVE IInv'
  <2>1. UNCHANGED <<req, lock, active>>
    BY <1>5 DEF WatchStep, Notice, Rebuild, Replace, Rebuilt, Resubscribe, database
  <2> QED  BY <1>5, <2>1, WatchKeeps, RequestsStay DEF IInv
<1>6. ASSUME NEW s \in Source, Broadcast(s) PROVE IInv'
  <2>1. UNCHANGED manager /\ UNCHANGED <<req, lock, active>>
    BY <1>6 DEF Broadcast, database
  <2> QED  BY <2>1, ManagerStays, RequestsStay DEF IInv
<1>7. CASE UNCHANGED vars
  <2>1. UNCHANGED manager /\ UNCHANGED <<req, lock, active>>
    BY <1>7 DEF vars, manager
  <2> QED  BY <2>1, ManagerStays, RequestsStay DEF IInv
<1> QED  BY <1>1, <1>2, <1>3, <1>4, <1>5, <1>6, <1>7, RestartKeeps DEF Next

-----------------------------------------------------------------------------
\* Results.

THEOREM Invariance == Spec => []IInv
BY InitInv, NextInv, PTL DEF Spec

\* No encoder runs beside the slot of its source: whatever requests, rebuilds and
\* faults come together, a stop reaches all that runs (manager/lifecycle.rs).
THEOREM NothingLeaks == Spec => []NoLeakedEncoder
<1>1. IInv => NoLeakedEncoder
  BY DEF IInv, ManagerInv, NoLeak, NoLeakedEncoder
<1> QED  BY <1>1, Invariance, PTL

\* Aborting the supervisor in the slot aborts every supervisor of a source
\* (manager/supervisor.rs).
THEOREM SlotsKnowSupervisors == Spec => []SupervisorsOwnSlots
<1>1. IInv => SupervisorsOwnSlots
  BY DEF IInv, ManagerInv, SupervisorOK, StartsAlone, Waiting, SupervisorsOwnSlots
<1> QED  BY <1>1, Invariance, PTL

\* No step brings up a pipeline for a source that is not the active one
\* (state/integrations.rs).
THEOREM NothingRevives == Spec => NoRevival
<1> USE NullAssumption
<1> DEFINE Brings(s) == slot[s].pipe = NULL /\ slot'[s].pipe # NULL
<1>1. ASSUME IInv, Next, NEW s \in Source, Brings(s) PROVE active = s
  <2>1. ASSUME NEW p \in Pipe, Discard(p) PROVE FALSE
    BY <1>1, <2>1 DEF Discard, Empty
  <2>2. ASSUME NEW S, StopSlots(S) PROVE FALSE
    BY <1>1, <2>2 DEF StopSlots, Empty
  <2>3. slot' # slot
    BY <1>1
  <2>4. ASSUME NEW p \in Pipe, TaskStep(p) PROVE FALSE
    <3>1. CASE Attach(p) /\ slot[pipe[p].src].pipe = p
      BY <1>1, <3>1 DEF Attach, IInv, ManagerInv, ManagerType
    <3> QED  BY <2>1, <2>3, <2>4, <3>1 DEF TaskStep, Awaken, Finalize, Attach
  <2>5. ASSUME NEW t \in Supervisor, WatchStep(t) PROVE FALSE
    <3>1. sup[t].pc # "gone" => sup[t].src \in Source
      BY <1>1 DEF IInv, ManagerInv, SupervisorOK
    <3>2. CASE Rebuild(t)
      <4>1. Holds(sup[t].src, {"errored", "stopped"}) /\ sup[t].src \in Source
        BY <2>3, <3>1, <3>2 DEF Rebuild, Replace
      <4>2. slot[sup[t].src].pipe \in Pipe /\ sup[t].src # s
        BY <1>1, <4>1 DEF Holds, IInv, ManagerInv, ManagerType
      <4> QED  BY <1>1, <2>1, <3>2, <4>1, <4>2
               DEF Rebuild, Replace, Reserve, IInv, ManagerInv, ManagerType
    <3>3. CASE Rebuilt(t)
      <4>1. sup[t].pipe \in Pipe
        BY <1>1, <3>3 DEF Rebuilt, IInv, ManagerInv, SupervisorOK
      <4> QED  BY <2>1, <2>3, <3>3, <4>1 DEF Rebuilt
    <3> QED  BY <2>3, <2>5, <3>2, <3>3 DEF WatchStep, Notice, Resubscribe
  <2>6. ASSUME NEW r \in Request, StartFresh(r) PROVE active = s
    <3>1. req[r].pc = "start" /\ slot' # slot
      BY <2>3, <2>6 DEF StartFresh
    <3>2. req[r].src \in Source /\ active = req[r].src
      BY <1>1, <3>1, PastLock DEF IInv, RequestInv, Locked
    <3> QED  BY <1>1, <2>6, <3>2 DEF StartFresh, Reserve, IInv, ManagerInv, ManagerType
  <2>7. ASSUME NEW r \in Request, Lock(r) \/ RequestStep(r) PROVE active = s
    BY <2>2, <2>3, <2>6, <2>7
       DEF RequestStep, Lock, Flip, StartAgain, StartJoin, StartFails, Await, Observe, Reap,
           Clear, StopAll, Stop, DeleteRow, Look, Heartbeat, manager
  <2>8. ASSUME Restart PROVE FALSE
    BY <1>1, <2>8 DEF Restart, Empty
  <2> QED  BY <1>1, <2>3, <2>4, <2>5, <2>7, <2>8
           DEF Next, Ask, Drop, Tick, Play, Die, Broadcast, manager
<1>2. IInv /\ [Next]_vars =>
        [\A s \in Source : slot[s].pipe = NULL /\ slot'[s].pipe # NULL => active = s]_vars
  BY <1>1
<1> QED  BY <1>2, Invariance, PTL DEF Spec, NoRevival
=============================================================================
