---------------------------- MODULE VideoSources ----------------------------
(***************************************************************************)
(* The video source on stage: requests that activate, deactivate and delete *)
(* sources and the ticker that reconnects the active one                    *)
(* (presenter-server/src/state/integrations.rs) over the manager of NDI     *)
(* pipelines with one supervisor each (presenter-ndi/src/manager/).         *)
(*                                                                          *)
(* Requests hold the activation lock from the database change to the end.   *)
(* The manager's own lock is held for single steps only: a start reserves   *)
(* the slot of its source, waits without the lock, in a task of its own     *)
(* that outlives its request, and takes the slot over when the pipeline     *)
(* streams. A supervisor rebuilds its dead pipeline the same way.           *)
(*                                                                          *)
(* Left out: viewers of a pipeline, the drift guard (DriftGuard) and the    *)
(* back-off of a supervisor, whose length is only time; renaming a source,  *)
(* which no pipeline notices; hosts without an encoder or the NDI library.  *)
(***************************************************************************)
EXTENDS Naturals, FiniteSets

CONSTANTS Source,      \* the sources set up
          Pipe,        \* pipelines, used over again
          Supervisor,  \* tasks that watch a pipeline, used over again
          Operator,    \* requests under way at once
          Ticker,      \* the reconnect ticker
          NULL,
          MaxEvents    \* bound: requests of operators and faults, together

ASSUME TickerAssumption == Ticker \notin Operator
ASSUME NullAssumption ==
  NULL \notin Source \union Pipe \union Supervisor \union Operator \union {Ticker}

VARIABLES rows,    \* sources in the database
          active,  \* the one that is active there
          lock,    \* who holds the activation lock
          req,     \* req[r]: what request r is at
          slot,    \* slot[s]: the pipeline and the supervisor of source s
          pipe,    \* pipe[p]: whose pipeline p is and how it does
          start,   \* start[p]: the task that waits for p to stream
          sup,     \* sup[t]: what supervisor t is at
          on,      \* the sources being broadcast
          shown,   \* the source and status displays were told last
          events   \* how many requests and faults there were

database == <<rows, active>>
manager == <<slot, pipe, start, sup>>
vars == <<rows, active, lock, req, slot, pipe, start, sup, on, shown, events>>

Request == Operator \union {Ticker}

At(pc, op, s, p) == [pc |-> pc, op |-> op, src |-> s, pipe |-> p]
Idle == At("idle", "none", NULL, NULL)
Watcher(pc, s, p) == [pc |-> pc, src |-> s, pipe |-> p]
Gone == Watcher("gone", NULL, NULL)
Empty == [pipe |-> NULL, sup |-> NULL]

Outcome == {"streaming", "errored", "stopped", "timeout"}
Result == {"ok", "failed", "silent", "superseded"}

Init == /\ rows = Source /\ active \in Source \union {NULL}
        /\ lock = NULL
        /\ req = [r \in Request |-> Idle]
        /\ slot = [s \in Source |-> Empty]
        /\ pipe = [p \in Pipe |-> [src |-> NULL, state |-> "stopped"]]
        /\ start = [p \in Pipe |-> "none"]
        /\ sup = [t \in Supervisor |-> Gone]
        /\ on \in SUBSET Source
        /\ shown = [source |-> NULL, status |-> "connected"]
        /\ events = 0

Running(p) == pipe[p].state \in {"starting", "streaming"}
\* The slot of s holds a pipeline in one of these states.
Holds(s, states) == slot[s].pipe # NULL /\ pipe[slot[s].pipe].state \in states

\* Nothing refers to pipeline p any more.
Free(p) == /\ ~Running(p)
           /\ start[p] \in Result \union {"none"}
           /\ \A s \in Source : slot[s].pipe # p
           /\ \A t \in Supervisor : sup[t].pipe # p
           /\ \A r \in Request : req[r].pipe # p

\* The pipeline and the supervisor that come next: which of the free ones they
\* are makes no difference.
NextPipe == {p \in Pipe : Free(p) /\ p = CHOOSE q \in Pipe : Free(q)}
NextSupervisor == {t \in Supervisor : sup[t] = Gone /\ t = CHOOSE u \in Supervisor : sup[u] = Gone}

Event == events < MaxEvents /\ events' = events + 1

-----------------------------------------------------------------------------
\* Steps of the manager, each under its lock.

\* The slots of the sources S are emptied: supervisors aborted, pipelines
\* stopped.
StopSlots(S) ==
  /\ slot' = [s \in Source |-> IF s \in S THEN Empty ELSE slot[s]]
  /\ pipe' = [p \in Pipe |-> IF \E s \in S : slot[s].pipe = p
                             THEN [src |-> pipe[p].src, state |-> "stopped"] ELSE pipe[p]]
  /\ sup' = [t \in Supervisor |-> IF \E s \in S : slot[s].sup = t THEN Gone ELSE sup[t]]

\* A new pipeline p starts for source s in place of a dead one, and belongs to
\* supervisor t.
Reserve(s, p, t) ==
  /\ slot' = [slot EXCEPT ![s] = [pipe |-> p, sup |-> t]]
  /\ pipe' = [q \in Pipe |-> IF q = p THEN [src |-> s, state |-> "starting"]
                             ELSE IF q = slot[s].pipe THEN [src |-> pipe[q].src, state |-> "stopped"]
                             ELSE pipe[q]]

\* Pipeline p is stopped; it leaves the slot of its source if it is there.
Discard(p) ==
  /\ pipe' = [pipe EXCEPT ![p] = [src |-> pipe[p].src, state |-> "stopped"]]
  /\ slot' = [s \in Source |-> IF slot[s].pipe = p THEN Empty ELSE slot[s]]

\* What waiting for p to stream comes to: its state, or the end of the wait.
Waited(p, o) ==
  \/ pipe[p].state # "starting" /\ o = pipe[p].state /\ UNCHANGED events
  \/ /\ pipe[p].state = "starting" /\ o = "timeout"
     /\ IF pipe[p].src \in on THEN Event ELSE UNCHANGED events

-----------------------------------------------------------------------------
\* The task a start leaves behind.

Awaken(p) ==
  /\ start[p] = "wait"
  /\ \E o \in Outcome : Waited(p, o) /\ start' = [start EXCEPT ![p] = o]
  /\ UNCHANGED <<database, lock, req, slot, pipe, sup, on, shown>>

\* The slot is still the task's, or was emptied or taken over meanwhile.
Finalize(p) ==
  /\ start[p] \in Outcome
  /\ LET mine == slot[pipe[p].src].pipe = p
     IN  IF mine /\ start[p] = "streaming"
         THEN start' = [start EXCEPT ![p] = "attach"] /\ UNCHANGED <<slot, pipe>>
         ELSE /\ Discard(p)
              /\ start' = [start EXCEPT ![p] = IF ~mine THEN "superseded"
                                               ELSE IF start[p] = "errored" THEN "failed"
                                               ELSE "silent"]
  /\ UNCHANGED <<database, lock, req, sup, on, shown, events>>

\* The streaming pipeline gets its supervisor.
Attach(p) ==
  /\ start[p] = "attach"
  /\ IF slot[pipe[p].src].pipe = p
     THEN /\ \E t \in NextSupervisor :
               /\ sup' = [sup EXCEPT ![t] = Watcher("watch", pipe[p].src, p)]
               /\ slot' = [slot EXCEPT ![pipe[p].src] = [pipe |-> p, sup |-> t]]
          /\ start' = [start EXCEPT ![p] = "ok"]
          /\ UNCHANGED pipe
     ELSE /\ Discard(p)
          /\ start' = [start EXCEPT ![p] = "superseded"]
          /\ UNCHANGED sup
  /\ UNCHANGED <<database, lock, req, on, shown, events>>

-----------------------------------------------------------------------------
\* Supervisors.

Become(t, w) == sup' = [sup EXCEPT ![t] = w]

\* The watched pipeline has died.
Notice(t) ==
  /\ sup[t].pc = "watch" /\ ~Running(sup[t].pipe)
  /\ Become(t, Watcher("rebuild", sup[t].src, sup[t].pipe))
  /\ UNCHANGED <<database, lock, req, slot, pipe, start, on, shown, events>>

\* It is replaced by one that belongs to the supervisor owner, unless the slot was
\* emptied meanwhile; the new pipeline may fail to start.
Replace(t, owner) ==
  /\ sup[t].pc = "rebuild"
  /\ LET s == sup[t].src IN
     \/ /\ slot[s].pipe = NULL
        /\ Become(t, Gone) /\ UNCHANGED <<slot, pipe, events>>
     \/ /\ Holds(s, {"starting", "streaming"})
        /\ Become(t, Watcher("resubscribe", s, NULL)) /\ UNCHANGED <<slot, pipe, events>>
     \/ /\ Holds(s, {"errored", "stopped"})
        /\ \E p \in NextPipe : Reserve(s, p, owner) /\ Become(t, Watcher("wait", s, p))
        /\ UNCHANGED events
     \/ /\ Holds(s, {"errored", "stopped"}) /\ Event
        /\ Discard(slot[s].pipe) /\ Become(t, Gone)
  /\ UNCHANGED <<database, lock, req, start, on, shown>>

\* Faulty: the rebuilt slot forgets who supervises it.
RebuildUnowned(t) == Replace(t, NULL)

\* The owner of the slot stays.
Rebuild(t) == Replace(t, slot[sup[t].src].sup)

\* The new pipeline streams, or is given up, and the supervisor with it: the
\* ticker recovers the source then.
Rebuilt(t) ==
  /\ sup[t].pc = "wait"
  /\ LET p == sup[t].pipe IN
     \E o \in Outcome :
       /\ Waited(p, o)
       /\ IF o = "streaming" /\ slot[sup[t].src].pipe = p
          THEN Become(t, Watcher("resubscribe", sup[t].src, NULL)) /\ UNCHANGED <<slot, pipe>>
          ELSE Become(t, Gone) /\ Discard(p)
  /\ UNCHANGED <<database, lock, req, start, on, shown>>

\* It watches the pipeline it finds in the slot. One that has died already it
\* will not see die.
Resubscribe(t) ==
  /\ sup[t].pc = "resubscribe"
  /\ LET s == sup[t].src
         p == slot[s].pipe
     IN  Become(t, IF p = NULL THEN Gone
                   ELSE Watcher(IF Running(p) THEN "watch" ELSE "blind", s, p))
  /\ UNCHANGED <<database, lock, req, slot, pipe, start, on, shown, events>>

-----------------------------------------------------------------------------
\* Requests.

Goto(r, pc) == req' = [req EXCEPT ![r] = At(pc, req[r].op, req[r].src, req[r].pipe)]
Done(r) == /\ req' = [req EXCEPT ![r] = Idle]
           /\ lock' = IF lock = r THEN NULL ELSE lock
\* Displays are told how the source does.
Tell(status) == shown' = [source |-> shown.source, status |-> status]

Ask(r) ==
  /\ req[r] = Idle /\ Event
  /\ \/ \E s \in Source, op \in {"activate", "delete"} :
          req' = [req EXCEPT ![r] = At("lock", op, s, NULL)]
     \/ req' = [req EXCEPT ![r] = At("lock", "deactivate", NULL, NULL)]
  /\ UNCHANGED <<database, lock, manager, on, shown>>

Tick ==
  /\ req[Ticker] = Idle
  /\ req' = [req EXCEPT ![Ticker] = At("lock", "reconnect", NULL, NULL)]
  /\ UNCHANGED <<database, lock, manager, on, shown, events>>

First(op) == IF op = "activate" THEN "flip" ELSE IF op = "deactivate" THEN "clear"
             ELSE IF op = "delete" THEN "stop" ELSE "look"

\* Faulty: deactivating takes no lock.
LockForgotten(r) ==
  /\ req[r].pc = "lock" /\ (lock = NULL \/ req[r].op = "deactivate")
  /\ lock' = IF req[r].op = "deactivate" THEN lock ELSE r
  /\ Goto(r, First(req[r].op))
  /\ UNCHANGED <<database, manager, on, shown, events>>

Lock(r) ==
  /\ req[r].pc = "lock" /\ lock = NULL
  /\ lock' = r
  /\ Goto(r, First(req[r].op))
  /\ UNCHANGED <<database, manager, on, shown, events>>

\* The source becomes the active one in the database, if it is still there.
Flip(r) ==
  /\ req[r].pc = "flip"
  /\ IF req[r].src \in rows
     THEN /\ active' = req[r].src
          /\ shown' = [source |-> req[r].src, status |-> shown.status]
          /\ Goto(r, "start") /\ UNCHANGED lock
     ELSE Done(r) /\ UNCHANGED <<active, shown>>
  /\ UNCHANGED <<rows, manager, on, events>>

\* Its pipeline streams already ...
StartAgain(r) ==
  /\ req[r].pc = "start" /\ Holds(req[r].src, {"streaming"})
  /\ Tell("connected") /\ Goto(r, "reap")
  /\ UNCHANGED <<database, lock, manager, on, events>>

\* ... or is being started, which the request waits for ...
StartJoin(r) ==
  /\ req[r].pc = "start" /\ Holds(req[r].src, {"starting"})
  /\ req' = [req EXCEPT ![r] = At("observe", req[r].op, req[r].src, slot[req[r].src].pipe)]
  /\ UNCHANGED <<database, lock, manager, on, shown, events>>

\* Faulty: a start under way is started over.
StartDouble(r) ==
  /\ req[r].pc = "start" /\ ~Holds(req[r].src, {"streaming"})
  /\ \E p \in NextPipe :
       /\ slot' = [slot EXCEPT ![req[r].src] = [pipe |-> p, sup |-> NULL]]
       /\ pipe' = [pipe EXCEPT ![p] = [src |-> req[r].src, state |-> "starting"]]
       /\ start' = [start EXCEPT ![p] = "wait"]
       /\ req' = [req EXCEPT ![r] = At("await", req[r].op, req[r].src, p)]
  /\ sup' = [t \in Supervisor |-> IF slot[req[r].src].sup = t THEN Gone ELSE sup[t]]
  /\ UNCHANGED <<database, lock, on, shown, events>>

\* ... or is started: the supervisor of a dead one is aborted ...
StartFresh(r) ==
  /\ req[r].pc = "start" /\ ~Holds(req[r].src, {"starting", "streaming"})
  /\ \E p \in NextPipe :
       /\ Reserve(req[r].src, p, NULL)
       /\ start' = [start EXCEPT ![p] = "wait"]
       /\ req' = [req EXCEPT ![r] = At("await", req[r].op, req[r].src, p)]
  /\ sup' = [t \in Supervisor |-> IF slot[req[r].src].sup = t THEN Gone ELSE sup[t]]
  /\ UNCHANGED <<database, lock, on, shown, events>>

\* ... or it cannot be built.
StartFails(r) ==
  /\ req[r].pc = "start" /\ ~Holds(req[r].src, {"starting", "streaming"})
  /\ Event
  /\ StopSlots({req[r].src})
  /\ Tell("failed") /\ Done(r)
  /\ UNCHANGED <<database, start, on>>

\* The request learns how the start went: a superseded one says nothing.
Learn(r, result) ==
  IF result \in {"ok", "silent"}
  THEN /\ Tell(IF result = "ok" THEN "connected" ELSE "no-signal")
       /\ req' = [req EXCEPT ![r] = At("reap", req[r].op, req[r].src, NULL)]
       /\ UNCHANGED lock
  ELSE /\ IF result = "failed" THEN Tell("failed") ELSE UNCHANGED shown
       /\ Done(r)

Await(r) ==
  /\ req[r].pc = "await" /\ start[req[r].pipe] \in Result
  /\ Learn(r, start[req[r].pipe])
  /\ UNCHANGED <<database, manager, on, events>>

Observe(r) ==
  /\ req[r].pc = "observe"
  /\ \E o \in Outcome :
       /\ Waited(req[r].pipe, o)
       /\ Learn(r, IF o = "streaming" THEN "ok" ELSE IF o = "errored" THEN "failed"
                   ELSE IF o = "stopped" THEN "superseded" ELSE "silent")
  /\ UNCHANGED <<database, manager, on>>

\* The pipelines of the other sources are stopped.
Reap(r) ==
  /\ req[r].pc = "reap"
  /\ StopSlots(Source \ {req[r].src}) /\ Done(r)
  /\ UNCHANGED <<database, start, on, shown, events>>

\* Deactivation.
Clear(r) ==
  /\ req[r].pc = "clear"
  /\ active' = NULL
  /\ shown' = [source |-> NULL, status |-> shown.status]
  /\ Goto(r, "stopall")
  /\ UNCHANGED <<rows, lock, manager, on, events>>

StopAll(r) ==
  /\ req[r].pc = "stopall"
  /\ StopSlots(Source) /\ Done(r)
  /\ UNCHANGED <<database, start, on, shown, events>>

\* Deletion.
Stop(r) ==
  /\ req[r].pc = "stop"
  /\ StopSlots({req[r].src}) /\ Goto(r, "row")
  /\ UNCHANGED <<database, lock, start, on, shown, events>>

DeleteRow(r) ==
  /\ req[r].pc = "row"
  /\ rows' = rows \ {req[r].src}
  /\ active' = IF active = req[r].src THEN NULL ELSE active
  /\ Done(r)
  /\ UNCHANGED <<manager, on, shown, events>>

\* The ticker repairs the active source when its pipeline is dead or missing,
\* and otherwise leaves it alone.
Look(r) ==
  /\ req[r].pc = "look"
  /\ \/ active = NULL /\ Done(r) /\ UNCHANGED events
     \/ Event /\ Done(r)   \* the manager was busy
     \/ /\ active # NULL /\ Holds(active, {"starting"})
        /\ Done(r) /\ UNCHANGED events
     \/ /\ active # NULL /\ Holds(active, {"streaming"})
        /\ req' = [req EXCEPT ![r] = At("heartbeat", req[r].op, active, NULL)]
        /\ UNCHANGED <<lock, events>>
     \/ /\ active # NULL /\ ~Holds(active, {"starting", "streaming"})
        /\ req' = [req EXCEPT ![r] = At("flip", req[r].op, active, NULL)]
        /\ UNCHANGED <<lock, events>>
  /\ UNCHANGED <<database, manager, on, shown>>

\* Faulty: pipelines left over by an unfinished switch stay.
HeartbeatOnly(r) ==
  /\ req[r].pc = "heartbeat"
  /\ shown' = [source |-> req[r].src, status |-> "connected"]
  /\ Done(r)
  /\ UNCHANGED <<database, manager, on, events>>

\* Displays hear of the streaming source again, and pipelines left over by an
\* unfinished switch are stopped.
Heartbeat(r) ==
  /\ req[r].pc = "heartbeat"
  /\ StopSlots(Source \ {req[r].src})
  /\ shown' = [source |-> req[r].src, status |-> "connected"]
  /\ Done(r)
  /\ UNCHANGED <<database, start, on, events>>

-----------------------------------------------------------------------------
\* What happens to them.

\* The client of a request goes away, at any point of it.
Drop(r) ==
  /\ req[r] # Idle /\ Event /\ Done(r)
  /\ UNCHANGED <<database, manager, on, shown>>

\* A started pipeline whose source is broadcast begins to stream.
Play(p) ==
  /\ pipe[p].state = "starting" /\ pipe[p].src \in on
  /\ pipe' = [pipe EXCEPT ![p] = [src |-> pipe[p].src, state |-> "streaming"]]
  /\ UNCHANGED <<database, lock, req, slot, start, sup, on, shown, events>>

\* A pipeline fails, is failed by the drift guard, or its stream ends.
Die(p) ==
  /\ Running(p) /\ Event
  /\ \E how \in {"errored", "stopped"} :
       pipe' = [pipe EXCEPT ![p] = [src |-> pipe[p].src, state |-> how]]
  /\ UNCHANGED <<database, lock, req, slot, start, sup, on, shown>>

Broadcast(s) ==
  /\ Event
  /\ on' = IF s \in on THEN on \ {s} ELSE on \union {s}
  /\ UNCHANGED <<database, lock, req, manager, shown>>

\* The process restarts: the database is all that is left.
Restart ==
  /\ Event
  /\ lock' = NULL
  /\ req' = [r \in Request |-> Idle]
  /\ slot' = [s \in Source |-> Empty]
  /\ pipe' = [p \in Pipe |-> [src |-> NULL, state |-> "stopped"]]
  /\ start' = [p \in Pipe |-> "none"]
  /\ sup' = [t \in Supervisor |-> Gone]
  /\ UNCHANGED <<database, on, shown>>

-----------------------------------------------------------------------------

RequestStep(r) ==
  \/ Flip(r) \/ StartAgain(r) \/ StartJoin(r) \/ StartFresh(r) \/ StartFails(r)
  \/ Await(r) \/ Observe(r) \/ Reap(r) \/ Clear(r) \/ StopAll(r) \/ Stop(r)
  \/ DeleteRow(r) \/ Look(r) \/ Heartbeat(r)
TaskStep(p) == Awaken(p) \/ Finalize(p) \/ Attach(p)
WatchStep(t) == Notice(t) \/ Rebuild(t) \/ Rebuilt(t) \/ Resubscribe(t)

Next == \/ \E r \in Operator : Ask(r) \/ Drop(r)
        \/ Tick \/ \E r \in Request : Lock(r) \/ RequestStep(r)
        \/ \E p \in Pipe : TaskStep(p) \/ Play(p) \/ Die(p)
        \/ \E t \in Supervisor : WatchStep(t)
        \/ \E s \in Source : Broadcast(s)
        \/ Restart

\* Tasks run, the ticker ticks, the lock is handed out in turn, and a source
\* that is broadcast reaches a pipeline that waits for it.
Fairness == /\ WF_vars(Tick)
            /\ \A r \in Request : WF_vars(RequestStep(r)) /\ SF_vars(Lock(r))
            /\ \A p \in Pipe : WF_vars(TaskStep(p)) /\ WF_vars(Play(p))
            /\ \A t \in Supervisor : WF_vars(WatchStep(t))

Spec == Init /\ [][Next]_vars /\ Fairness

-----------------------------------------------------------------------------
\* Properties.

\* A pipeline is never brought up for a source that is not the active one: a
\* deactivation or a switch is not undone by a request or a tick that started
\* before it (#745, #747).
NoRevival ==
  [][\A s \in Source : slot[s].pipe = NULL /\ slot'[s].pipe # NULL => active = s]_vars

\* No encoder runs beside the one in the slot of its source, where nothing would
\* ever stop it (#741).
NoLeakedEncoder == \A p \in Pipe : Running(p) => slot[pipe[p].src].pipe = p

\* A supervisor can be reached, to be aborted, through the slot of its source,
\* so that no source has two; and no slot is without one once its start is over
\* (#745c).
SupervisorsOwnSlots ==
  /\ \A t \in Supervisor : sup[t].pc # "gone" => slot[sup[t].src].sup = t
  /\ \A s \in Source : slot[s].pipe # NULL /\ slot[s].sup = NULL =>
       start[slot[s].pipe] \in {"wait", "attach"} \union Outcome

\* The source s alone has a pipeline, it streams, and displays know.
Showing(s) == /\ Holds(s, {"streaming"}) /\ slot[s].sup # NULL
              /\ \A x \in Source \ {s} : slot[x] = Empty
              /\ shown = [source |-> s, status |-> "connected"]

\* Whatever requests were made, failed, were dropped half way or cut short by a
\* restart: in the end the active source is on stage for good, if it is
\* broadcast at all, and it is the only one with an encoder.
ActiveSourceShows == <>[](active \in on => Showing(active))
=============================================================================
