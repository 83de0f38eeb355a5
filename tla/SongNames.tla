----------------------------- MODULE SongNames -----------------------------
(***************************************************************************)
(* The names AbleSet's song numbers are resolved with (state/ableset.rs),  *)
(* and everything that makes them stale: edits here, a change of the       *)
(* tracked library, and the sync task, which also runs a cycle for every   *)
(* edit (state/sync.rs).                                                   *)
(*                                                                         *)
(* The songs of a library, and their names, are a version: 0 when the      *)
(* library has no song or is not there, another number at every change,    *)
(* never one that is still held somewhere.  The cache holds the version it *)
(* was resolved from.  What AbleSet itself plays, the titles that disagree *)
(* and their acknowledgements are left out, and so is a restart, after     *)
(* which cache and channel are as in Init.                                 *)
(***************************************************************************)
EXTENDS Naturals

CONSTANTS Library,      \* the libraries that may be tracked
          Task,         \* requests under way at once
          NULL,         \* no library
          MaxAttempts,  \* MAX_REFRESH_ATTEMPTS
          Breaker,      \* CONSECUTIVE_FAILURE_BREAKER
          MaxVersion,   \* bound: versions told apart, more than are held at once
          MaxEvents     \* bound: edits, settings, resolutions, cycles, faults

VARIABLES names,      \* the version the database has of every library
          tracked,    \* the library of the settings, NULL when disabled
          cache,      \* AbleSetLibraryCache
          request,    \* the requests under way
          cycle,      \* the sync task and the cycle it runs
          nudges,     \* the channel of nudges, which holds one
          owed,       \* ghost: a nudge was sent since the last cycle began
          forgotten,  \* ghost: libraries written whose writer is gone
          events      \* events so far

vars == <<names, tracked, cache, request, cycle, nudges, owed, forgotten, events>>

Idle == [pc |-> "idle"]
Waiting == [pc |-> "select", wrote |-> {}, applied |-> FALSE, streak |-> 0]

Init == /\ names = [l \in Library |-> 1]
        /\ tracked = CHOOSE l \in Library : TRUE
        /\ cache = [library |-> NULL, entries |-> 0, generation |-> 0, cooling |-> FALSE]
        /\ request = [r \in Task |-> Idle]
        /\ cycle = Waiting
        /\ nudges = 0 /\ owed = FALSE /\ forgotten = {} /\ events = 0

Event == events < MaxEvents /\ events' = events + 1
Done(r) == request' = [request EXCEPT ![r] = Idle]
Begin(r, what) == /\ Event
                  /\ request[r] = Idle
                  /\ request' = [request EXCEPT ![r] = what]

Found == {request[r].found : r \in {q \in Task : request[q].pc \in {"fetch", "install"}}}
NewVersion(l) == CHOOSE v \in 1..MaxVersion : v \notin Found \union {names[l], cache.entries}

\* A write leaves a library with other songs, or with none.
Write(l) == \E v \in {0, NewVersion(l)} \ {names[l]} : names' = [names EXCEPT ![l] = v]

\* AbleSetLibraryCache.invalidate_entries: a rebuild under way must not land.
Cleared == [library |-> cache.library, entries |-> 0,
            generation |-> cache.generation + 1, cooling |-> FALSE]
Invalidate == cache' = Cleared /\ forgotten' = {}

-----------------------------------------------------------------------------
(* Edits and settings *)

Edit(r, l) ==
  /\ Begin(r, [pc |-> "nudge", library |-> l])
  /\ Write(l)
  /\ UNCHANGED <<tracked, cache, cycle, nudges, owed, forgotten>>

\* nudge_sync: the names first, then the task; a full channel will do.
Nudge(r) ==
  /\ request[r].pc = "nudge"
  /\ Invalidate
  /\ nudges' = 1 /\ owed' = TRUE
  /\ Done(r)
  /\ UNCHANGED <<names, tracked, cycle, events>>

\* The client goes away, or a later step of the handler fails, after an edit was committed.
Drop(r) ==
  /\ Event
  /\ request[r].pc = "nudge"
  /\ forgotten' = forgotten \union {request[r].library}
  /\ Done(r)
  /\ UNCHANGED <<names, tracked, cache, cycle, nudges, owed>>

UpdateSettings(r, l) ==
  /\ Begin(r, [pc |-> "store", library |-> l])
  /\ tracked' = l
  /\ UNCHANGED <<names, cache, cycle, nudges, owed, forgotten>>

\* AbleSetLibraryCache.invalidate
Forget(r) ==
  /\ request[r].pc = "store"
  /\ cache' = [Cleared EXCEPT !.library = NULL]
  /\ forgotten' = {}
  /\ Done(r)
  /\ UNCHANGED <<names, tracked, cycle, nudges, owed, events>>

-----------------------------------------------------------------------------
(* Resolving a number *)

NeedsRefresh(l) == cache.library # l \/ (cache.entries = 0 /\ ~cache.cooling)

\* ensure_ableset_cache, for the library tracked now; a number that needs no
\* rebuild is looked up and changes nothing.
Resolve(r) ==
  /\ tracked # NULL
  /\ NeedsRefresh(tracked)
  /\ Begin(r, [pc |-> "capture", library |-> tracked,
               generation |-> 0, found |-> 0, attempts |-> 1])
  /\ UNCHANGED <<names, tracked, cache, cycle, nudges, owed, forgotten>>

Capture(r) ==
  /\ request[r].pc = "capture"
  /\ request' = [request EXCEPT ![r] =
                    [@ EXCEPT !.generation = cache.generation, !.pc = "fetch"]]
  /\ UNCHANGED <<names, tracked, cache, cycle, nudges, owed, forgotten, events>>

Fetch(r) ==
  /\ request[r].pc = "fetch"
  /\ request' = [request EXCEPT ![r] =
                    [@ EXCEPT !.found = names[request[r].library], !.pc = "install"]]
  /\ UNCHANGED <<names, tracked, cache, cycle, nudges, owed, forgotten, events>>

InstallAlways(r) ==
  cache' = [cache EXCEPT !.library = request[r].library, !.entries = request[r].found]

\* install_if_current: nothing fetched before an invalidation lands after it;
\* that a rebuild found nothing is remembered either way.
InstallIfCurrent(r) ==
  LET current == cache.generation = request[r].generation
      none == request[r].found = 0
  IN  cache' = IF current
                 THEN [cache EXCEPT !.library = request[r].library,
                                    !.entries = request[r].found, !.cooling = @ \/ none]
                 ELSE [cache EXCEPT !.cooling = @ \/ none]

Install(r) ==
  /\ request[r].pc = "install"
  /\ InstallIfCurrent(r)
  /\ IF cache.generation = request[r].generation \/ request[r].attempts = MaxAttempts
       THEN Done(r)
       ELSE request' = [request EXCEPT ![r].pc = "capture", ![r].attempts = @ + 1]
  /\ UNCHANGED <<names, tracked, cycle, nudges, owed, forgotten, events>>

CoolDown ==
  /\ cache.cooling
  /\ cache' = [cache EXCEPT !.cooling = FALSE]
  /\ UNCHANGED <<names, tracked, request, cycle, nudges, owed, forgotten, events>>

-----------------------------------------------------------------------------
(* The sync task *)

\* The ticker or a nudge: a nudge waits for the rest of its burst.
Tick == /\ Event
        /\ cycle.pc = "select"
        /\ cycle' = [Waiting EXCEPT !.pc = "libraries"]
        /\ owed' = FALSE
        /\ UNCHANGED <<names, tracked, cache, request, nudges, forgotten>>

Receive == /\ cycle.pc = "select" /\ nudges = 1
           /\ nudges' = 0
           /\ cycle' = [Waiting EXCEPT !.pc = "debounce"]
           /\ UNCHANGED <<names, tracked, cache, request, owed, forgotten, events>>

Drain == /\ cycle.pc = "debounce"
         /\ nudges' = 0 /\ owed' = FALSE
         /\ cycle' = [cycle EXCEPT !.pc = "libraries"]
         /\ UNCHANGED <<names, tracked, cache, request, forgotten, events>>

\* A cycle that ends without dropping the caches leaves what it wrote behind.
Abort == /\ cycle' = Waiting
         /\ forgotten' = forgotten \union cycle.wrote
         /\ UNCHANGED cache

\* reconcile_libraries: a library renamed or trashed, or nothing, also when the
\* manifest of the libraries is lost.
Libraries ==
  /\ cycle.pc = "libraries"
  /\ \/ /\ \E l \in Library : Write(l) /\ cycle' = [cycle EXCEPT !.pc = "manifest", !.wrote = {l}]
        /\ Event
     \/ cycle' = [cycle EXCEPT !.pc = "manifest"] /\ UNCHANGED <<names, events>>
  /\ UNCHANGED <<tracked, cache, request, nudges, owed, forgotten>>

Manifest ==
  /\ cycle.pc = "manifest"
  /\ \/ /\ cycle' = [cycle EXCEPT !.pc = "songs"]
        /\ UNCHANGED <<cache, forgotten, events>>
     \/ Event /\ Abort
  /\ UNCHANGED <<names, tracked, request, nudges, owed>>

ApplySong ==
  /\ Event
  /\ cycle.pc = "songs"
  /\ \E l \in Library : /\ Write(l)
                        /\ cycle' = [cycle EXCEPT !.wrote = @ \union {l}, !.applied = TRUE,
                                                  !.streak = 0]
  /\ UNCHANGED <<tracked, cache, request, nudges, owed, forgotten>>

\* A song that fails by itself ends a streak of failures of the transport.
RefuseSong ==
  /\ Event
  /\ cycle.pc = "songs" /\ cycle.streak > 0
  /\ cycle' = [cycle EXCEPT !.streak = 0]
  /\ UNCHANGED <<names, tracked, cache, request, nudges, owed, forgotten>>

\* The breaker drops the caches for the songs applied, not for the libraries.
LoseSong ==
  /\ Event
  /\ cycle.pc = "songs"
  /\ IF cycle.streak + 1 < Breaker
       THEN cycle' = [cycle EXCEPT !.streak = @ + 1] /\ UNCHANGED <<cache, forgotten>>
       ELSE IF cycle.applied
              THEN cycle' = Waiting /\ Invalidate
              ELSE Abort
  /\ UNCHANGED <<names, tracked, request, nudges, owed>>

DropCaches == IF cycle.wrote # {} THEN Invalidate ELSE UNCHANGED <<cache, forgotten>>

EndDrained ==
  /\ cycle.pc = "songs"
  /\ DropCaches
  /\ cycle' = Waiting /\ nudges' = 0
  /\ UNCHANGED <<names, tracked, request, owed, events>>

EndCycle ==
  /\ cycle.pc = "songs"
  /\ DropCaches
  /\ cycle' = Waiting
  /\ UNCHANGED <<names, tracked, request, nudges, owed, events>>

Next == \/ \E r \in Task :
             \/ \E l \in Library : Edit(r, l) \/ UpdateSettings(r, l)
             \/ UpdateSettings(r, NULL)
             \/ Nudge(r) \/ Drop(r) \/ Forget(r)
             \/ Resolve(r) \/ Capture(r) \/ Fetch(r) \/ Install(r)
        \/ CoolDown
        \/ Tick \/ Receive \/ Drain
        \/ Libraries \/ Manifest \/ ApplySong \/ RefuseSong \/ LoseSong \/ EndCycle

Spec == Init /\ [][Next]_vars

-----------------------------------------------------------------------------
\* The names a number resolves to are the names the database has, unless who
\* changed it is about to say so, or never will: its client went away, or its
\* cycle wrote libraries and then lost the manifest or tripped the breaker.
NamesAreCurrent ==
  (cache.entries # 0 /\ cache.entries # names[cache.library])
    => \/ cache.library \in cycle.wrote \union forgotten
       \/ \E r \in Task : request[r].pc = "nudge" /\ request[r].library = cache.library

\* Every edit is followed by a cycle that began after it was made, however the
\* nudges of a burst, and of edits during a cycle, are merged.
NoNudgeLost == owed => nudges = 1 \/ cycle.pc = "debounce"
=============================================================================
