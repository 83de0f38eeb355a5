--------------------------- MODULE SongNamesProof ---------------------------
(***************************************************************************)
(* The names AbleSet resolves are the database's, and no nudge is lost,    *)
(* for any number of libraries and requests and whatever the bounds.       *)
(***************************************************************************)
EXTENDS SongNames, TLAPS

\* Somebody has changed library l and has yet to say so, or never will.
Excused(l) == \/ l \in cycle.wrote \union forgotten
              \/ \E r \in Task : request[r].pc = "nudge" /\ request[r].library = l

-----------------------------------------------------------------------------
\* The inductive invariant.

Resolving == {"capture", "fetch", "install"}

RequestOK(q) ==
  /\ q.pc \in {"nudge", "store"} => q = [pc |-> q.pc, library |-> q.library]
  /\ q.pc \in Resolving => q = [pc |-> q.pc, library |-> q.library,
                                generation |-> q.generation, found |-> q.found,
                                attempts |-> q.attempts]
  /\ q.pc \in Resolving => q.generation \in Nat /\ q.library \in Library

Types == /\ names = [l \in Library |-> names[l]]
         /\ tracked \in Library \union {NULL}
         /\ request = [r \in Task |-> request[r]]
         /\ \A r \in Task : RequestOK(request[r])
         /\ cache = [library |-> cache.library, entries |-> cache.entries,
                     generation |-> cache.generation, cooling |-> cache.cooling]
         /\ cache.generation \in Nat
         /\ cache.entries # 0 => cache.library \in Library
         /\ cycle = [pc |-> cycle.pc, wrote |-> cycle.wrote, applied |-> cycle.applied,
                     streak |-> cycle.streak]

\* Before its cycle comes to the libraries the task has written none.
NothingWritten == cycle.pc \in {"select", "debounce", "libraries"} => cycle.wrote = {}

\* A rebuild that may still be installed was begun no earlier than the last
\* invalidation, so that what it found is as good as what is cached.
RebuildsCurrent ==
  \A r \in Task :
    /\ request[r].pc \in {"fetch", "install"} => request[r].generation <= cache.generation
    /\ (/\ request[r].pc = "install" /\ request[r].generation = cache.generation
        /\ request[r].found # names[request[r].library]) => Excused(request[r].library)

IInv == Types /\ NothingWritten /\ RebuildsCurrent /\ NamesAreCurrent /\ NoNudgeLost

-----------------------------------------------------------------------------
THEOREM InitInv == ASSUME Library # {}, Init PROVE IInv
<1>1. Types
  BY DEF Init, Types, RequestOK, Resolving, Idle, Waiting
<1>2. NothingWritten /\ RebuildsCurrent /\ NamesAreCurrent /\ NoNudgeLost
  BY DEF Init, NothingWritten, RebuildsCurrent, NamesAreCurrent, NoNudgeLost, Idle, Waiting
<1> QED  BY <1>1, <1>2 DEF IInv

\* Where nothing is invalidated or installed, what was excused stays excused, and
\* a change of a library is excused by whoever made it.
Keeps == /\ cache'.library = cache.library /\ cache'.entries = cache.entries
         /\ cache'.generation = cache.generation
         /\ \A k \in Library : Excused(k) => Excused(k)'
         /\ \A k \in Library : names'[k] # names[k] => Excused(k)'
         /\ \A q \in Task : \/ request'[q] = request[q]
                            \/ request'[q].pc \notin {"fetch", "install"}
                            \/ /\ request'[q].generation <= cache.generation
                               /\ request'[q].pc = "install" =>
                                    request'[q].found = names'[request'[q].library]

LEMMA KeepsCurrent == ASSUME IInv, Types', Keeps PROVE RebuildsCurrent' /\ NamesAreCurrent'
<1>1. RebuildsCurrent'
  BY DEF IInv, Types, RequestOK, Resolving, Keeps, RebuildsCurrent
<1>2. NamesAreCurrent'
  BY DEF IInv, Types, Keeps, NamesAreCurrent, Excused
<1> QED  BY <1>1, <1>2

\* Invalidation empties the cache and outdates every rebuild under way.
Empties == /\ cache'.entries = 0 /\ cache'.generation = cache.generation + 1
           /\ \A q \in Task : \/ request'[q] = request[q]
                              \/ request'[q].pc \notin {"fetch", "install"}

LEMMA EmptiesCurrent == ASSUME IInv, Types', Empties PROVE RebuildsCurrent' /\ NamesAreCurrent'
BY DEF IInv, Types, RequestOK, Resolving, Empties, RebuildsCurrent, NamesAreCurrent

\* One request goes on, or ends.
LEMMA OthersStay ==
  ASSUME IInv, NEW r \in Task, NEW q, request' = [request EXCEPT ![r] = q], RequestOK(q)
  PROVE  /\ request' = [t \in Task |-> request'[t]] /\ request'[r] = q
         /\ \A t \in Task \ {r} : request'[t] = request[t]
         /\ \A t \in Task : RequestOK(request'[t])
BY DEF IInv, Types

LEMMA IdleOK == RequestOK(Idle)
BY DEF RequestOK, Idle, Resolving

-----------------------------------------------------------------------------
\* Edits and settings.

LEMMA EditInv == ASSUME IInv, NEW r \in Task, NEW l \in Library, Edit(r, l) PROVE IInv'
<1>1. /\ request' = [request EXCEPT ![r] = [pc |-> "nudge", library |-> l]]
      /\ names' = [names EXCEPT ![l] = names'[l]]
      /\ request[r] = Idle
      /\ UNCHANGED <<tracked, cache, cycle, nudges, owed, forgotten>>
  BY DEF Edit, Begin, Write, IInv, Types
<1>2. Types'
  BY <1>1 DEF IInv, Types, RequestOK, Resolving
<1>3. Keeps
  BY <1>1 DEF IInv, Types, Keeps, Excused, Idle
<1>4. RebuildsCurrent' /\ NamesAreCurrent'
  BY <1>2, <1>3, KeepsCurrent
<1> QED  BY <1>1, <1>2, <1>4 DEF IInv, NothingWritten, NoNudgeLost

LEMMA NudgeInv == ASSUME IInv, NEW r \in Task, Nudge(r) PROVE IInv'
<1>1. Types'
  BY DEF Nudge, Invalidate, Cleared, Done, Idle, IInv, Types, RequestOK, Resolving
<1>2. Empties
  BY DEF Nudge, Invalidate, Cleared, Done, Idle, IInv, Types, Empties
<1>3. RebuildsCurrent' /\ NamesAreCurrent'
  BY <1>1, <1>2, EmptiesCurrent
<1> QED  BY <1>1, <1>3 DEF Nudge, IInv, NothingWritten, NoNudgeLost

LEMMA DropInv == ASSUME IInv, NEW r \in Task, Drop(r) PROVE IInv'
<1>1. Types'
  BY DEF Drop, Done, Idle, IInv, Types, RequestOK, Resolving
<1>2. Keeps
  BY DEF Drop, Done, Idle, IInv, Types, Keeps, Excused
<1>3. RebuildsCurrent' /\ NamesAreCurrent'
  BY <1>1, <1>2, KeepsCurrent
<1> QED  BY <1>1, <1>3 DEF Drop, IInv, NothingWritten, NoNudgeLost

LEMMA UpdateSettingsInv ==
  ASSUME IInv, NEW r \in Task, NEW l \in Library \union {NULL}, UpdateSettings(r, l) PROVE IInv'
<1>1. Types'
  BY DEF UpdateSettings, Begin, Idle, IInv, Types, RequestOK, Resolving
<1>2. Keeps
  BY DEF UpdateSettings, Begin, Idle, IInv, Types, Keeps, Excused
<1>3. RebuildsCurrent' /\ NamesAreCurrent'
  BY <1>1, <1>2, KeepsCurrent
<1> QED  BY <1>1, <1>3 DEF UpdateSettings, IInv, NothingWritten, NoNudgeLost

LEMMA ForgetInv == ASSUME IInv, NEW r \in Task, Forget(r) PROVE IInv'
<1>0. cache' = [library |-> NULL, entries |-> 0, generation |-> cache.generation + 1,
                cooling |-> FALSE]
  BY DEF Forget, Cleared
<1>1. Types'
  <2>1. /\ request' = [t \in Task |-> request'[t]]
        /\ \A t \in Task : RequestOK(request'[t])
    BY OthersStay, IdleOK DEF Forget, Done
  <2>2. UNCHANGED <<names, tracked, cycle>>
    BY DEF Forget
  <2> QED  BY <1>0, <2>1, <2>2 DEF IInv, Types
<1>2. Empties
  BY DEF Forget, Cleared, Done, Idle, IInv, Types, Empties
<1>3. RebuildsCurrent' /\ NamesAreCurrent'
  BY <1>1, <1>2, EmptiesCurrent
<1> QED  BY <1>1, <1>3 DEF Forget, IInv, NothingWritten, NoNudgeLost

-----------------------------------------------------------------------------
\* Resolving a number.

LEMMA ResolveInv == ASSUME IInv, NEW r \in Task, Resolve(r) PROVE IInv'
<1>1. Types'
  BY DEF Resolve, Begin, Idle, IInv, Types, RequestOK, Resolving
<1>2. Keeps
  BY DEF Resolve, Begin, Idle, IInv, Types, Keeps, Excused
<1>3. RebuildsCurrent' /\ NamesAreCurrent'
  BY <1>1, <1>2, KeepsCurrent
<1> QED  BY <1>1, <1>3 DEF Resolve, IInv, NothingWritten, NoNudgeLost

LEMMA CaptureInv == ASSUME IInv, NEW r \in Task, Capture(r) PROVE IInv'
<1>1. request'[r] = [pc |-> "fetch", library |-> request[r].library,
                     generation |-> cache.generation, found |-> request[r].found,
                     attempts |-> request[r].attempts]
  <2>1. request'[r] = [request[r] EXCEPT !.generation = cache.generation, !.pc = "fetch"]
    BY DEF Capture, IInv, Types
  <2>2. request[r] = [pc |-> request[r].pc, library |-> request[r].library,
                      generation |-> request[r].generation, found |-> request[r].found,
                      attempts |-> request[r].attempts]
    BY DEF Capture, IInv, Types, RequestOK, Resolving
  <2> QED  BY <2>1, <2>2
<1>2. Types'
  BY <1>1 DEF Capture, IInv, Types, RequestOK, Resolving
<1>3. Keeps
  BY <1>1 DEF Capture, IInv, Types, Keeps, Excused
<1>4. RebuildsCurrent' /\ NamesAreCurrent'
  BY <1>2, <1>3, KeepsCurrent
<1> QED  BY <1>2, <1>4 DEF Capture, IInv, NothingWritten, NoNudgeLost

LEMMA FetchInv == ASSUME IInv, NEW r \in Task, Fetch(r) PROVE IInv'
<1> DEFINE old == request[r]
           new == [pc |-> "install", library |-> old.library, generation |-> old.generation,
                   found |-> names[old.library], attempts |-> old.attempts]
<1>1. old.pc = "fetch" /\ UNCHANGED <<names, tracked, cache, cycle, nudges, owed, forgotten>>
  BY DEF Fetch
<1>2. old.generation \in Nat /\ old.library \in Library /\ old.generation <= cache.generation
  BY <1>1 DEF IInv, Types, RequestOK, Resolving, RebuildsCurrent
<1>3. request' = [request EXCEPT ![r] = new]
  <2>1. request' = [request EXCEPT ![r] =
                      [old EXCEPT !.found = names[old.library], !.pc = "install"]]
    BY DEF Fetch
  <2>2. old = [pc |-> old.pc, library |-> old.library, generation |-> old.generation,
               found |-> old.found, attempts |-> old.attempts]
    BY <1>1 DEF IInv, Types, RequestOK, Resolving
  <2> DEFINE mid == [old EXCEPT !.found = names[old.library]]
  <2>3. mid = [pc |-> old.pc, library |-> old.library, generation |-> old.generation,
               found |-> names[old.library], attempts |-> old.attempts]
    BY <2>2
  <2>4. [mid EXCEPT !.pc = "install"] = new
    <3> HIDE DEF mid
    <3> QED  BY <2>3
  <2> QED  BY <2>1, <2>4
<1>4. RequestOK(new)
  BY <1>2 DEF RequestOK, Resolving
<1> HIDE DEF new
<1>5. /\ request' = [t \in Task |-> request'[t]] /\ request'[r] = new
      /\ \A t \in Task \ {r} : request'[t] = request[t]
      /\ \A t \in Task : RequestOK(request'[t])
  BY <1>3, <1>4, OthersStay
<1>6. Types'
  BY <1>1, <1>5 DEF IInv, Types
<1>7. Keeps
  BY <1>1, <1>2, <1>5 DEF Keeps, Excused, new
<1>8. RebuildsCurrent' /\ NamesAreCurrent'
  BY <1>6, <1>7, KeepsCurrent
<1> QED  BY <1>1, <1>6, <1>8 DEF IInv, NothingWritten, NoNudgeLost

\* What lands was found since the last invalidation: it is as good as excused.
LEMMA InstallInv == ASSUME IInv, NEW r \in Task, Install(r) PROVE IInv'
<1>1. \/ request' = [request EXCEPT ![r] = Idle]
      \/ request' = [request EXCEPT ![r] =
           [pc |-> "capture", library |-> request[r].library,
            generation |-> request[r].generation, found |-> request[r].found,
            attempts |-> request[r].attempts + 1]]
  BY DEF Install, Done, IInv, Types, RequestOK, Resolving
<1>2. cache' = [library |-> cache'.library, entries |-> cache'.entries,
                generation |-> cache.generation, cooling |-> cache'.cooling]
  BY DEF Install, InstallIfCurrent, IInv, Types
<1>3. \/ cache'.library = cache.library /\ cache'.entries = cache.entries
      \/ /\ cache.generation = request[r].generation
         /\ cache'.library = request[r].library /\ cache'.entries = request[r].found
  BY DEF Install, InstallIfCurrent, IInv, Types
<1>4. request[r].pc = "install" /\ UNCHANGED <<names, tracked, cycle, nudges, owed, forgotten>>
  BY DEF Install
<1>5. Types'
  BY <1>1, <1>2, <1>3, <1>4 DEF IInv, Types, RequestOK, Resolving, Idle
<1>6. \A k : Excused(k)' <=> Excused(k)
  BY <1>1, <1>4 DEF IInv, Types, Excused, Idle
<1>7. RebuildsCurrent'
  BY <1>1, <1>2, <1>4, <1>6 DEF IInv, Types, RebuildsCurrent, Idle
<1>8. NamesAreCurrent'
  BY <1>3, <1>4, <1>6 DEF IInv, RebuildsCurrent, NamesAreCurrent, Excused
<1> QED  BY <1>4, <1>5, <1>7, <1>8 DEF IInv, NothingWritten, NoNudgeLost

LEMMA CoolDownInv == ASSUME IInv, CoolDown PROVE IInv'
<1>1. Types'
  BY DEF CoolDown, IInv, Types
<1>2. Keeps
  BY DEF CoolDown, IInv, Types, Keeps, Excused
<1>3. RebuildsCurrent' /\ NamesAreCurrent'
  BY <1>1, <1>2, KeepsCurrent
<1> QED  BY <1>1, <1>3 DEF CoolDown, IInv, NothingWritten, NoNudgeLost

-----------------------------------------------------------------------------
\* The sync task.

\* A step of the task that invalidates nothing.
LEMMA CycleInv ==
  ASSUME IInv, UNCHANGED <<tracked, request>>, UNCHANGED cache,
         names' = [l \in Library |-> names'[l]],
         cycle' = [pc |-> cycle'.pc, wrote |-> cycle'.wrote, applied |-> cycle'.applied,
                   streak |-> cycle'.streak],
         cycle.wrote \union forgotten \subseteq cycle'.wrote \union forgotten',
         \A l \in Library : names'[l] # names[l] => l \in cycle'.wrote,
         NothingWritten', NoNudgeLost'
  PROVE  IInv'
<1>1. Types'
  BY DEF IInv, Types, RequestOK
<1>2. Keeps
  BY DEF IInv, Types, Keeps, Excused
<1>3. RebuildsCurrent' /\ NamesAreCurrent'
  BY <1>1, <1>2, KeepsCurrent
<1> QED  BY <1>1, <1>3 DEF IInv

LEMMA WaitInv == ASSUME IInv, Tick \/ Receive \/ Drain PROVE IInv'
<1>1. NothingWritten' /\ NoNudgeLost'
  BY DEF Tick, Receive, Drain, Waiting, IInv, Types, NothingWritten, NoNudgeLost
<1>2. cycle' = [pc |-> cycle'.pc, wrote |-> cycle'.wrote, applied |-> cycle'.applied,
                streak |-> cycle'.streak]
      /\ cycle.wrote \union forgotten \subseteq cycle'.wrote \union forgotten'
  BY DEF Tick, Receive, Drain, Waiting, IInv, Types, NothingWritten
<1>3. UNCHANGED <<names, tracked, cache, request, forgotten>>
  BY DEF Tick, Receive, Drain
<1> QED  BY <1>1, <1>2, <1>3, CycleInv DEF IInv, Types

LEMMA LibrariesInv == ASSUME IInv, Libraries PROVE IInv'
<1>1. NothingWritten' /\ NoNudgeLost'
  BY DEF Libraries, IInv, Types, NothingWritten, NoNudgeLost
<1>2. cycle' = [pc |-> cycle'.pc, wrote |-> cycle'.wrote, applied |-> cycle'.applied,
                streak |-> cycle'.streak]
      /\ cycle.wrote \union forgotten \subseteq cycle'.wrote \union forgotten'
  BY DEF Libraries, IInv, Types, NothingWritten
<1>3. /\ names' = [l \in Library |-> names'[l]]
      /\ \A l \in Library : names'[l] # names[l] => l \in cycle'.wrote
  BY DEF Libraries, Write, IInv, Types
<1> QED  BY <1>1, <1>2, <1>3, CycleInv DEF Libraries

LEMMA SongInv == ASSUME IInv, ApplySong \/ RefuseSong PROVE IInv'
<1>0. cycle.pc = "songs" /\ cycle'.pc = "songs" /\ UNCHANGED <<owed, nudges>>
  BY DEF ApplySong, RefuseSong, IInv, Types
<1>1. NothingWritten' /\ NoNudgeLost'
  BY <1>0 DEF IInv, NothingWritten, NoNudgeLost
<1>2. cycle' = [pc |-> cycle'.pc, wrote |-> cycle'.wrote, applied |-> cycle'.applied,
                streak |-> cycle'.streak]
      /\ cycle.wrote \union forgotten \subseteq cycle'.wrote \union forgotten'
  BY DEF ApplySong, RefuseSong, IInv, Types
<1>3. /\ names' = [l \in Library |-> names'[l]]
      /\ \A l \in Library : names'[l] # names[l] => l \in cycle'.wrote
  BY DEF ApplySong, RefuseSong, Write, IInv, Types
<1> QED  BY <1>1, <1>2, <1>3, CycleInv DEF ApplySong, RefuseSong

\* A cycle that ends early leaves what it wrote to be excused, ...
LEMMA AbortInv ==
  ASSUME IInv, Abort, UNCHANGED <<names, tracked, request, nudges, owed>>,
         cycle.pc \in {"manifest", "songs"}
  PROVE  IInv'
<1>1. NothingWritten' /\ NoNudgeLost'
  BY DEF Abort, Waiting, IInv, NothingWritten, NoNudgeLost
<1> QED  BY <1>1, CycleInv DEF Abort, Waiting, IInv, Types

\* ... or drops the caches.
LEMMA InvalidateInv ==
  ASSUME IInv, Invalidate, cycle' = Waiting, cycle.pc = "songs",
         UNCHANGED <<names, tracked, request, nudges, owed>>
  PROVE  IInv'
<1>1. Types'
  BY DEF Invalidate, Cleared, Waiting, IInv, Types, RequestOK
<1>2. Empties
  BY DEF Invalidate, Cleared, IInv, Types, Empties
<1>3. RebuildsCurrent' /\ NamesAreCurrent'
  BY <1>1, <1>2, EmptiesCurrent
<1>4. NothingWritten' /\ NoNudgeLost'
  BY DEF Waiting, IInv, NothingWritten, NoNudgeLost
<1> QED  BY <1>1, <1>3, <1>4 DEF IInv

LEMMA GoOnInv ==
  ASSUME IInv, UNCHANGED <<names, tracked, request, nudges, owed, cache, forgotten>>,
         cycle.pc \in {"manifest", "songs"},
         \/ cycle' = [cycle EXCEPT !.pc = "songs"] \/ cycle' = [cycle EXCEPT !.streak = @ + 1]
         \/ cycle' = Waiting /\ cycle.wrote = {}
  PROVE  IInv'
<1>1. NothingWritten' /\ NoNudgeLost'
  BY DEF Waiting, IInv, Types, NothingWritten, NoNudgeLost
<1>2. cycle' = [pc |-> cycle'.pc, wrote |-> cycle'.wrote, applied |-> cycle'.applied,
                streak |-> cycle'.streak]
      /\ cycle.wrote \union forgotten \subseteq cycle'.wrote \union forgotten'
  BY DEF Waiting, IInv, Types
<1> QED  BY <1>1, <1>2, CycleInv DEF IInv, Types

LEMMA ManifestInv == ASSUME IInv, Manifest PROVE IInv'
BY AbortInv, GoOnInv DEF Manifest

LEMMA LoseSongInv == ASSUME IInv, LoseSong PROVE IInv'
BY AbortInv, InvalidateInv, GoOnInv DEF LoseSong

LEMMA EndCycleInv == ASSUME IInv, EndCycle PROVE IInv'
BY InvalidateInv, GoOnInv DEF EndCycle, DropCaches

-----------------------------------------------------------------------------

THEOREM StepInv == ASSUME IInv, [Next]_vars PROVE IInv'
<1>1. CASE UNCHANGED vars
  BY <1>1 DEF vars, IInv, Types, RequestOK, NothingWritten, RebuildsCurrent, Excused,
              NamesAreCurrent, NoNudgeLost
<1>2. ASSUME NEW r \in Task, NEW l \in Library, Edit(r, l) \/ UpdateSettings(r, l) PROVE IInv'
  BY <1>2, EditInv, UpdateSettingsInv
<1>3. ASSUME NEW r \in Task, UpdateSettings(r, NULL) PROVE IInv'
  BY <1>3, UpdateSettingsInv
<1>4. ASSUME NEW r \in Task, Nudge(r) \/ Drop(r) \/ Forget(r) PROVE IInv'
  BY <1>4, NudgeInv, DropInv, ForgetInv
<1>5. ASSUME NEW r \in Task, Resolve(r) \/ Capture(r) \/ Fetch(r) \/ Install(r) PROVE IInv'
  BY <1>5, ResolveInv, CaptureInv, FetchInv, InstallInv
<1>6. CASE CoolDown \/ Tick \/ Receive \/ Drain
  BY <1>6, CoolDownInv, WaitInv
<1>7. CASE \/ Libraries \/ Manifest \/ ApplySong \/ RefuseSong \/ LoseSong \/ EndCycle
  BY <1>7, LibrariesInv, ManifestInv, SongInv, LoseSongInv, EndCycleInv
<1> QED  BY <1>1, <1>2, <1>3, <1>4, <1>5, <1>6, <1>7 DEF Next

\* An AbleSet number never resolves by a name the database no longer has once
\* who changed it has said so (state/ableset.rs).
THEOREM NamesStayCurrent == ASSUME Library # {} PROVE Spec => []NamesAreCurrent
<1>1. IInv => NamesAreCurrent
  BY DEF IInv
<1> QED  BY InitInv, StepInv, <1>1, PTL DEF Spec

\* No edit goes without a sync cycle that begins after it, if it was nudged for
\* at all (state/sync.rs).
THEOREM NudgesAreServed == ASSUME Library # {} PROVE Spec => []NoNudgeLost
<1>1. IInv => NoNudgeLost
  BY DEF IInv
<1> QED  BY InitInv, StepInv, <1>1, PTL DEF Spec
=============================================================================
