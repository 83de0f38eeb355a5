------------------------------ MODULE SongSync ------------------------------
(***************************************************************************)
(* Song synchronisation between Presenter instances (#555, #578, #647).    *)
(*                                                                         *)
(* Every site keeps its own database of libraries, songs and playlist      *)
(* references, which its operators change at any time, and runs a pull     *)
(* cycle against its peer: it reconciles the peer's libraries first, reads *)
(* its own song clocks, reads the peer's song manifest, then fetches and   *)
(* applies, one by one, the songs whose peer clock is newer.  Nothing is   *)
(* locked between those steps, so operators on both sides, and the peer's  *)
(* own cycle, interleave with all of them.  Requests may fail and a site   *)
(* may crash; the database survives, the cycle does not.                   *)
(*                                                                         *)
(* Each database write is one action, because each is one transaction of   *)
(* the code.  `clock' is the time both hosts agree on (they run NTP); an   *)
(* action that calls Utc::now() takes the current value and advances it,   *)
(* so no two writes share a timestamp.  That value also serves as the      *)
(* fresh random sync_id the same write generates.                          *)
(***************************************************************************)
EXTENDS SongRows

CONSTANTS
  Site,        \* the instances
  Peer,        \* the instance a site pulls from (PRESENTER_SYNC_PEER_URL)
  Ops,         \* the local operations the operators use
  MaxEdits,    \* bound on the clock for local operations
  MaxClock,    \* bound on the clock for the writes of the sync cycle itself
  MaxSuffix,   \* bound on the number of names tried for a taken name
  MaxFaults    \* bound on failed requests and crashes

ASSUME PeerAssumption == Peer \in [Site -> Site]
ASSUME BoundAssumption == /\ MaxEdits \in Nat /\ MaxClock \in Nat
                          /\ MaxSuffix \in Nat /\ MaxFaults \in Nat

VARIABLES
  clock,     \* the next timestamp
  lib,       \* lib[s]: the libraries table of s
  song,      \* song[s]: the presentations table of s
  plist,     \* plist[s]: the songs the playlists of s refer to
  pc,        \* pc[s]: where the cycle of s stands
  libTodo,   \* libTodo[s]: the peer's libraries still to be applied
  seen,      \* seen[s]: the songs of s as read before the manifest
  songTodo,  \* songTodo[s]: the manifest entries still to be fetched
  peerIds,   \* peerIds[s]: every identity the peer's manifest reported
  asked,     \* asked[s]: the peer's row the answer under way is read from
  got,       \* got[s]: the song the peer answers with, if any
  streak,    \* streak[s]: consecutive transport failures
  pruning,   \* pruning[s]: between the two prunes of the trash task
  faults     \* failures so far

db == <<lib, song, plist>>
cycle == <<pc, libTodo, seen, songTodo, peerIds, asked, got, streak>>
vars == <<clock, db, cycle, pruning, faults>>

EmptyCycle(s) == /\ libTodo' = [libTodo EXCEPT ![s] = EmptyTable]
                 /\ seen' = [seen EXCEPT ![s] = EmptyTable]
                 /\ songTodo' = [songTodo EXCEPT ![s] = EmptyTable]
                 /\ peerIds' = [peerIds EXCEPT ![s] = {}]
                 /\ asked' = [asked EXCEPT ![s] = NULL]
                 /\ got' = [got EXCEPT ![s] = {}]
                 /\ streak' = [streak EXCEPT ![s] = 0]

\* A fresh installation on every site.
Init == /\ clock = 1
        /\ lib = [s \in Site |-> EmptyTable]
        /\ song = [s \in Site |-> EmptyTable]
        /\ plist = [s \in Site |-> {}]
        /\ pc = [s \in Site |-> "idle"]
        /\ libTodo = [s \in Site |-> EmptyTable]
        /\ seen = [s \in Site |-> EmptyTable]
        /\ songTodo = [s \in Site |-> EmptyTable]
        /\ peerIds = [s \in Site |-> {}]
        /\ asked = [s \in Site |-> NULL]
        /\ got = [s \in Site |-> {}]
        /\ streak = [s \in Site |-> 0]
        /\ pruning = [s \in Site |-> FALSE]
        /\ faults = 0

-----------------------------------------------------------------------------
(* Local operations.  Each stamps its rows with now(). *)

\* An operation of the operators, at a time within the bound.
Operate(op) == /\ op \in Ops
               /\ clock < MaxEdits
               /\ clock' = clock + 1
               /\ UNCHANGED <<cycle, pruning, faults>>

SetLib(s, L) == lib' = [lib EXCEPT ![s] = L]
SetSong(s, S) == song' = [song EXCEPT ![s] = S]
DropRefs(s, I) == plist' = [plist EXCEPT ![s] = @ \ I]

CreateLibrary(s, b) ==
  /\ Operate("create_library")
  /\ LiveNamed(lib[s], Plain(b)) = {}
  /\ \E i \in Id :
       /\ IsNext(i, lib[s])
       /\ SetLib(s, Put(lib[s], i, [sid |-> clock, name |-> Plain(b),
                                    upd |-> clock, del |-> NULL]))
  /\ UNCHANGED <<song, plist>>

RenameLibrary(s, l, b) ==
  /\ Operate("rename_library")
  /\ l \in Live(lib[s])
  /\ LiveNamed(lib[s], Plain(b)) \subseteq {l}
  /\ SetLib(s, Put(lib[s], l, [lib[s][l] EXCEPT !.name = Plain(b),
                                                !.upd = clock]))
  /\ UNCHANGED <<song, plist>>

TrashCascade(s, l) ==
  LET cascade == {i \in Live(song[s]) : song[s][i].lib = l}
  IN  [i \in DOMAIN song[s] |->
         IF i \in cascade THEN [song[s][i] EXCEPT !.del = clock, !.upd = clock]
                          ELSE song[s][i]]

\* Faulty: the playlists keep their references to the songs of the library.
DeleteLibraryKeepsEntries(s, l) ==
  /\ Operate("delete_library")
  /\ l \in Live(lib[s])
  /\ SetLib(s, Put(lib[s], l, [lib[s][l] EXCEPT !.del = clock, !.upd = clock]))
  /\ SetSong(s, TrashCascade(s, l))
  /\ UNCHANGED plist

\* The library and every live song of it get the same tombstone time.
DeleteLibrary(s, l) ==
  /\ Operate("delete_library")
  /\ l \in Live(lib[s])
  /\ SetLib(s, Put(lib[s], l, [lib[s][l] EXCEPT !.del = clock, !.upd = clock]))
  /\ SetSong(s, TrashCascade(s, l))
  /\ DropRefs(s, {i \in Live(song[s]) : song[s][i].lib = l})

\* The songs the deletion of library l took along are those that carry its
\* tombstone time.
Cascaded(s, l) == {i \in Dead(song[s]) : /\ song[s][i].lib = l
                                         /\ song[s][i].del = lib[s][l].del}

\* Faulty: the songs that come back keep their clocks.
RestoreLibraryUnstamped(s, l) ==
  /\ Operate("restore_library")
  /\ l \in Dead(lib[s])
  /\ LiveNamed(lib[s], lib[s][l].name) = {}
  /\ SetLib(s, Put(lib[s], l, [lib[s][l] EXCEPT !.del = NULL, !.upd = clock]))
  /\ SetSong(s, [i \in DOMAIN song[s] |->
                   IF i \in Cascaded(s, l) THEN [song[s][i] EXCEPT !.del = NULL]
                                           ELSE song[s][i]])
  /\ UNCHANGED plist

RestoreLibrary(s, l) ==
  /\ Operate("restore_library")
  /\ l \in Dead(lib[s])
  /\ LiveNamed(lib[s], lib[s][l].name) = {}
  /\ SetLib(s, Put(lib[s], l, [lib[s][l] EXCEPT !.del = NULL, !.upd = clock]))
  /\ SetSong(s, [i \in DOMAIN song[s] |->
                   IF i \in Cascaded(s, l)
                   THEN [song[s][i] EXCEPT !.del = NULL, !.upd = clock]
                   ELSE song[s][i]])
  /\ UNCHANGED plist

\* Only the foreign key restricts the library: it may be a tombstone.
CreateSong(s, l, n) ==
  /\ Operate("create_presentation")
  /\ l \in DOMAIN lib[s]
  /\ \E i \in Id :
       /\ IsNext(i, song[s])
       /\ SetSong(s, Put(song[s], i,
                         [sid |-> clock, lib |-> l, name |-> n, text |-> clock,
                          upd |-> clock, del |-> NULL]))
  /\ UNCHANGED <<lib, plist>>

CopySong(s, i, l) ==
  /\ Operate("copy_presentation")
  /\ i \in Live(song[s])
  /\ l \in DOMAIN lib[s]
  /\ \E k \in Id :
       /\ IsNext(k, song[s])
       /\ SetSong(s, Put(song[s], k, [song[s][i] EXCEPT !.sid = clock,
                                                        !.lib = l,
                                                        !.upd = clock]))
  /\ UNCHANGED <<lib, plist>>

\* Faulty: the edit replaces the slides and does not touch updated_at.
EditSongUnstamped(s, i) ==
  /\ Operate("edit_slides")
  /\ i \in DOMAIN song[s]
  /\ SetSong(s, Put(song[s], i, [song[s][i] EXCEPT !.text = clock]))
  /\ UNCHANGED <<lib, plist>>

\* The write of an edit carries no deleted_at filter, and the read before it
\* is a transaction of its own: the row may be a tombstone by now.
EditSong(s, i) ==
  /\ Operate("edit_slides")
  /\ i \in DOMAIN song[s]
  /\ SetSong(s, Put(song[s], i, [song[s][i] EXCEPT !.text = clock,
                                                   !.upd = clock]))
  /\ UNCHANGED <<lib, plist>>

RenameSong(s, i, n) ==
  /\ Operate("rename_presentation")
  /\ i \in DOMAIN song[s]
  /\ SetSong(s, Put(song[s], i, [song[s][i] EXCEPT !.name = n,
                                                   !.upd = clock]))
  /\ UNCHANGED <<lib, plist>>

\* Faulty: the deletion does not touch updated_at.
DeleteSongUnstamped(s, i) ==
  /\ Operate("delete_presentation")
  /\ i \in Live(song[s])
  /\ SetSong(s, Put(song[s], i, [song[s][i] EXCEPT !.del = clock]))
  /\ DropRefs(s, {i})
  /\ UNCHANGED lib

DeleteSong(s, i) ==
  /\ Operate("delete_presentation")
  /\ i \in Live(song[s])
  /\ SetSong(s, Put(song[s], i, [song[s][i] EXCEPT !.del = clock,
                                                   !.upd = clock]))
  /\ DropRefs(s, {i})
  /\ UNCHANGED lib

RestoreSong(s, i) ==
  /\ Operate("restore_presentation")
  /\ i \in Dead(song[s])
  /\ song[s][i].lib \in Live(lib[s])
  /\ SetSong(s, Put(song[s], i, [song[s][i] EXCEPT !.del = NULL,
                                                   !.upd = clock]))
  /\ UNCHANGED <<lib, plist>>

\* A playlist is replaced as a whole; its entries must be live songs.
ReplacePlaylist(s, I) ==
  /\ "replace_playlist_entries" \in Ops
  /\ I \subseteq Live(song[s])
  /\ plist' = [plist EXCEPT ![s] = I]
  /\ UNCHANGED <<clock, lib, song, cycle, pruning, faults>>

-----------------------------------------------------------------------------
(* The trash task: songs first, then libraries, in two transactions. *)

Expired(T) == {i \in Dead(T) : T[i].del + Horizon < clock}

PruneSongs(s) ==
  /\ "prune" \in Ops
  /\ ~pruning[s]
  /\ SetSong(s, Without(song[s], Expired(song[s])))
  /\ DropRefs(s, Expired(song[s]))
  /\ pruning' = [pruning EXCEPT ![s] = TRUE]
  /\ UNCHANGED <<clock, lib, cycle, faults>>

\* Faulty: the songs under a pruned library stay behind.
PruneLibrariesOnly(s) ==
  /\ pruning[s]
  /\ SetLib(s, Without(lib[s], Expired(lib[s])))
  /\ pruning' = [pruning EXCEPT ![s] = FALSE]
  /\ UNCHANGED <<clock, song, plist, cycle, faults>>

\* The foreign keys take the songs that are still under a pruned library, and
\* their playlist references, along.
PruneLibraries(s) ==
  /\ pruning[s]
  /\ LET gone == {i \in DOMAIN song[s] : song[s][i].lib \in Expired(lib[s])}
     IN  /\ SetLib(s, Without(lib[s], Expired(lib[s])))
         /\ SetSong(s, Without(song[s], gone))
         /\ DropRefs(s, gone)
  /\ pruning' = [pruning EXCEPT ![s] = FALSE]
  /\ UNCHANGED <<clock, cycle, faults>>

\* Time passes without a write.
Elapse == /\ "elapse" \in Ops
          /\ clock < MaxEdits
          /\ clock' = clock + 1
          /\ UNCHANGED <<db, cycle, pruning, faults>>

-----------------------------------------------------------------------------
(* The pull cycle: libraries. *)

Idle(s) == pc[s] = "idle"
Goto(s, step) == pc' = [pc EXCEPT ![s] = step]
Fault == /\ faults < MaxFaults
         /\ faults' = faults + 1

\* A timer tick or a nudge starts a cycle with the peer's library manifest.
FetchLibraries(s) ==
  /\ Idle(s)
  /\ Goto(s, "libraries")
  /\ libTodo' = [libTodo EXCEPT ![s] = lib[Peer[s]]]
  /\ UNCHANGED <<clock, db, seen, songTodo, peerIds, asked, got, streak,
                 pruning, faults>>

\* Without a library manifest the cycle goes on with the songs.
MissLibraries(s) ==
  /\ Idle(s)
  /\ Fault
  /\ Goto(s, "libraries")
  /\ UNCHANGED <<clock, db, libTodo, seen, songTodo, peerIds, asked, got, streak,
                 pruning>>

\* The rest of a step that applies the library w, entry e of the manifest.
TakeLibrary(s, e) ==
  /\ libTodo' = [libTodo EXCEPT ![s] = Without(@, {e})]
  /\ UNCHANGED <<song, plist, pc, seen, songTodo, peerIds, asked, got, streak,
                 pruning, faults>>

\* Faulty: the peer's library is written whichever side is newer.
UpdateLibraryUngated(s, w, i) ==
  /\ i \in BySid(lib[s], w.sid)
  /\ LiveNamed(lib[s], w.name) \subseteq {i}
  /\ SetLib(s, Put(lib[s], i, w))
  /\ UNCHANGED clock

\* apply_sync_library, 1: the identity is known.
UpdateLibrary(s, w, i) ==
  /\ i \in BySid(lib[s], w.sid)
  /\ w.upd > lib[s][i].upd
  /\ \/ /\ w.del # NULL
        /\ SetLib(s, Put(lib[s], i, w))
        /\ UNCHANGED clock
     \/ /\ w.del = NULL
        /\ \E k \in 1 .. MaxSuffix :
             /\ IsFreeName(lib[s], i, w.name, k)
             /\ IF k = 1
                THEN /\ SetLib(s, Put(lib[s], i, w))
                     /\ UNCHANGED clock
                ELSE /\ clock < MaxClock
                     /\ SetLib(s, Put(lib[s], i,
                                      [w EXCEPT !.name = Candidate(w.name, k),
                                                !.upd = clock]))
                     /\ clock' = clock + 1

\* apply_sync_library, 2: a live library of that name takes the identity.
AdoptLibrary(s, w, i) ==
  /\ BySid(lib[s], w.sid) = {}
  /\ w.del = NULL
  /\ i \in LiveNamed(lib[s], w.name)
  /\ w.upd > lib[s][i].upd
  /\ SetLib(s, Put(lib[s], i, w))
  /\ UNCHANGED clock

\* apply_sync_library, 3: neither is known.
ImportLibrary(s, w, i) ==
  /\ BySid(lib[s], w.sid) = {}
  /\ w.del = NULL => LiveNamed(lib[s], w.name) = {}
  /\ ApplyUnknown(w.upd, w.del, clock)
  /\ IsNext(i, lib[s])
  /\ SetLib(s, Put(lib[s], i, w))
  /\ UNCHANGED clock

\* A known identity or a live namesake that is not older, or an old tombstone.
Namesakes(s, w) ==
  IF BySid(lib[s], w.sid) # {} THEN BySid(lib[s], w.sid)
  ELSE IF w.del = NULL THEN LiveNamed(lib[s], w.name) ELSE {}

SkipLibrary(s, w) ==
  /\ ~ShouldApply(w.upd, w.del, UpdOf(lib[s], Namesakes(s, w)), clock)
  /\ UNCHANGED <<lib, clock>>

ApplyLibrary(s) ==
  /\ pc[s] = "libraries"
  /\ \E e \in DOMAIN libTodo[s] :
       /\ IsFirst(e, libTodo[s])
       /\ TakeLibrary(s, e)
       /\ LET w == libTodo[s][e] IN
          \/ \E i \in DOMAIN lib[s] : UpdateLibrary(s, w, i)
          \/ \E i \in DOMAIN lib[s] : AdoptLibrary(s, w, i)
          \/ \E i \in Id : ImportLibrary(s, w, i)
          \/ SkipLibrary(s, w)

-----------------------------------------------------------------------------
(* The pull cycle: songs. *)

\* Once the libraries are through, s reads the clocks of its own songs.
ListSongs(s) ==
  /\ pc[s] = "libraries"
  /\ DOMAIN libTodo[s] = {}
  /\ Goto(s, "manifest")
  /\ seen' = [seen EXCEPT ![s] = song[s]]
  /\ UNCHANGED <<clock, db, libTodo, songTodo, peerIds, asked, got, streak,
                 pruning, faults>>

\* The manifest entries that pass the gate against the clocks read before,
\* which nothing in the cycle reads again.
FetchManifest(s) ==
  /\ pc[s] = "manifest"
  /\ Goto(s, "songs")
  /\ LET S == song[Peer[s]]
         newer == {i \in DOMAIN S :
                     ShouldApply(S[i].upd, S[i].del,
                                 UpdOf(seen[s], BySid(seen[s], S[i].sid)), clock)}
     IN  /\ songTodo' = [songTodo EXCEPT ![s] = [i \in newer |-> S[i].sid]]
         /\ peerIds' = [peerIds EXCEPT ![s] = {S[i].sid : i \in DOMAIN S}]
  /\ seen' = [seen EXCEPT ![s] = EmptyTable]
  /\ streak' = [streak EXCEPT ![s] = 0]
  /\ UNCHANGED <<clock, db, libTodo, asked, got, pruning, faults>>

\* The cycle is over, by completion or by failure.
MissManifest(s) ==
  /\ pc[s] = "manifest"
  /\ Fault
  /\ Goto(s, "idle")
  /\ EmptyCycle(s)
  /\ UNCHANGED <<clock, db, pruning>>

SongsDone(s) ==
  /\ pc[s] = "songs"
  /\ DOMAIN songTodo[s] = {}
  /\ Goto(s, "idle")
  /\ EmptyCycle(s)
  /\ UNCHANGED <<clock, db, pruning, faults>>

NextEntry(s, e) == /\ pc[s] = "songs"
                   /\ IsFirst(e, songTodo[s])

\* The peer answers with its row as it is now, not as the manifest had it.
FetchSong(s, e) ==
  /\ NextEntry(s, e)
  /\ \E i \in BySid(song[Peer[s]], songTodo[s][e]) :
       /\ asked' = [asked EXCEPT ![s] = i]
       /\ got' = [got EXCEPT ![s] = {Wire(lib[Peer[s]], song[Peer[s]], i)}]
  /\ Goto(s, "slides")
  /\ UNCHANGED <<clock, db, libTodo, seen, songTodo, peerIds, streak,
                 pruning, faults>>

\* It reads the slides of that row in a query of its own, so they may be newer
\* than the clock it answers with, or gone with the row.
FetchSlides(s) ==
  /\ pc[s] = "slides"
  /\ LET T == song[Peer[s]]
         text == IF asked[s] \in DOMAIN T THEN T[asked[s]].text ELSE NULL
     IN  got' = [got EXCEPT ![s] = {[w EXCEPT !.text = text] : w \in @}]
  /\ Goto(s, "apply")
  /\ asked' = [asked EXCEPT ![s] = NULL]
  /\ UNCHANGED <<clock, db, libTodo, seen, songTodo, peerIds, streak,
                 pruning, faults>>

\* An application failure skips the song and proves the peer reachable.
PassOver(s, e) ==
  /\ NextEntry(s, e)
  /\ songTodo' = [songTodo EXCEPT ![s] = Without(@, {e})]
  /\ streak' = [streak EXCEPT ![s] = 0]
  /\ UNCHANGED <<clock, db, pc, libTodo, seen, peerIds, asked, got, pruning>>

\* The peer no longer holds that identity.
MissSong(s, e) == /\ PassOver(s, e)
                  /\ BySid(song[Peer[s]], songTodo[s][e]) = {}
                  /\ UNCHANGED faults

\* The peer answers with an error.
FailSong(s, e) == PassOver(s, e) /\ Fault

Breaker == 3

\* Faulty: the breaker trips one failure late.
LoseSongLate(s, e) ==
  /\ NextEntry(s, e)
  /\ Fault
  /\ IF streak[s] + 1 <= Breaker
     THEN /\ songTodo' = [songTodo EXCEPT ![s] = Without(@, {e})]
          /\ streak' = [streak EXCEPT ![s] = @ + 1]
          /\ UNCHANGED <<pc, libTodo, seen, peerIds, asked, got>>
     ELSE Goto(s, "idle") /\ EmptyCycle(s)
  /\ UNCHANGED <<clock, db, pruning>>

\* A transport failure; the third in a row aborts the cycle.
LoseSong(s, e) ==
  /\ NextEntry(s, e)
  /\ Fault
  /\ IF streak[s] + 1 < Breaker
     THEN /\ songTodo' = [songTodo EXCEPT ![s] = Without(@, {e})]
          /\ streak' = [streak EXCEPT ![s] = @ + 1]
          /\ UNCHANGED <<pc, libTodo, seen, peerIds, asked, got>>
     ELSE Goto(s, "idle") /\ EmptyCycle(s)
  /\ UNCHANGED <<clock, db, pruning>>

\* write_synced_row, or the insertion of a new row: song i of s becomes w
\* under the placement p.  A tombstone leaves every playlist.
WriteSong(s, i, w, p) ==
  LET row == SyncedRow(w, p)
  IN  /\ LiveNamesUnique(p.libs)
      /\ SetLib(s, p.libs)
      /\ SetSong(s, Put(song[s], i, row))
      /\ DropRefs(s, IF row.del # NULL THEN {i} ELSE {})
      /\ IF p.minted THEN clock < MaxClock /\ clock' = clock + 1
                     ELSE UNCHANGED clock

\* The placement of a song of which row i is already here: a tombstone stays
\* where it is.
PlaceKnown(s, w, i, new) ==
  IF w.del # NULL THEN Placement(lib[s], song[s][i].lib, NULL, FALSE)
                  ELSE EnsureLibrary(lib[s], w, new, clock)

\* apply_sync_presentation, 1: the identity is known.
UpdateSong(s, w, i) ==
  /\ i \in BySid(song[s], w.sid)
  /\ w.upd > song[s][i].upd
  /\ \E new \in Id : /\ IsNext(new, lib[s])
                     /\ WriteSong(s, i, w, PlaceKnown(s, w, i, new))

\* apply_sync_presentation, 2: the namesake takes the identity.
AdoptSong(s, w, i) ==
  /\ BySid(song[s], w.sid) = {}
  /\ i \in Adoptable(lib[s], song[s], w, peerIds[s])
  /\ w.upd > song[s][i].upd
  /\ WriteSong(s, i, w, Placement(lib[s], song[s][i].lib, NULL, FALSE))

\* apply_sync_presentation, 3: a new row.
ImportSong(s, w, i) ==
  /\ BySid(song[s], w.sid) = {}
  /\ Adoptable(lib[s], song[s], w, peerIds[s]) = {}
  /\ ApplyUnknown(w.upd, w.del, clock)
  /\ IsNext(i, song[s])
  /\ \E new \in Id : /\ IsNext(new, lib[s])
                     /\ WriteSong(s, i, w, EnsureLibrary(lib[s], w, new, clock))

\* The rows of s that w may not overwrite because they are not older.
Rivals(s, w) == IF BySid(song[s], w.sid) # {} THEN BySid(song[s], w.sid)
                ELSE Adoptable(lib[s], song[s], w, peerIds[s])

SkipSong(s, w) ==
  /\ ~ShouldApply(w.upd, w.del, UpdOf(song[s], Rivals(s, w)), clock)
  /\ UNCHANGED <<clock, db>>

\* The live-name index refuses the revival of the library: the transaction
\* rolls back and the song is an application failure.
Refused(s, w) ==
  /\ w.del = NULL
  /\ Adoptable(lib[s], song[s], w, peerIds[s]) = {} \/ BySid(song[s], w.sid) # {}
  /\ ShouldApply(w.upd, w.del, UpdOf(song[s], BySid(song[s], w.sid)), clock)
  /\ \E new \in Id :
       /\ IsNext(new, lib[s])
       /\ ~LiveNamesUnique(EnsureLibrary(lib[s], w, new, clock).libs)

RefuseSong(s, w) == Refused(s, w) /\ UNCHANGED <<clock, db>>

ApplySong(s) ==
  /\ pc[s] = "apply"
  /\ \E w \in got[s] :
       \/ \E i \in DOMAIN song[s] : UpdateSong(s, w, i)
       \/ \E i \in DOMAIN song[s] : AdoptSong(s, w, i)
       \/ \E i \in Id : ImportSong(s, w, i)
       \/ SkipSong(s, w)
       \/ RefuseSong(s, w)
  /\ got' = [got EXCEPT ![s] = {}]
  /\ songTodo' = [songTodo EXCEPT ![s] =
                    Without(@, {e \in DOMAIN @ : IsFirst(e, @)})]
  /\ streak' = [streak EXCEPT ![s] = 0]
  /\ Goto(s, "songs")
  /\ UNCHANGED <<libTodo, seen, peerIds, asked, pruning, faults>>

\* The process restarts: the database is durable, the rest is lost.
Crash(s) ==
  /\ ~Idle(s) \/ pruning[s]
  /\ Fault
  /\ Goto(s, "idle")
  /\ EmptyCycle(s)
  /\ pruning' = [pruning EXCEPT ![s] = FALSE]
  /\ UNCHANGED <<clock, db>>

-----------------------------------------------------------------------------

LocalStep(s) ==
  \/ \E b \in LibBase : CreateLibrary(s, b)
  \/ \E l \in DOMAIN lib[s], b \in LibBase : RenameLibrary(s, l, b)
  \/ \E l \in DOMAIN lib[s] : DeleteLibrary(s, l) \/ RestoreLibrary(s, l)
  \/ \E l \in DOMAIN lib[s], n \in SongName : CreateSong(s, l, n)
  \/ \E i \in DOMAIN song[s], l \in DOMAIN lib[s] : CopySong(s, i, l)
  \/ \E i \in DOMAIN song[s], n \in SongName : RenameSong(s, i, n)
  \/ \E i \in DOMAIN song[s] : \/ EditSong(s, i)
                               \/ DeleteSong(s, i)
                               \/ RestoreSong(s, i)
  \/ \E I \in SUBSET DOMAIN song[s] : ReplacePlaylist(s, I)
  \/ PruneSongs(s)
  \/ PruneLibraries(s)

\* The steps of a cycle that meets no failure.
CycleStep(s) ==
  \/ FetchLibraries(s)
  \/ ApplyLibrary(s)
  \/ ListSongs(s)
  \/ FetchManifest(s)
  \/ \E e \in DOMAIN songTodo[s] : FetchSong(s, e) \/ MissSong(s, e)
  \/ FetchSlides(s)
  \/ ApplySong(s)
  \/ SongsDone(s)

FailureStep(s) ==
  \/ MissLibraries(s)
  \/ MissManifest(s)
  \/ \E e \in DOMAIN songTodo[s] : FailSong(s, e) \/ LoseSong(s, e)
  \/ Crash(s)

Next == \/ \E s \in Site : LocalStep(s) \/ CycleStep(s) \/ FailureStep(s)
        \/ Elapse

\* The loop of every site keeps cycling, on its timer if not on a nudge.
Fairness == \A s \in Site : WF_vars(CycleStep(s))

Spec == Init /\ [][Next]_vars /\ Fairness

-----------------------------------------------------------------------------
(* Properties. *)

StepName == {"idle", "libraries", "manifest", "songs", "slides", "apply"}

Tables(f, Row) == DOMAIN f = Site /\ \A s \in Site : IsTable(f[s], Row)

\* Every table holds rows of its kind, and what a cycle carries is what the
\* requests of that cycle answered.
TypeOK ==
  /\ clock \in Nat
  /\ Tables(lib, LibRow)
  /\ Tables(song, SongRow)
  /\ plist \in [Site -> SUBSET Id]
  /\ pc \in [Site -> StepName]
  /\ Tables(libTodo, LibRow)
  /\ Tables(seen, SongRow)
  /\ Tables(songTodo, Nat)
  /\ peerIds \in [Site -> SUBSET Nat]
  /\ asked \in [Site -> Id \cup {NULL}]
  /\ got \in [Site -> SUBSET WireSong]
  /\ streak \in [Site -> 0 .. Breaker - 1]
  /\ pruning \in [Site -> BOOLEAN]
  /\ faults \in Nat

SameVersion(a, b) == a.sid = b.sid /\ a.upd = b.upd
SameContent(a, b) == a.name = b.name /\ a.text = b.text

\* Two stored copies of a song with the same clock have the same content, and
\* so has an answer that still carries the peer's clock.  The gate applies only
\* what is strictly newer, so copies that differ at equal clocks would never be
\* reconciled (sync_apply.rs, invariants at the top); an answer whose slides
\* are newer than its clock is harmless only while the peer's clock has moved.
SameClockSameContent ==
  \A s, t \in Site :
    /\ \A i \in DOMAIN song[s], k \in DOMAIN song[t] :
         SameVersion(song[s][i], song[t][k]) => SameContent(song[s][i], song[t][k])
    /\ pc[s] = "apply" =>
         \A w \in got[s], k \in DOMAIN song[Peer[s]] :
           SameVersion(w, song[Peer[s]][k]) => SameContent(w, song[Peer[s]][k])

\* A playlist refers to live songs only, whichever way a song was trashed:
\* by its own deletion, with its library, by a peer's tombstone, or forced
\* under a tombstoned library (#649, #652).
PlaylistsLive == \A s \in Site : plist[s] \subseteq Live(song[s])

\* A song stays under a library the database holds, and no identity is held
\* twice: what the foreign key and the unique indexes on sync_id enforce is
\* never what a write runs into.
KeysHold ==
  \A s \in Site :
    /\ \A i \in DOMAIN song[s] : song[s][i].lib \in DOMAIN lib[s]
    /\ \A i, j \in DOMAIN song[s] : song[s][i].sid = song[s][j].sid => i = j
    /\ \A i, j \in DOMAIN lib[s] : lib[s][i].sid = lib[s][j].sid => i = j

\* The change of a row that stays in its table moves the row's clock forward.
\* A sync write that did not would undo a newer edit that landed after the
\* cycle read its clocks; a local write that did not would never propagate.
ForwardOnly(T, U) == \A i \in DOMAIN T \cap DOMAIN U :
                       U[i] # T[i] => U[i].upd > T[i].upd
ChangesMoveForward ==
  [][\A s \in Site : /\ ForwardOnly(song[s], song'[s])
                     /\ ForwardOnly(lib[s], lib'[s])]_vars

\* The songs an operator of s finds: live, under a live library.
Repertoire(s) ==
  {[sid |-> song[s][i].sid, name |-> song[s][i].name, text |-> song[s][i].text,
    libName |-> lib[s][song[s][i].lib].name] :
      i \in {k \in Live(song[s]) : song[s][k].lib \in Live(lib[s])}}

Agreement == \A s \in Site : Repertoire(s) = Repertoire(Peer[s])

\* A whole cycle of s, begun now, would write nothing.
NothingToPull(s) ==
  LET p == Peer[s] IN
  /\ \A e \in DOMAIN lib[p] :
       ~ShouldApply(lib[p][e].upd, lib[p][e].del,
                    UpdOf(lib[s], Namesakes(s, lib[p][e])), clock)
  /\ \A e \in DOMAIN song[p] :
       LET w == Wire(lib[p], song[p], e)
           known == BySid(song[s], w.sid)
           namesakes == Adoptable(lib[s], song[s], w,
                                  {song[p][k].sid : k \in DOMAIN song[p]})
       IN  ~ShouldApply(w.upd, w.del,
                        UpdOf(song[s], IF known # {} THEN known ELSE namesakes),
                        clock)

Settled == \A s \in Site : Idle(s) /\ NothingToPull(s)

\* Once no cycle has anything left to pull the sites show the same songs: a
\* disagreement that no cycle repairs would stay for good.
SettledSitesAgree == Settled => Agreement

\* What is left of that when libraries are trashed and brought back: a song
\* one settled site shows and the other does not is one the other holds with
\* the same clock but forced into the trash, because its library was trashed
\* there when the song arrived (ensure_library, #634).  Nothing else differs.
DisagreementIsForced ==
  Settled => \A s \in Site : \A i \in Live(song[s]) :
    song[s][i].lib \in Live(lib[s]) =>
      \E k \in DOMAIN song[Peer[s]] :
        /\ SameVersion(song[s][i], song[Peer[s]][k])
        /\ SameContent(song[s][i], song[Peer[s]][k])
        /\ \/ song[Peer[s]][k].del > song[Peer[s]][k].upd
           \/ /\ k \in Live(song[Peer[s]])
              /\ song[Peer[s]][k].lib \in Live(lib[Peer[s]])

\* Settled sites file a song under the same library: whichever name a library
\* carried on the way, its songs were joined to it by identity (#647).
SongsFiledAlike ==
  Settled => \A s \in Site : \A i \in Live(song[s]), k \in Live(song[Peer[s]]) :
    SameVersion(song[s][i], song[Peer[s]][k]) =>
      lib[s][song[s][i].lib].sid = lib[Peer[s]][song[Peer[s]][k].lib].sid

\* Once the operators stop, the sites come to show the same songs and stay so,
\* whatever requests failed and whichever site restarted on the way.
Converges == <>[]Agreement

=============================================================================
