----------------------------- MODULE MCSongSync -----------------------------
(***************************************************************************)
(* Instances of SongSync for TLC: the two sites PP and SNV pull from each  *)
(* other, and start from a shared repertoire or with a backlog.            *)
(*                                                                         *)
(* All operations together are out of reach, so a run explores several     *)
(* scenarios, each with the operations that can disturb one another; the   *)
(* variable `scenario' is chosen at the start and stays.                   *)
(***************************************************************************)
EXTENDS SongSync, FiniteSets, TLC

CONSTANTS A, B, Hymns, Psalms, n1, n2,
          Scenarios   \* those the run explores

VARIABLE scenario

MCPeer == (A :> B) @@ (B :> A)
Sites == Permutations({A, B})

\* What every instance starts from: `L' libraries and `S' songs on s, nothing
\* under way.
StartFrom(now, L, S, P) ==
  /\ clock = now
  /\ lib = L
  /\ song = S
  /\ plist = P
  /\ pc = [s \in Site |-> "idle"]
  /\ libTodo = [s \in Site |-> EmptyTable]
  /\ seen = [s \in Site |-> EmptyTable]
  /\ songTodo = [s \in Site |-> EmptyTable]
  /\ peerIds = [s \in Site |-> {}]
  /\ asked = [s \in Site |-> NULL]
  /\ got = [s \in Site |-> {}]
  /\ streak = [s \in Site |-> 0]
  /\ pruning = [s \in Site |-> FALSE]
  /\ faults = 0

LiveLib(x, b) == [sid |-> x, name |-> Plain(b), upd |-> x, del |-> NULL]
LiveSong(x, l, n) == [sid |-> x, lib |-> l, name |-> n, text |-> x, upd |-> x,
                      del |-> NULL]

\* Both sites hold the same library with the same song in it, on a playlist.
Shared == StartFrom(3, [s \in Site |-> 1 :> LiveLib(1, Hymns)],
                       [s \in Site |-> 1 :> LiveSong(2, 1, n1)],
                       [s \in Site |-> {1}])

\* A is empty and has three songs to fetch.
Backlog ==
  StartFrom(5, (A :> EmptyTable) @@ (B :> (1 :> LiveLib(1, Hymns))),
               (A :> EmptyTable) @@
               (B :> ((1 :> LiveSong(2, 1, n1)) @@ (2 :> LiveSong(3, 1, n1)) @@
                      (3 :> LiveSong(4, 1, n1)))),
               (A :> {}) @@ (B :> {1}))

\* What the operators do, in which libraries, and how many requests fail.
SongWork == INSTANCE SongSync WITH
  LibBase <- {Hymns}, SongName <- {n1, n2}, MaxFaults <- 0,
  Ops <- {"create_presentation", "copy_presentation", "edit_slides",
          "rename_presentation", "delete_presentation", "restore_presentation"}
Renaming == INSTANCE SongSync WITH
  LibBase <- {Hymns, Psalms}, SongName <- {n1, n2}, MaxFaults <- 0,
  Ops <- {"rename_library", "edit_slides", "rename_presentation",
          "delete_presentation", "replace_playlist_entries"}
LibraryWork == INSTANCE SongSync WITH
  LibBase <- {Hymns, Psalms}, SongName <- {n1}, MaxFaults <- 1,
  Ops <- {"create_library", "rename_library", "delete_library",
          "restore_library", "edit_slides"}
Cascading == INSTANCE SongSync WITH
  LibBase <- {Hymns}, SongName <- {n1}, MaxFaults <- 1,
  Ops <- {"delete_library", "restore_library", "create_presentation",
          "edit_slides", "delete_presentation"}
\* Trash is kept for a single tick, so that it expires within the bounds.
Pruning == INSTANCE SongSync WITH
  LibBase <- {Hymns}, SongName <- {n1}, MaxFaults <- 0, Horizon <- 1,
  Ops <- {"delete_presentation", "delete_library", "restore_library", "prune",
          "elapse"}
CatchingUp == INSTANCE SongSync WITH
  LibBase <- {Hymns}, SongName <- {n1}, MaxFaults <- 3, Ops <- {"edit_slides"}
Settling == INSTANCE SongSync WITH
  LibBase <- {Hymns}, SongName <- {n1}, MaxFaults <- 1,
  Ops <- {"create_presentation", "edit_slides", "delete_presentation",
          "restore_presentation"}
Adopting == INSTANCE SongSync WITH
  LibBase <- {Hymns, Psalms}, SongName <- {n1}, MaxFaults <- 0,
  Ops <- {"create_library", "rename_library"}
Forcing == INSTANCE SongSync WITH
  LibBase <- {Hymns}, SongName <- {n1}, MaxFaults <- 0,
  Ops <- {"delete_library", "restore_library", "edit_slides",
          "delete_presentation"}

Growing == INSTANCE SongSync WITH
  LibBase <- {Hymns, Psalms}, SongName <- {n1}, MaxFaults <- 0, MaxEdits <- 5,
  Ops <- {"create_library", "create_presentation", "copy_presentation",
          "edit_slides", "rename_presentation"}

MCInit == /\ scenario \in Scenarios
          /\ \/ scenario = "catching_up" /\ Backlog
             \/ scenario = "growing" /\ Init
             \/ scenario \notin {"catching_up", "growing"} /\ Shared

MCNext == /\ \/ scenario = "songs" /\ SongWork!Next
             \/ scenario = "renaming" /\ Renaming!Next
             \/ scenario = "libraries" /\ LibraryWork!Next
             \/ scenario = "cascading" /\ Cascading!Next
             \/ scenario = "pruning" /\ Pruning!Next
             \/ scenario = "catching_up" /\ CatchingUp!Next
             \/ scenario = "settling" /\ Settling!Next
             \/ scenario = "adopting" /\ Adopting!Next
             \/ scenario = "forcing" /\ Forcing!Next
             \/ scenario = "growing" /\ Growing!Next
          /\ UNCHANGED scenario

MCSpec == MCInit /\ [][MCNext]_<<vars, scenario>>
          /\ \A s \in Site : WF_<<vars, scenario>>(CycleStep(s) /\ UNCHANGED scenario)

\* DisagreementIsForced where libraries keep their names: a library adopted by
\* the name of another (see SongsFiledAlike) leads to further disagreement.
CascadeDisagreementIsForced == scenario = "cascading" => DisagreementIsForced
=============================================================================
