# Presenter in TLA+

This directory holds TLA+ models of Presenter, the program churches use to run
lyrics, Bible passages, stage displays and video during a service.  It says
which parts of the code are modelled, what the model checker and the proof
system establish about them, and what is left out.  All source paths are
relative to the repository; `P/` stands for
`crates/presenter-persistence/src/repository/` and `S/` for
`crates/presenter-server/src/state/`.

## 1. Inventory

Presenter is one server process per site (`presenter-server`, axum), a SQLite
database behind SeaORM (`presenter-persistence`), and WebAssembly, Android and
hardware clients.  Two sites (PP and SNV) keep their song libraries in step by
pulling from each other.

| Component | State | Operations and interactions | Hard behaviour | What makes it correct | Module |
|---|---|---|---|---|---|
| Song sync engine (`S/sync.rs`, `P/sync*.rs`, `P/library_sync.rs`) | tables of libraries and songs with `sync_id`, `updated_at`, `deleted_at`; the cycle's local variables | every 30 s or on a nudge: library manifest, apply; song manifest; fetch and apply each newer song | no lock across a cycle: operators on both sites and the peer's cycle interleave with every step; lost requests, restarts | never undoes a newer change, converges, files songs under the right library, keeps keys unique | `SongSync` |
| Song and library repository (`P/library.rs`, `P/presentation.rs`) | the same tables | create, copy, edit, rename, trash, restore; each nudges the sync | cascades, name collisions, edits of rows trashed meanwhile | cascades are complete, every change is stamped | `SongSync` |
| Playlists (`P/playlist.rs`) | entries that refer to songs | replace; cleaned by every path that trashes a song | the paths that trash a song are many | refer to live songs only | `SongSync` |
| Trash task (`S/background_tasks.rs`) | none | prunes songs, then libraries, past 30 days | two transactions, foreign-key cascades | takes nothing it should not | `SongSync` |
| Sync task (`S/sync.rs`) | nudge channel of one place, shutdown slot, status | tick, nudge, debounce, cycle, drop caches | nudges during a cycle, cycles that end half-way | a nudge is never lost | `SongNames` |
| AbleSet follower (`S/ableset.rs`) | cache of the tracked library's song names, generation, cooldown | resolve, rebuild, invalidate on edits, settings and sync | a rebuild overlaps what makes it stale | names resolve to what the database has | `SongNames` |
| Slide editing (`S/slides/edit_ops.rs`, `S/presentation_lock.rs`) | slides and markers in the database, a lock per song | snapshot-replace edits, content edits, markers, versions pulled from the peer | reading and writing are two statements; some writers take no lock; requests are dropped half-way | no edit lost, markers stay with their slides | `SlideEditing` |
| Stage output (`S/stage_state.rs`, `S/stage_display.rs`, `S/broadcasting.rs`) | stage state in the database, selected layout, last snapshot of each display | trigger, clear, reconcile after an edit, switch layout, publish | some paths lock, some do not | displays end on what the database holds | `StageOutput` |
| Video sources and NDI (`S/integrations.rs`, `presenter-ndi/src/manager/`) | active row, slots with pipeline and supervisor | activate, deactivate, delete, 30 s reconnect, rebuild | superseded starts, 8 s waits without a lock, requests dropped | one pipeline, that of the active row, and it streams | `VideoSources` |
| Drift guard (`presenter-ndi/src/manager/drift_guard.rs`) | streak and fires of a source | judge a tick, rebuild | shared by a supervisor and its successor | rebuilds are earned, spaced and budgeted | `DriftGuard` |
| Nameplates (`S/stream_nameplates.rs`) | plate on air and its number, sleeping auto-hides | show, hide, toggle, evict, auto-hide | a timer races the next plate | a timer hides its own plate, pages show what is on air | `Nameplates` |
| Android displays (`android_stage.rs`, `android_stage/adb.rs`) | queue and worker of each display | keep-alive cycle of adb commands | timeouts, prompts, unreadable answers, commands that land after they were given up | the app stays, the stage comes back | `StageTv` |
| Playback mirror (`playback/`, `S/stream_playback.rs`) | files, manifest, marks | list, fetch, retire, prune; refresh on request | crashes between steps, pages with an old playlist, an unreadable manifest, merged nudges | what a page may ask for is served, marks end | `DriveMirror` |
| Resolume driver (`resolume/`) | mapping of the composition, lanes, tracked opacities, backoff | push, clear, fade, refetch | the composition changes under it; requests whose answer is lost | live text stays, verses are visible, fetches are rare | `ResolumeHost` |
| AI health cache (`ai/health_cache.rs`) | verdict, refresh flag | hit, probe, refresh | panics, clients that go away, two threads | one probe at a time, never none for ever | `HealthCache` |
| Stage connections, live hub, timers, VBAN recorder, OSC, Companion, Bible, user interface, importer, migrations | see section 8 | | | | none |

How they interact: operators' requests and the sync cycle meet in the tables of
songs (`SongSync` at the grain of transactions, `SlideEditing` at that of awaits and
locks); a slide edit ends with a reconciliation and publication of the stage, which
starts in `StageOutput`; both the edits and the cycles invalidate the names of
AbleSet (`SongNames`); the drift guard makes a pipeline of `VideoSources` die.  The
other loops share nothing with these but the database they read.

## 2. Plan

| Modules | Role | State |
|---|---|---|
| `SongRows`, `SongSync`, `MCSongSync`, `SongSyncProof` | song synchronisation | done |
| `StageOutput`, `MCStageOutput`, `StageOutputProof` | stage output | done |
| `SlideLists`, `SlideStore`, `SlideEditing`, `MCSlideEditing`, `SlideEditingProof` | slide edits implement an abstract store of atomic changes | done |
| `VideoSources`, `MCVideoSources`, `VideoSourcesProof` | video activation over the pipeline manager | done |
| `SongNames`, `Nameplates`, `HealthCache`, `StageTv`, `DriftGuard`, `DriveMirror`, `ResolumeHost`, `MCLoops`, `SongNamesProof`, `NameplatesProof`, `HealthCacheProof`, `LoopsProof` | seven background loops | done, the safety of all seven proved |

Left, in order: the re-import of a library and the purge of a song in `SongSync`;
stage displays as clients of the live hub that lag behind it and resynchronise;
timers; the claim of the sync task's shutdown slot.

## 3. Song synchronisation

### The model and the code

`SongRows` is data: the rows of the libraries and presentations tables, and the
pure decisions of the apply code.  A table is a function from row numbers (the
SQLite row order, which is also the order of manifests) to records; `sid`,
`upd`, `del` are `sync_id`, `updated_at`, `deleted_at`.  `ShouldApply` is
`sync_should_apply`, `HomeOf`/`EnsureLibrary` the resolution of the library of an
arriving song (`sync_apply_library.rs`), `Adoptable` the adoption by name with
its uniqueness and "peer already tracks it" conditions, `SyncedRow` what
`write_synced_row` stores, `Wire` what the peer's endpoint sends.

`SongSync` has one action per transaction of the code:

| Actions | Code |
|---|---|
| `CreateLibrary` … `RestoreLibrary` | `P/library.rs`, with the cascade to songs and playlists |
| `CreateSong`, `CopySong`, `EditSong`, `RenameSong`, `DeleteSong`, `RestoreSong` | `P/presentation.rs`, `P/sync.rs` |
| `ReplacePlaylist` | `P/playlist.rs` |
| `PruneSongs`, `PruneLibraries` | the daily trash task, two transactions |
| `FetchLibraries`, `ApplyLibrary` (`UpdateLibrary`, `AdoptLibrary`, `ImportLibrary`, `SkipLibrary`) | `reconcile_libraries`, `apply_sync_library` |
| `ListSongs`, `FetchManifest`, `NextEntry`, `SongsDone` | `run_sync_cycle_with_clients` |
| `FetchSong`, `FetchSlides` | the peer's answer, which reads the row and the slides in two queries |
| `ApplySong` (`UpdateSong`, `AdoptSong`, `ImportSong`, `SkipSong`, `RefuseSong`) | `fetch_and_apply_one`, `apply_sync_presentation` |
| `MissLibraries`, `MissManifest`, `MissSong`, `FailSong`, `LoseSong` | failing requests; `LoseSong` counts towards the breaker that aborts a cycle at the third transport failure in a row |
| `Crash` | restart: the database stays, the cycle is lost |

Between any two of them everything else may happen: operators of both sites, the
cycle of the peer, the trash task.

Abstractions, and why they are harmless:

- One clock, advanced by each write that stamps rows, so that no two writes share
  a timestamp: hosts run NTP and timestamps have microseconds.  Skewed clocks and
  equal timestamps are not covered.  A new `sync_id` is the tick of the write
  that generates it, which is as unique as the random UUID of the code.
- The slides of a song are the tick of their last change.
- The answer of a peer reads the song row and its library in one step and the
  slides in a second one, which keeps the torn answer that matters.  A request
  that fails does so where it is issued; reads change nothing.
- Peers too old to send identities of libraries appear only as a missed library
  manifest.  The presentation lock and slide layout markers belong to
  `SlideEditing`, the nudges, the debounce and the dropping of caches to `SongNames`.
- `upsert_library` (re-import) and the purge of a single song are left out so far.

### What is checked

`MCSongSync` instantiates two sites that pull from each other.  Its variable
`scenario` is chosen at the start: each value stands for an instance of `SongSync`
with its own set of operations (`Ops`), names and number of failures, because all
operations together are out of reach; a run explores the scenarios its cfg lists
in `Scenarios`.  They start from a library with one song that both sites hold
(clock 3), from a backlog or from nothing (`growing`, five actions), and allow three
operator actions (`MaxEdits` 6 bounds
the clock for operators, `MaxClock` 10 that of writes by the cycle); three suffice
for the known hard cases, each of which is two concurrent changes and one that
exposes them, and the violations below need two to four.  `Id` has five rows per
table, more than the actions can fill.  Sites are symmetric where no liveness is
checked and the start is symmetric.

| Run | Scenarios | Shows |
|---|---|---|
| `songs` | `songs`, `renaming`, `growing` | all song operations, libraries renamed to free and taken names, and libraries and songs created, copied and edited on two empty sites: equal clocks mean equal content (`SameClockSameContent`), settled sites show the same songs (`SettledSitesAgree`) under the same library (`SongsFiledAlike`) |
| `libraries` | `libraries`, `cascading`, `pruning` | library operations with a failure or restart, songs under a library that comes and goes, trash that ages and is pruned: unique and foreign keys (`KeysHold`), playlists without trash (`PlaylistsLive`), no write moves a clock back (`ChangesMoveForward`), a remaining disagreement is a copy forced under a trashed library and nothing else (`CascadeDisagreementIsForced`) |
| `recovery` | `catching_up`, `settling` | a backlog of three songs with up to three failures, and concurrent song changes with one: type correctness, convergence |

"Settled" means that neither cycle, started anew, has anything to pull.  Liveness
(`Converges`: eventually the sites agree for good) assumes weak fairness of the
cycle of each site (`Fairness`): the ticker of `spawn_sync_task` starts a cycle
every 30 s and each request has a timeout, so a cycle always goes on or ends.
Operators, failures and restarts are not fair, and bounded: the property is about
what happens once they stop.  Deadlock is checked: a cycle can always start anew.

### Where the code departs from what it says

- `library_theft`: adoption of a library by name does not ask whether the peer
  tracks the row under its own identity (adoption of songs does).  A rename on
  one site and a new library of that name on the other leave a song filed under
  different libraries, for good.
- `forced_tombstone`: a live song that arrives under a trashed library becomes a
  tombstone with the clock of the live row.  Once the library is back, the song
  is live on one site and trashed on the other under equal clocks.

Met while modelling, without a run of their own: both sites that disambiguate the
same name collision append suffix upon suffix ("X (2) (2)"); a trashed song that is
the first of its library to arrive mints the library as a tombstone stamped now
(`ensure_library_for_tombstone`), and a live song of that library that comes later
in the same cycle, being older, is forced into the trash with the clock of the live
row: `SettledSitesAgree` fails with no library ever deleted, when one site creates
a library with two songs and trashes the first; a song revives a trashed library
with its own clock, which may equal that of another name; the prune compares
`deleted_at`, the gate against old tombstones `updated_at`, so that a pruned song
may come back as a tombstone.

### What is proved

`SongSyncProof` holds for every set of sites, every assignment of peers and all
values of the bounds.  The inductive invariant

    IInv == TypeOK /\ (DbOK for every site) /\ (CycleOK for every site)

adds to the types that all clocks and identities in tables and in answers under
way lie before the present (`RowsBehind`, otherwise a new row could repeat an
identity), that identities are unique, that the library of a song exists and that
playlists refer to live songs.  None of these is inductive alone: an answer names
a library that exists only as songs keep their libraries, and playlists stay clean
only as each path that trashes songs finds the rows where the keys say.  One lemma
per action shows what it does to a database (`LocalStepAdvances`,
`ApplyLibraryAdvances`, `ApplySongAdvances`) and to a cycle
(`CycleStepCarries`, `FailureStepCarries`); `StepIInv` combines them.  From it:
`TypeCorrect`, `PlaylistsAlwaysLive`, `KeysAlwaysHold` and the action property
`RowsMoveForward`.  Assumed are only `PeerAssumption` and the assumptions on
bounds and names that the modules state.

`OneVersionOneContent` proves `SameClockSameContent` under two hypotheses, each of
which it needs: two sites that pull from each other (`TwoSites`, the deployment; with
three, a torn answer travels on), and no pruning among the operations (a pruned
song may come back from an answer that was under way).  Everything else may
happen, in any number.  What makes it hard is the torn answer: the row of a song
is read before its slides, so an answer may carry the old clock with new slides,
and the site that applies it holds content its peer never had under that clock.
That does no harm as long as the peer has a newer row, which is what `VersionInv`
follows through a cycle: an answer carries the version of its row or the peer
has moved on (`AnswerAgrees`), the version a manifest lists is older than what
the cycle will replace (`ManifestOK`, `UnlistedApart`), and the torn version does
not return to the peer as its own (`AnswerReturned`, `AnswersMet`).

`SettledSitesAlwaysAgree` and `SettledSitesFileAlike` prove `SettledSitesAgree` and
`SongsFiledAlike` for two sites that start empty, `SharedSitesStayAgreed` both for
two that start from one database (`SharedStart`, of which the start of `songs` and
`renaming` is an instance).  The operations are those of `SteadyOps`: nothing is
pruned and no library deleted, and where libraries are created (`Creating`) none is
renamed and no song trashed.  Each exclusion is needed: `forced_tombstone` shows what
a deleted library does, `library_theft` what a rename does to a library being
created, and the minted tombstone above what trashed songs do; a pruned song may
come back from an answer that was under way.  Song operations, name collisions,
adoption, torn answers, failures and crashes are unrestricted.

The argument is that settled sites hold the same clocks, and that a clock settles
everything else.  If neither cycle has anything to pull, a song that one site shows
is known to the other (else the peer would import or adopt it) and neither copy is
newer (`NoNewerSong`), so the clocks are equal; likewise for libraries
(`NoNewerLibrary`).  `FilingInv` then says that a clock belongs to one version of one
song and to one library row (`VersionsApart`, `RowsApart`), over the tables of both
sites and everything their cycles carry; `CopiesAgree` adds the slides.  What a song
keeps wherever it goes is its `FileKey`: the identity of its library while the sites
share the libraries, its name while libraries of one name may still take each
other's identity.  `FilingInv` is inductive because a step either moves rows from
where they are known (`Quiet`: cycles, failures, crashes) or stamps one row with the
present (`NewRow`, `NewVersion`); that the apply code never does both at once, and
never stores a known clock with other data, is what each of its branches is checked
for.

`TrashDisagreementIsForced` proves `DisagreementIsForced` for two sites that trash
libraries with the songs in them, alone or many times and on both sides.  They start
from one database (`TrashStart`: a `SharedStart` whose songs were stamped before now
and share no clock with a library they are not filed under, as in the `cascading`
scenario); the libraries keep their names and nothing is pruned (`FixedLibraries`).
Songs are edited, renamed, trashed and restored, and either songs are created and
copied or libraries are brought back: a library that comes back stamps all songs it
revives with one clock, so a clock no longer tells a new song from another.
Here a clock does not settle everything: `force_tombstone` trashes a copy and leaves
its clock alone.  `ForcedInv` says that this is the only exception.  Every site
keeps every library (`LibsFixed`), a clock belongs to one library row
(`RowsStamped`), a library and a song carry the same clock only if one took it from
the other, in which case a live song has a live library (`RowsMatch`), and copies of
one song with one clock differ at most in being trashed later than that clock
(`VersionsStamped`).  The last is what a forced copy is recognised by, and no
operator leaves such a row: each of their writes stamps what it trashes.

Only model-checked: `CascadeDisagreementIsForced`, which is `DisagreementIsForced` in
the scenario that restores libraries and creates songs together, so that the theorem
does not cover it; and liveness.

## 4. Stage output

### The model and the code

`StageOutput` follows requests step by step: a step reaches from one await of
shared state to the next.  Shared are the `stage_state` row (`state`), the
selected layout (`layout`) with its persisted copy (`saved`), the pushed text
(`apiText`) and the songs (`live`, `deck`, `unused`, `rev`).  `shown` and `camera`
are what the last events published to the live hub say; displays receive them in
that order.  Each task has a program counter and what it carries (`row`, `view`,
`code`).

| Request | Steps | Code |
|---|---|---|
| trigger | `Trigger`, `LockTrigger`, `UpsertTrigger`, `ApplyMarker`, (`Swap`, `Persist`, `RepublishApi`), `PublishCamera`, `PublishStage` | `update_stage_state`, `apply_slide_stage_layout_marker` |
| switch | `Switch`, `Swap` or `SkipSwap`, `Persist`, then `RepublishApi` or `ReadState`, `ResolveState`, publish | `switch_stage_layout` |
| clear | `Clear`, `ResolveClear`, `WriteClear`, publish | `clear_stage` |
| push, text mode | `PutApi`, `AnnouncePut`; `SetTextMode`, `RepublishApi` | `update_api_stage`, `set_stage_text_mode` |
| slide edit | `DeleteSlide`, `AddSlide`, `EditText`, `Reconcile`, `Fix`, `ReadState`, … | `S/slides/edit_ops.rs` |
| timers, AbleSet | `Refresh`, `ReadState`, … | `broadcast_stage_snapshots` |
| delete song, restart | `DeleteSong`, `Restart` | `delete_presentation`, start-up |

Locks: `trigger` from `LockTrigger` to the answer; the song lock of an edit from
its arrival to its answer; the read lock of the layout between `PublishCamera`
and `PublishStage` (`Readers`), which `Swap` waits for.  The server runs on several
threads, and two publications may hold the read lock at once, so their four events
may interleave.  Everything else is unlocked in the code and so in the model.

Left out: the slide after the current one, playlist context, song names and group
colours of a snapshot, timers, text modes themselves; markers are fixed here
(`SlideEditing` moves them); the cache of songs, which the server writes and clears
but never reads; requests that are dropped because their client disconnects; errors of the database.  One external
program pushes text and awaits each answer.  Songs have at least one slide.

### What is checked

`MCStageOutput` has two songs, three layouts of which one shows pushed text, and
marks the first slide of each song with a normal and the second with the API
layout.  Three requests at a time are enough for each hazard listed: two that
race and one that both overlap.

| Run | Shows |
|---|---|
| `stage_triggers` | triggers and pushes only, up to four: the displays end on the slide the database holds (`WinnerIsShown`) and on the layout it is marked with (`WinnerSetsLayout`), and each request ends (`EveryRequestEnds`) |
| `stage_requests` | every request against every other, up to three, with restarts: `LayoutsAgree`, `ApiShowsPushed`, `SlidesReturn`, `TypeOK` |
| `layout_persist` | violated: two quick switches persist in reverse order, so a restart brings back the layout that was left |

`EveryRequestEnds` assumes weak fairness of the steps of each task: the tokio
runtime polls every task that can proceed, and the locks of tokio serve waiters in
order.  The system may stop (`CHECK_DEADLOCK FALSE`) because clients may stop
asking.

With clears, edits or refreshes beside triggers, `WinnerIsShown` does not hold:
`clear_stage` and `reconcile_stage_state_after_edit` write what they computed from
an earlier read, and `broadcast_stage_snapshots` may publish a row that a trigger
has replaced in between.  The hazards list these races.

### What is proved

`StageOutputProof` proves all invariants the runs check, for any number of tasks,
songs, slides and layouts.  They come from three inductive invariants, each on top
of the one before:

- `TInv` gives `TypeCorrect` and `LayoutsAlwaysAgree`.  A publication sends the layout
  it read when it took the read lock, so `TInv` says that this is still the
  selected one, which `Swap` preserves as it waits for `Readers` to be empty.  It
  also says that a task holds a row or a view exactly where its code does, and
  who may hold the trigger lock and the lock of a song.
- `ShowInv` gives `PushedTextShows` and `SlidesAlwaysReturn`.  While the display does not
  show what the layout calls for, some request is on its way to publish it
  (`PushedInv`, `SlidesInv`); each such request hands that duty on or fulfils it, and
  a switch to slides has slides to publish unless no song is left (`SwitchesOK`).
- `WInv` gives `WinnerAlwaysShown` and `WinnerAlwaysSetsLayout` under `TriggersOnly`:
  requests are triggers, pushes and changes of the text mode, as in `stage_triggers`
  (with clears, edits or refreshes the properties are false, see above).  The
  trigger lock serialises the writes of the row with their publication, so only the
  last writer may still have something to tell (`TriggerOK`), and otherwise the
  stage shows the row (`Settled`).

`EveryRequestEnds` and the violation `layout_persist` stay with the model checker.

## 5. Slide editing

### The model and the code

`SlideLists` holds the edits as functions of a song's list of slides, and
`Remapped`, the re-attachment of markers when the peer's list replaces a song's
(`P/sync_apply.rs`).  `SlideStore` is the abstract specification: the slides of a
song change in one step, by an edit made to the slides it has at that moment
(`Edit`) or by the peer's version when its clock is the later one (`Adopt`).
`SlideEditing` is the code at the grain of awaits and locks:

| Actions | Code |
|---|---|
| `Ask`, `Lock`, `Read`, `Replace`, `ReadMark`, `CopyMark`, `Finish` | the edits of `S/slides/edit_ops.rs`: paste, content edit, insertion, duplication, deletion, reordering; each takes the lock of the song (`S/presentation_lock.rs`), reads it, writes the list it made and carries the markers along, one statement at a time; a marker that cannot be read or set is skipped |
| `Abandon` | a request is dropped at an await, by an error or with its client |
| `AskMark`, `SetMark` | `assign_slide_stage_layout`, without the lock |
| `RenamePresentation`, `DeletePresentation`, `RestorePresentation` | the song operations, without the lock |
| `Fetch`, `Probe`, `LockTarget`, `Apply` | `fetch_and_apply_one`: the version is fetched, its song looked up, locked, and looked up once more in the transaction |

Left out: reconciling and publishing the stage (`StageOutput`), libraries, and the
rows a version of an unknown song creates (`SongSync`).  A slide is its identity and
one of two contents.

### What is checked

`edits` has one song of two slides, two editors with two requests of any kind between
them (song operations count as requests), one pulled version and lists of up to
three slides: two edits and a version is the
smallest setting in which either can overwrite, or take the markers of, the other.
It checks that the code implements the store (`Atomic == Store!StoreSpec`, the
refinement mapping being the slides and the stamp of each row), its local form
(`SnapshotIsCurrent`), and that markers neither come back with a slide that was
deleted (`NoMarkRevives`) nor leave a slide whose content alone they marked
(`MarkStaysWithText`).  Clients may stop asking (`CHECK_DEADLOCK FALSE`).

`lost_version` (violated) needs two songs and two names: the version of an unknown
song matches two songs when it is probed, so no song is locked; a rename leaves one
match before the transaction looks again; the version is written into a song whose
edit is between its read and its write, and the edit overwrites it.

Met while modelling, without a run: a marker assigned or copied while its song is
trashed is written after the trash has removed the song's markers, and comes back
with the song.

### What is proved

`SlideEditingProof` proves, for any number of songs, requests, versions and slides,
`SnapshotsStayCurrent` and `Implements` (`Spec => Atomic`) under `Steady`: no
operation that changes which song a version is for ("rename", "trash").  The
violation above shows that the assumption is needed for renames.  The inductive
invariant is

    IInv == RowsOK /\ SongsApart /\ EditsOK /\ PullOK /\ SnapshotIsCurrent

An edit about to write holds the lock (`EditsOK`), and so does a version about to
be applied, for the song it will be applied to (`PullOK`, which needs that songs
keep their identities apart, `SongsApart`); hence neither writes between the read
and the write of the other.  Each step then maps to a step of the store or leaves
its variables alone.

`NoMarkerRevives` and `MarkersStayWithText` state the two marker properties, under
`Steady` too: an edit that overwrites a version brings back slides which the version
had taken away, with whatever marks them by then.  Both need a second invariant,

    MInv == IdsOK /\ ListsOK /\ MarksOK /\ \A e \in Editor : TodoOK(edit[e])

whose heart is `IdsOK`: a slide belongs to one song for good, wherever it is named -
among the slides of the song, on its markers, in what a request is about to mark - and
a slide of the version on its way belongs to no song but the one the version is for.
So the markers of a song are those of its slides, present and past; the slides an
edit adds are new and unmarked; and those a version adds carry no marker but that of
a slide they replace.  `IdsOK` is inductive because what an edit makes of a list is a list of
its slides and of new ones (`ResultList`, edit by edit: a reordering names every slide
once because it names them all, `ReorderedList`).  That a marker stays with its
content is then a fact about `Remapped` alone (`Remapping`): a marked slide that alone
has its content goes to the first place with that content, and no other marker does.
Assumed of the constants: songs are numbered 1 to their number (`SongAssumption`,
which names the slides they start with), clients insert at a place that is a number
(`PositionAssumption`).

## 6. Video sources

### The model and the code

`VideoSources` has the requests of `S/integrations.rs`, which hold the activation
lock from the change in the database (`Flip`, `DeleteRow`) to the end, over the
manager of `presenter-ndi/src/manager/`, whose lock is held for single steps:

| Actions | Code |
|---|---|
| `Ask`, `Tick`, `Lock`, `Flip`, `Look`, `Heartbeat` | `activate_video_source` and its siblings, the 30 s reconnect ticker |
| `StartAgain`, `StartJoin`, `StartFresh`, `StartFails`, `Await`, `Observe`, `Reap`, `Clear`, `StopAll`, `Stop` | `start`, joining a start under way, what the request makes of its outcome, `stop_all`, `stop` |
| `Awaken`, `Finalize`, `Attach` | the task of a start, which waits without the lock, outlives its request, and takes the slot over |
| `Notice`, `Rebuild`, `Rebuilt`, `Resubscribe` | the supervisor of a pipeline |
| `Drop`, `Play`, `Die`, `Broadcast`, `Restart` | a client goes away, a pipeline streams or dies, a source comes and goes, the process restarts |

### What is checked

`video` has two sources (one to switch to), one operator beside the ticker, four
events (requests, failures, changes of a broadcast, restarts) and as many
pipelines and supervisors as can be referred to at once; both are used over again.
No encoder runs outside the slot of its source (`NoLeakedEncoder`), every
supervisor can be reached through a slot (`SupervisorsOwnSlots`), no step brings up
a pipeline for a source that is not active (`NoRevival`), and in the end the active
source, if it is broadcast, is on stage alone (`ActiveSourceShows`).  Fairness: the
tasks of tokio run, the ticker ticks, its mutex serves waiters in order (strong
fairness of `Lock`), and a broadcast reaches a pipeline that waits for it.

Met while modelling: when a deactivation is dropped between the change in the
database and `StopAll`, no source is active, the ticker leaves the manager alone
and the encoder runs until the next activation or deactivation.

### What is proved

`VideoSourcesProof` proves `NothingLeaks`, `SlotsKnowSupervisors` and
`NothingRevives` for any number of sources, pipelines, supervisors, requests and
events.  The invariant says of the manager that a running pipeline is the one in the
slot of its source, that a slot is without a supervisor exactly while its start
waits, and that a supervisor is the one in the slot of its source (`ManagerInv`);
and of requests that past `Lock` they hold the activation lock, and that the source
one is about to start is the active one (`RequestInv`).  Liveness is model-checked only.

## 7. Background loops

Seven loops share no state with each other.  `MCLoops` checks them side by side in
one run: the variable `loop` says which one a behaviour runs.  It extends `SongNames`;
the variables of the others are `v1`, `v2` ..., and each property speaks of its own
loop.  Each module is a specification of its own; MC only adds up their state spaces.

| Module | Code and steps | Checked |
|---|---|---|
| `SongNames` | `S/ableset.rs`, the task of `S/sync.rs`: an edit writes, then nudges and invalidates (`Edit`, `Nudge`, or `Drop` when the client goes); a resolution captures the generation, fetches, and installs if it still holds (`Capture`, `Fetch`, `Install`); the task waits, drains the nudges, runs its cycle (`Receive`, `Drain`, `Libraries`, `Manifest`, `ApplySong` ...) | `NamesAreCurrent`, `NoNudgeLost` |
| `Nameplates` | `S/stream_nameplates.rs`: each step takes the lock anew (`Allocate`, `Set`, `Publish`, `Schedule`; `Wake`, `Clear`, `Tell` of a timer; `Evict`, `Remove`) | `WakesForItsPlate`, `PagesShowTheSlot` |
| `HealthCache` | `ai/health_cache.rs`: `Read` under the lock, then `Cold` or `Stale` acts on what was read; `Probed`, `Release`, `Vanish` | `FlagIsOfTheProbe`, `ProbesAreSpaced` |
| `StageTv` | `android_stage.rs`, `android_stage/adb.rs`: one action per adb command of a cycle (`List` ... `Launch`), commands through a bounded queue, a display that is switched off, prompts, resurfaces; a command that fails may be one that timed out, which nothing stops (`GivenUp`) and which gets through later (`LateInstall`, `LateUninstall` ...) | `CurrentAppStays`, `DisconnectsStuckOnly`, `StageComesBack` |
| `DriftGuard` | `manager/drift_guard.rs`, `manager/supervisor.rs`: `ReadLead`, `OnTick`, `Request`, `Record` of overlapping supervisors | `RebuildsAreSpaced`, `RebuildsAreEarned` |
| `DriveMirror` | `playback/`, `S/stream_playback.rs`: triggers (`Tick`, `TakeNudge`, `TakeChange`), the steps of a pass (`List` ... `Synced`, `End`; `Record` after one that failed), each of which may fail to read the manifest (`Reads`), a crash at any of them, pages that keep a playlist for a minute | `FreshPlaylistsAreServed`, `MarksEnd` |
| `ResolumeHost` | `resolume/driver.rs`, `handlers.rs`, `mapping_refresh.rs`, `lane_seed.rs`, `bible_clear.rs`: one push at a time, one action per request to Arena, which may fail with or without its effect | `LiveTextStays`, `VersesAreVisible`, `FetchesAreEarned` |

What makes them stale or late is nondeterministic: time is a counter (`DriftGuard`,
`DriveMirror`) or an action that may come at any moment (`Expire`, `CoolDown`,
`BackoffEnds`).  Ghost variables record what a property needs of the past and no
guard reads them, except to bound the events.

Bounds, with the code's value where a constant of the code is made smaller:

| Module | Bounds |
|---|---|
| `SongNames` | 2 libraries, 2 requests, 3 events, 5 versions; 2 attempts (3), breaker 2 (3) |
| `Nameplates` | 2 plates, 2 requests, 3 shows |
| `HealthCache` | 3 calls at once, 6 calls and faults |
| `StageTv` | 4 troubles (events of the display, settings, commands that fail), stale after 3 cycles, queue of 3 (8) |
| `DriftGuard` | 2 checks at once, 5 generations used over again; sustain 2, spacing 2 windows (10), hour 5 (120), 2 rebuilds an hour (3) |
| `DriveMirror` | 1 file, 1 refresh at once, 2 asks (refreshes, changes, crashes, failed reads); grace 3 minutes (5), unused 4 (24 h) |
| `ResolumeHost` | 2 decks, 2 events, threshold 2 (3) |

Each is the least with which every action fires and every hazard listed for the
module comes up: two overlapping requests, a breaker that trips after a success,
a page older than the grace, a clip of another deck.  Only proportions of the
smaller constants matter (grace longer than a page keeps its playlist, hour longer
than the spacing times the budget).

Fairness, stated by the two modules that promise liveness: the worker of a display
runs, its ticker ticks and `select!` takes commands too (`StageTv`); a pass goes on,
since all its requests have timeouts, and `select!` does not starve the operator's
nudge (`DriveMirror`).  A command that was given up has no fairness: it may never land.  Events are bounded and not fair, so the liveness properties
are about what happens once they stop.  The run may stop (`CHECK_DEADLOCK FALSE`)
because events are bounded.

The properties say what the code does guarantee; their exceptions are what it does
not:

- A cycle that wrote libraries and then lost the song manifest, or tripped the
  breaker, drops no caches, and neither does an edit whose client goes away before
  its nudge: AbleSet keeps resolving old names (`forgotten` in `NamesAreCurrent`).
  A rebuild started under older settings may also install another library, which the
  lookup that follows does not check (`S/ableset.rs:385`).
- An auto-hide checks the plate and clears it under two acquisitions of the lock: a
  plate shown in between is wiped, contrary to the comment of the module
  (`S/stream_nameplates.rs:15-19`).  Deleting an output restarts the numbers, so that an
  old timer may match a new plate; two overlapping changes may publish in the
  reverse order (`deleted`, `crossed`).
- A full queue of a display's worker drops configuration commands: a display that
  was disabled goes on being served (`android_stage.rs:225`).
- A command of adb whose time is up is no longer waited for, but its process is not
  killed (`android_stage/adb.rs:53-66`, no `kill_on_drop`): it may reach the display at
  any later time (`adrift`).  So an `install -r` may succeed after the worker took it
  for failed, and the uninstall it falls back to (`adb.rs:596`) takes down the app that
  is current by then (`overtaken`); an uninstall given up may land after the clean
  install.  `CurrentAppStays` allows these two and no other, and without either
  exception TLC finds it violated.  The worker repairs both, by the clean
  install or in a later cycle, which finds the app absent.
- `DisconnectsStuckOnly` is about what the worker decides: a disconnect that was given
  up may also land when the display is listed as a device again.
- The grace of a retired file counts from the listing, so a pass that takes longer
  removes a file that pages still name.
- A manifest that cannot be read, or makes no sense, counts as none
  (`playback/manifest.rs:248-258`).  The sync that reads it so (`playback/sync.rs:76`)
  neither retires nor keeps what left the folder, and prunes it at once although fresh
  playlists name it; recording a failed sync then writes an empty playlist
  (`S/stream_playback.rs:372`); and the mirror of a folder that no element names goes
  without its day of grace.  These files, and those of a slow sync, are what
  `FreshPlaylistsAreServed` leaves out (`excused`).  That `playback_file` answers 404
  for as long as it cannot read the manifest itself is outside the property, which
  speaks of what the manifest on the disk allows.
- After a connect whose answer was lost, the lane does not turn and the next verse
  is written into the live clip; lanes seeded from another deck than the live clip's
  do the same (`sure`).  A restart in the middle of a fade, or a dim answer that was
  lost, makes the dim value the base to which clears restore (`unsaid`).  A full queue
  drops a push without a word (`resolume/mod.rs`).

What is proved: every safety and action property of the run, for any number of actors
and whatever the bounds.  The proofs of `SongNames`, `Nameplates` and `HealthCache`
are about their modules and hold as they stand.  `LoopsProof` is about `MCLoops`: it
carries the latter two over by `INSTANCE` and proves the remaining four loops, whose
invariants (`IInv`) stand at the end of their modules.  None of the properties is
inductive; what each invariant adds is what the code keeps in mind between its awaits:

- `NamesAreCurrent`, `NoNudgeLost` (assuming there is a library): a rebuild under way
  holds what it found some time ago.  `RebuildsCurrent` says of one that may still be
  installed that it was begun no earlier than the last invalidation and that what it
  found, if it is no longer the database's, is excused by whoever changed it since.
- `WakesForItsPlate`: `NumbersOK` adds that, since the output was last deleted, a
  number belongs to one show wherever it is held (a request, a timer, the slot) and
  the next number to none.
- `PagesShowTheSlot`: while no two changes overlapped, at most one request or timer has
  still to publish, and it publishes what is on air (`PagesOK`).
- `FlagIsOfTheProbe`, `ProbesAreSpaced`: exactly one call or spawned refresh holds the
  flag while it is set (`FlagHeld`), and a call that came after a verdict has been
  answered from it (`VerdictServed`).
- `DisconnectsStuckOnly`, `CurrentAppStays`: the streak that the worker counts is no
  longer than the one there was (`StreakOK`), and only what was read as another
  version is replaced, which no one makes current meanwhile but an install that was
  given up and got through since the app was read (`overtaken`, `ReplacesOK`).  An
  uninstall that gets through late is one fewer adrift (`AdriftOK`), and that is how the
  property tells it from one of the worker.
- `FreshPlaylistsAreServed`: a file of a fresh playlist is listed, or retired for less
  than the grace and the age of the playlist allow; a pass under way that
  could read the manifest has seen that when it listed the folder (`GraceOK`,
  `SyncOK`), so it will not drop the file; one that could not excuses what it forgets as
  it writes (`Old`, `Lost`); and a crash leaves the old manifest with all its files on
  the disk.
- `RebuildsAreSpaced`: the guard's record of rebuilds is that of the source, but for one
  that was confirmed and is still to be recorded (`FiresOK`); meanwhile none is
  confirmed by a check that overlaps, because the pipeline after it is too young for
  its lead to count (`PendingOK`), and what is confirmed was allowed by what is known
  now (`RequestsOK`).
- `RebuildsAreEarned`: a streak of the guard that is of the pipeline in the slot counts
  windows of that pipeline (`CountOK`).
- `LiveTextStays`: the next lane is not the live one once the lanes are seeded, and they
  are before a mapping is used (`LanesOK`, `PushOK`).
- `VersesAreVisible`: what is remembered of a clip is what Arena shows of it or less
  (`LevelsOK`), and what a mapping shows of a clip that is not remembered is
  true (`ShownOK`).
- `FetchesAreEarned`: a fetch that no new cause excuses is a second one made by a verse
  whose id was listed and rejected, and a pause follows it (`CausesOK`).

`MCLoops` states the assumptions on constants.  Limits are numbers (`TvAssumption`,
`DriftAssumption`, `DriveAssumption`, `HostAssumption`), there is a deck, and `NULL` is
none of the values it stands in for.  One assumption is about the model and not the
code: a pipeline's generation is never used twice by the code and is used over again
by `DriftGuard`, so there must be more generations than the checks under way, the
guard and the encoder can hold (`Cardinality(Built) > Cardinality(Checker) + 2`).

The proof of `VersesAreVisible` found an error of an earlier model: a push that was
under way when another composition was loaded remembered the gone clip's
opacity as that of the new clip at the same place.  The code remembers clips by
their id, which the new composition does not use, so `Remember` keeps it apart.
The bounds of the run were too small to reach the difference.

`StageComesBack` and `MarksEnd` are liveness properties and model-checked only.

## 8. Not modelled

- Stage connections, the live event hub and its lag, timers: left for later (section 2).
- The VBAN receiver and recorder: an audio path; its recorder is file I/O with
  little control.
- OSC and Companion bridges, importer, Bible text and sermons: protocol translation
  and parsing.
- The language-model agent: calls to an external service.
- Operator interface: a WebAssembly front end.
- Schema migrations: data definition; the indexes and cascades the models rely on
  are mapped.
- Of modelled components: see the notes in `PROJECT.json` (re-import and purge,
  playlist rows, WHEP viewers, encoder timing, the stage and timer lanes of
  Resolume, the connection to AbleSet).

Two hosts with skewed clocks, or two writes with the same microsecond, are outside
all models.  Liveness and `ENABLED` are outside the proof system and stay with the
model checker.

## 9. Running

    tlc -workers 2 -config songs.cfg MCSongSync.tla           (libraries, recovery,
                                                library_theft, forced_tombstone)
    tlc -workers 2 -config stage_requests.cfg MCStageOutput.tla
                                                (stage_triggers, layout_persist)
    tlc -workers 2 -config edits.cfg MCSlideEditing.tla       (lost_version)
    tlc -workers 2 -config video.cfg MCVideoSources.tla
    tlc -workers 2 -config loops.cfg MCLoops.tla
    tlapm SongSyncProof.tla
    tlapm StageOutputProof.tla
    tlapm SlideEditingProof.tla
    tlapm VideoSourcesProof.tla
    tlapm SongNamesProof.tla
    tlapm NameplatesProof.tla
    tlapm HealthCacheProof.tla
    tlapm LoopsProof.tla

`library_theft`, `forced_tombstone`, `layout_persist` and `lost_version` end with the
counterexamples described above; every other run ends without an error.
