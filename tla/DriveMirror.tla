----------------------------- MODULE DriveMirror -----------------------------
(***************************************************************************)
(* The mirror of one Drive folder (playback/, state/stream_playback.rs):   *)
(* one task lists the folder, fetches its files, writes the manifest and   *)
(* prunes, every five minutes, after a change of the configuration or when *)
(* an operator asks for it, while output pages play a playlist they fetch  *)
(* every minute.  The folder is external: any listing may be read.  The    *)
(* server may die at any step; the manifest is written in one piece, but a *)
(* read of it may fail, and counts as there being none.                    *)
(*                                                                         *)
(* Time is counted in minutes.  Left out: other folders, which only share  *)
(* the budget of bytes; the budget and the back-off of a failing file,     *)
(* which are reasons why a fetch fails; the kinds of files.                *)
(***************************************************************************)
EXTENDS Naturals

CONSTANTS File,
          Request,    \* refreshes under way at once
          Grace,      \* RETIRE_GRACE_SECS
          Unused,     \* UNREFERENCED_GRACE_SECS, more than Grace
          MaxAsks     \* bound: refreshes, changes of the configuration, crashes
                      \* and reads of the manifest that fail

VARIABLES disk,        \* the files in the directory
          manifest,    \* the playlist, the retired files with their age, whether it
                       \* is of a sync, and the age of that or else of error_at
          page,        \* the playlist of an output page and its age
          mirror,      \* the task: its step, its trigger and what it knows
          referenced,  \* does an element name the folder
          changed,     \* config_changes
          nudged,      \* nudge
          pending,     \* is the folder marked: the API's "syncing"
          extra,       \* did a refresh ask for the folder by its link
          refresh,     \* the refreshes under way
          asks,
          excused      \* ghost: files that the promise below leaves out

files == <<disk, manifest, page, excused>>
marks == <<referenced, changed, nudged, pending, extra, refresh>>
driveVars == <<disk, manifest, page, mirror, referenced, changed, nudged, pending,
               extra, refresh, asks, excused>>

Select == [pc |-> "select"]
None == [f \in {} |-> 0]
NoManifest == [items |-> {}, retired |-> None, synced |-> FALSE, age |-> Unused]

Init == /\ disk = {} /\ manifest = NoManifest
        /\ page = [items |-> {}, age |-> 0]
        /\ mirror = Select
        /\ referenced \in BOOLEAN
        /\ changed = FALSE /\ nudged = FALSE /\ pending = FALSE /\ extra = FALSE
        /\ refresh = [r \in Request |-> "idle"]
        /\ asks = 0 /\ excused = {}

UpTo(n, max) == IF n < max THEN n ELSE max
At(pc) == mirror.pc = pc
Step(pc) == mirror' = [mirror EXCEPT !.pc = pc]
GoOn(pc) == mirror' = [pc |-> pc, marked |-> mirror.marked, remove |-> mirror.remove]
Ask == asks < MaxAsks /\ asks' = asks + 1

\* read_manifest: an error, or a manifest that makes no sense, is logged only.
Reads(read) == IF read THEN UNCHANGED asks ELSE Ask

Minute ==
  /\ manifest' = [manifest EXCEPT !.age = UpTo(@ + 1, Unused),
                                  !.retired = [f \in DOMAIN @ |-> UpTo(@[f] + 1, Grace)]]
  /\ page' = [page EXCEPT !.age = UpTo(@ + 1, 2)]
  /\ mirror' = IF At("files") \/ At("write")
                 THEN [mirror EXCEPT !.age = UpTo(@ + 1, Grace)] ELSE mirror
  /\ UNCHANGED <<disk, marks, asks, excused>>

-----------------------------------------------------------------------------
(* Pages and operators *)

\* playback_playlist: what is missing on disk, or cannot be looked up there, is left
\* out, and everything is when the manifest cannot be read.
FetchPlaylist ==
  /\ \E present \in SUBSET (manifest.items \intersect disk) :
       page' = [items |-> present, age |-> 0]
  /\ UNCHANGED <<disk, manifest, mirror, marks, asks, excused>>

\* playback_file, when it reads the manifest.
Served(f) == f \in disk /\ f \in manifest.items \union DOMAIN manifest.retired

Configure ==
  /\ Ask
  /\ referenced' \in BOOLEAN
  /\ changed' = TRUE
  /\ UNCHANGED <<files, mirror, nudged, pending, extra, refresh>>

\* request_playback_refresh: by the link first, then what the elements name.
AskRefresh(r) ==
  /\ Ask
  /\ refresh[r] = "idle"
  /\ \E linked \in BOOLEAN :
       /\ extra' = (extra \/ linked)
       /\ refresh' = [refresh EXCEPT ![r] = IF linked THEN "linked" ELSE "plain"]
  /\ UNCHANGED <<files, mirror, referenced, changed, nudged, pending>>

MarkRefresh(r) ==
  /\ refresh[r] # "idle"
  /\ pending' = (pending \/ refresh[r] = "linked" \/ referenced)
  /\ nudged' = TRUE
  /\ refresh' = [refresh EXCEPT ![r] = "idle"]
  /\ UNCHANGED <<files, mirror, referenced, changed, extra, asks>>

-----------------------------------------------------------------------------
(* The task *)

Tick == /\ At("select")
        /\ mirror' = [pc |-> "begin", trigger |-> "periodic"]
        /\ UNCHANGED <<files, marks, asks>>

TakeNudge == /\ At("select") /\ nudged
             /\ nudged' = FALSE
             /\ mirror' = [pc |-> "debounce", trigger |-> "forced"]
             /\ UNCHANGED <<files, referenced, changed, pending, extra, refresh, asks>>

TakeChange == /\ At("select") /\ changed
              /\ changed' = FALSE
              /\ mirror' = [pc |-> "debounce", trigger |-> "config"]
              /\ UNCHANGED <<files, referenced, nudged, pending, extra, refresh, asks>>

Debounced == /\ At("debounce")
             /\ changed' = FALSE
             /\ Step("begin")
             /\ UNCHANGED <<files, referenced, nudged, pending, extra, refresh, asks>>

\* run_playback_pass: the marks a forced pass has to serve, then the folders; outputs
\* that cannot be read count as naming none, and nothing is removed then.
Begin == /\ At("begin")
         /\ \E complete \in BOOLEAN :
              mirror' = [pc |-> "plan", trigger |-> mirror.trigger, complete |-> complete,
                         named |-> referenced /\ complete,
                         marked |-> pending /\ mirror.trigger = "forced"]
         /\ UNCHANGED <<files, marks, asks>>

\* take_extras and should_sync
Plan ==
  \E read \in BOOLEAN :
    LET wanted == mirror.named \/ extra
        recent == read /\ manifest.synced /\ manifest.age < 1
        due == wanted /\ ~(mirror.trigger = "config" /\ recent)
    IN  /\ At("plan")
        /\ Reads(read)
        /\ extra' = FALSE
        /\ pending' = (pending \/ due)
        /\ mirror' = [pc |-> IF due THEN "list" ELSE "end",
                      marked |-> mirror.marked /\ ~due,
                      remove |-> mirror.complete /\ ~wanted]
        /\ UNCHANGED <<files, referenced, changed, nudged, refresh>>

\* sync_folder: the manifest is read, then the folder listed, or not.  What is in
\* its grace period is judged by the time of the listing.
List ==
  /\ At("list")
  /\ \/ Step("record") /\ UNCHANGED asks
     \/ \E listed \in SUBSET File, read \in BOOLEAN :
          /\ Reads(read)
          /\ mirror' = [pc |-> "files", marked |-> mirror.marked, remove |-> mirror.remove,
                        read |-> read, age |-> 0, left |-> listed, items |-> {},
                        graced |-> {f \in DOMAIN manifest.retired :
                                      read /\ manifest.retired[f] < Grace}]
  /\ UNCHANGED <<files, marks>>

\* What this sync knows of the one before it.
Old == IF mirror.read THEN manifest ELSE NoManifest
Kept(f) == {f} \intersect disk \intersect (Old.items \union DOMAIN Old.retired)

\* One file of the listing: downloaded; or unchanged, refused or waiting for its
\* retry, when the copy there is, if any and if it can be looked up, is kept.
Fetch ==
  /\ At("files")
  /\ \E f \in mirror.left :
       \/ /\ disk' = disk \union {f}
          /\ mirror' = [mirror EXCEPT !.left = @ \ {f}, !.items = @ \union {f}]
       \/ /\ UNCHANGED disk
          /\ \E kept \in SUBSET Kept(f) :
               mirror' = [mirror EXCEPT !.left = @ \ {f}, !.items = @ \union kept]
  /\ UNCHANGED <<manifest, page, excused, marks, asks>>

Fetched == /\ At("files") /\ mirror.left = {}
           /\ Step("write")
           /\ UNCHANGED <<files, marks, asks>>

RetireNone == None

\* retire: what leaves the playlist is served until its grace period is over.
Retire ==
  LET gone == Old.items \ mirror.items
  IN  [f \in (mirror.graced \ mirror.items) \union gone |->
         IF f \in mirror.graced THEN Old.retired[f] ELSE mirror.age]

\* What a sync took long to retire, or forgets as it could not read the manifest.
Lost == IF mirror.read
          THEN IF mirror.age + 1 < Grace THEN {} ELSE manifest.items \ mirror.items
          ELSE (manifest.items \union DOMAIN manifest.retired) \ mirror.items

\* write_manifest
Write ==
  /\ At("write")
  /\ \/ /\ manifest' = [items |-> mirror.items, retired |-> Retire,
                         synced |-> TRUE, age |-> mirror.age]
        /\ excused' = (excused \ mirror.items) \union Lost
        /\ GoOn("prune")
     \/ UNCHANGED <<manifest, excused>> /\ GoOn("record")
  /\ UNCHANGED <<disk, page, marks, asks>>

\* record_sync_error, whose own write may fail too: the playlist stays, or is emptied
\* when it cannot be read.
Record ==
  /\ At("record")
  /\ Step("synced")
  /\ \/ /\ UNCHANGED asks
        /\ manifest' \in {manifest,
                           [manifest EXCEPT !.age = IF manifest.synced THEN @ ELSE 0]}
        /\ UNCHANGED excused
     \/ /\ Ask
        /\ manifest' = [NoManifest EXCEPT !.age = 0]
        /\ excused' = excused \union manifest.items \union DOMAIN manifest.retired
  /\ UNCHANGED <<disk, page, marks>>

\* prune_files, file by file; some may not be removed.
Prune ==
  /\ At("prune")
  /\ \/ /\ \E f \in disk \ (manifest.items \union DOMAIN manifest.retired) :
             disk' = disk \ {f}
        /\ UNCHANGED mirror
     \/ UNCHANGED disk /\ Step("synced")
  /\ UNCHANGED <<manifest, page, excused, marks, asks>>

Synced == /\ At("synced")
          /\ pending' = FALSE
          /\ GoOn("end")
          /\ UNCHANGED <<files, referenced, changed, nudged, extra, refresh, asks>>

\* prune_unreferenced: a mirror whose manifest cannot be read goes at once, and a
\* removal may fail half-way.
Remove ==
  \/ UNCHANGED <<disk, manifest, excused, asks>>
  \/ /\ mirror.remove
     /\ \E read \in BOOLEAN : Reads(read) /\ (read => manifest.age >= Unused)
     /\ disk' \in SUBSET disk /\ manifest' \in {manifest, NoManifest}
     /\ excused' = File

EndMarked == /\ At("end")
             /\ Remove
             /\ mirror' = Select
             /\ UNCHANGED <<page, marks>>

\* A mark that a refresh left for a folder that is not due is taken away.
End == /\ At("end")
       /\ Remove
       /\ pending' = (pending /\ ~mirror.marked)
       /\ mirror' = Select
       /\ UNCHANGED <<page, referenced, changed, nudged, extra, refresh>>

Crash == /\ Ask
         /\ mirror' = Select
         /\ changed' = FALSE /\ nudged' = FALSE /\ pending' = FALSE /\ extra' = FALSE
         /\ refresh' = [r \in Request |-> "idle"]
         /\ UNCHANGED <<files, referenced>>

Pass == \/ Debounced \/ Begin \/ Plan \/ List \/ Fetch \/ Fetched
        \/ Write \/ Prune \/ Record \/ Synced \/ End

Next == \/ Minute \/ FetchPlaylist \/ Configure \/ Crash
        \/ \E r \in Request : AskRefresh(r) \/ MarkRefresh(r)
        \/ Tick \/ TakeNudge \/ TakeChange \/ Pass

\* A pass goes on, and select does not starve an operator's nudge.
Fairness == WF_driveVars(Pass) /\ SF_driveVars(TakeNudge)

Spec == Init /\ [][Next]_driveVars /\ Fairness

-----------------------------------------------------------------------------
\* Whatever a page may still ask for, its playlist being a minute old at most,
\* is served: also while the folder changes and across a crash at any step.  It
\* may not be if the sync that retired it took about as long as the grace period
\* (which counts from the listing); if a sync, or the record of one that failed, could
\* not read the manifest and wrote one that knows nothing of it; or if the mirror
\* was removed, after a day in which no pass synced it or when its manifest could
\* not be read.
FreshPlaylistsAreServed == page.age <= 1 => \A f \in page.items \ excused : Served(f)

\* The folder is not shown as being synced for ever: every mark is taken away,
\* though a pass that ran meanwhile took the link it was to serve.
MarksEnd == pending ~> ~pending

-----------------------------------------------------------------------------
(* The inductive invariant of the proofs (LoopsProof). *)

Syncing == At("files") \/ At("write")
Syncs == [pc : {"files", "write"}, marked : BOOLEAN, remove : BOOLEAN, read : BOOLEAN,
          age : Nat, left : SUBSET File, items : SUBSET File, graced : SUBSET File]
Passes ==
  {Select}
    \union [pc : {"begin", "debounce"}, trigger : {"periodic", "forced", "config"}]
    \union [pc : {"plan"}, trigger : {"periodic", "forced", "config"}, complete : BOOLEAN,
            named : BOOLEAN, marked : BOOLEAN]
    \union [pc : {"list", "prune", "record", "synced", "end"}, marked : BOOLEAN,
            remove : BOOLEAN]
    \union Syncs

Types == /\ disk \subseteq File /\ excused \subseteq File
         /\ manifest = [items |-> manifest.items, retired |-> manifest.retired,
                        synced |-> manifest.synced, age |-> manifest.age]
         /\ manifest.synced \in BOOLEAN
         /\ manifest.items \subseteq File /\ manifest.age \in Nat
         /\ DOMAIN manifest.retired \subseteq File
         /\ manifest.retired \in [DOMAIN manifest.retired -> Nat]
         /\ page \in [items : SUBSET File, age : Nat]
         /\ mirror \in Passes

\* What a sync will list is there, and what it found in its grace period known.
SyncOK == Syncing => /\ mirror.items \subseteq disk
                     /\ mirror.graced \subseteq DOMAIN Old.retired

\* A file is on the playlist or retired.
RetiredOK == manifest.items \intersect DOMAIN manifest.retired = {}

\* A retired file of a fresh playlist is not older than the playlist allows,
\* and a sync under way has seen its grace period run.
GraceOK(f) == /\ f \in DOMAIN manifest.retired
              /\ manifest.retired[f] + 1 < Grace + page.age
              /\ Syncing /\ mirror.read => f \in mirror.graced

PagesOK == page.age <= 1 =>
             \A f \in page.items \ excused :
               f \in disk /\ (f \in manifest.items \/ GraceOK(f))

IInv == Types /\ SyncOK /\ RetiredOK /\ PagesOK
=============================================================================
