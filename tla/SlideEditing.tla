---------------------------- MODULE SlideEditing ----------------------------
(***************************************************************************)
(* Operators edit the slides of a song while the synchronisation replaces  *)
(* them: slides/edit_ops.rs, presentation_lock.rs, slide_stage_layout.rs   *)
(* of presenter-server/src/state, and fetch_and_apply_one of its sync.rs.  *)
(*                                                                         *)
(* An edit takes the lock of the song, reads it from the database, writes  *)
(* back the list it has made, then carries the stage-layout markers along, *)
(* one statement at a time. The synchronisation fetches a version without  *)
(* the lock, looks up the song it is for, locks that song, and applies the *)
(* version in a transaction that looks the song up once more. Renaming and *)
(* trashing a song, and marking a slide, take no lock. A request may be    *)
(* dropped at any await, by an error or because its client went away.      *)
(*                                                                         *)
(* Left out: reconciling the stage and publishing (StageOutput), the cache *)
(* of songs, which no reader uses, libraries, and the rows a version of an *)
(* unknown song creates (SongSync).                                        *)
(***************************************************************************)
EXTENDS SlideLists, TLC

CONSTANTS Song,         \* the songs of the site
          Editor,       \* requests under way at once
          Layout,       \* the layouts a slide can be marked with
          SongName,
          Foreign,      \* identity of a song only the other site has
          Ops,          \* the requests made
          MaxRequests,  \* bound: requests
          MaxPulls,     \* bound: versions fetched
          MaxSlides     \* bound: slides of a song that an edit may start from

VARIABLES row,     \* row[s]: the row of song s, with its slides
          mark,    \* mark[i]: the song and the layout slide i is marked with
          holder,  \* holder[s]: who holds the lock of s
          edit,    \* edit[e]: the request e works on
          pull,    \* the version being pulled
          minted, clock, asked, pulls

vars == <<row, mark, holder, edit, pull, minted, clock, asked, pulls>>

Store == INSTANCE SlideStore WITH
           slides <- [s \in Song |-> row[s].slides],
           stamp <- [s \in Song |-> [at |-> row[s].at, by |-> row[s].by]]

Idle == [pc |-> "idle"]
Puller == "puller"

ASSUME SongAssumption == IsFiniteSet(Song) /\ Song = 1..Cardinality(Song)
ASSUME EditorAssumption == NULL \notin Editor /\ Puller \notin Editor /\ NULL # Puller

\* A site with songs of two slides each, the first of every song marked.
FirstId(s) == 2 * s - 1
Original(s) == <<Slide(FirstId(s), CHOOSE t \in Text : t # Blank),
                 Slide(FirstId(s) + 1, Blank)>>

Init == /\ \E n \in [Song -> SongName] :
             row = [s \in Song |-> [slides |-> Original(s), at |-> 0, by |-> "here",
                                    sid |-> s, name |-> n[s], live |-> TRUE]]
        /\ \E l \in Layout : mark = [i \in {FirstId(s) : s \in Song} |->
                                       [song |-> (i + 1) \div 2, layout |-> l]]
        /\ holder = [s \in Song |-> NULL]
        /\ edit = [e \in Editor |-> Idle]
        /\ pull = Idle
        /\ minted = 2 * Cardinality(Song)
        /\ clock = 0 /\ asked = 0 /\ pulls = 0

\* Song s, written here: every writer of a song stamps it in its transaction.
Write(s, list, n, live) ==
  /\ row' = [row EXCEPT ![s] = [slides |-> list, at |-> clock + 1, by |-> "here",
                                sid |-> row[s].sid, name |-> n, live |-> live]]
  /\ clock' = clock + 1

-----------------------------------------------------------------------------
\* Slide edits.

\* A client asks for an edit of the slides it shows.
Ask(e) ==
  /\ edit[e] = Idle /\ asked < MaxRequests
  /\ \E s \in Song : /\ row[s].live /\ Len(row[s].slides) <= MaxSlides
                     /\ \E r \in Requests(row[s].slides) :
                          /\ r.op \in Ops
                          /\ edit' = [edit EXCEPT ![e] = [pc |-> "lock", song |-> s, req |-> r]]
  /\ asked' = asked + 1
  /\ UNCHANGED <<row, mark, holder, pull, minted, clock, pulls>>

Lock(e) ==
  /\ edit[e].pc = "lock" /\ holder[edit[e].song] = NULL
  /\ holder' = [holder EXCEPT ![edit[e].song] = e]
  /\ edit' = [edit EXCEPT ![e].pc = "read"]
  /\ UNCHANGED <<row, mark, pull, minted, clock, asked, pulls>>

\* The request ends, and its lock is released.
Leave(e) ==
  /\ edit' = [edit EXCEPT ![e] = Idle]
  /\ holder' = [s \in Song |-> IF holder[s] = e THEN NULL ELSE holder[s]]

\* Faulty: the lock is given back once the song is read.
ReadUnlocked(e) ==
  /\ edit[e].pc = "read"
  /\ LET w == edit[e]
         r == row[w.song]
     IN  IF r.live /\ Allowed(r.slides, w.req)
         THEN /\ edit' = [edit EXCEPT ![e] = [pc |-> "write", song |-> w.song,
                                              req |-> w.req, snap |-> r.slides]]
              /\ holder' = [holder EXCEPT ![w.song] = NULL]
         ELSE Leave(e)
  /\ UNCHANGED <<row, mark, pull, minted, clock, asked, pulls>>

\* The song is read from the database. A request that no longer fits is
\* refused.
Read(e) ==
  /\ edit[e].pc = "read"
  /\ LET w == edit[e]
         r == row[w.song]
     IN  IF r.live /\ Allowed(r.slides, w.req)
         THEN /\ edit' = [edit EXCEPT ![e] = [pc |-> "write", song |-> w.song,
                                              req |-> w.req, snap |-> r.slides]]
              /\ UNCHANGED holder
         ELSE Leave(e)
  /\ UNCHANGED <<row, mark, pull, minted, clock, asked, pulls>>

\* Which slides' markers are copied to which, once the edit is written.
Copies(w) ==
  LET ids == Copied(w.req)
      from == SelectSeq(w.snap, LAMBDA x : x.id \in ids)
  IN  [k \in 1..Len(from) |-> <<from[k].id, minted + k>>]

\* A content edit rewrites its slide where it is; every other edit replaces the
\* slides by the list made of those that were read.
Replace(e) ==
  /\ edit[e].pc = "write"
  /\ LET w == edit[e]
         now == row[w.song].slides
         base == IF w.req.op = "update" THEN now ELSE w.snap
     IN  IF Allowed(base, w.req)
         THEN /\ Write(w.song, Result(base, w.req, minted), row[w.song].name,
                       row[w.song].live)
              /\ minted' = minted + Taken(base, w.req)
              /\ edit' = [edit EXCEPT ![e] = [pc |-> "marks", song |-> w.song,
                                              req |-> w.req, todo |-> Copies(w),
                                              found |-> NULL]]
              /\ UNCHANGED holder
         ELSE Leave(e) /\ UNCHANGED <<row, clock, minted>>
  /\ UNCHANGED <<mark, pull, asked, pulls>>

\* A copied slide takes over the marker of its source: read, unless that fails,
\* which is logged ...
ReadMark(e) ==
  /\ edit[e].pc = "marks" /\ edit[e].todo # <<>>
  /\ LET i == Head(edit[e].todo)[1]
     IN  \/ /\ i \in DOMAIN mark
            /\ edit' = [edit EXCEPT ![e].pc = "copy", ![e].found = mark[i].layout]
         \/ edit' = [edit EXCEPT ![e].todo = Tail(@)]
  /\ UNCHANGED <<row, mark, holder, pull, minted, clock, asked, pulls>>

Marked(i, m) == [j \in DOMAIN mark \union {i} |-> IF j = i THEN m ELSE mark[j]]
Unmarked(i) == [j \in DOMAIN mark \ {i} |-> mark[j]]

\* ... and then set.
CopyMark(e) ==
  /\ edit[e].pc = "copy"
  /\ mark' = Marked(Head(edit[e].todo)[2], [song |-> edit[e].song, layout |-> edit[e].found])
  /\ edit' = [edit EXCEPT ![e].pc = "marks", ![e].todo = Tail(@)]
  /\ UNCHANGED <<row, holder, pull, minted, clock, asked, pulls>>

\* The last marker is dealt with: a deleted slide loses its own.
Finish(e) ==
  /\ edit[e].pc = "marks" /\ edit[e].todo = <<>>
  /\ mark' = IF edit[e].req.op = "delete"
             THEN Unmarked(edit[e].req.id) ELSE mark
  /\ Leave(e)
  /\ UNCHANGED <<row, pull, minted, clock, asked, pulls>>

\* An error or a lost client ends the request where it is.
Abandon(e) ==
  /\ edit[e] # Idle
  /\ Leave(e)
  /\ UNCHANGED <<row, mark, pull, minted, clock, asked, pulls>>

-----------------------------------------------------------------------------
\* Requests that take no lock.

\* assign_slide_stage_layout: the slide is there ...
AskMark(e) ==
  /\ "assign" \in Ops /\ edit[e] = Idle /\ asked < MaxRequests
  /\ \E s \in Song, l \in Layout \union {NULL} :
       /\ row[s].live
       /\ \E i \in Ids(row[s].slides) :
            edit' = [edit EXCEPT ![e] = [pc |-> "assign", song |-> s, id |-> i, layout |-> l]]
  /\ asked' = asked + 1
  /\ UNCHANGED <<row, mark, holder, pull, minted, clock, pulls>>

\* ... and then its marker is set or cleared.
SetMark(e) ==
  /\ edit[e].pc = "assign"
  /\ mark' = IF edit[e].layout = NULL THEN Unmarked(edit[e].id)
             ELSE Marked(edit[e].id, [song |-> edit[e].song, layout |-> edit[e].layout])
  /\ edit' = [edit EXCEPT ![e] = Idle]
  /\ UNCHANGED <<row, holder, pull, minted, clock, asked, pulls>>

RenamePresentation(s) ==
  /\ "rename" \in Ops /\ asked < MaxRequests
  /\ \E n \in SongName : Write(s, row[s].slides, n, row[s].live)
  /\ asked' = asked + 1
  /\ UNCHANGED <<mark, holder, edit, pull, minted, pulls>>

\* The song goes to the trash, and its markers with it.
DeletePresentation(s) ==
  /\ "trash" \in Ops /\ asked < MaxRequests /\ row[s].live
  /\ Write(s, row[s].slides, row[s].name, FALSE)
  /\ mark' = [i \in {i \in DOMAIN mark : mark[i].song # s} |-> mark[i]]
  /\ asked' = asked + 1
  /\ UNCHANGED <<holder, edit, pull, minted, pulls>>

RestorePresentation(s) ==
  /\ "trash" \in Ops /\ asked < MaxRequests /\ ~row[s].live
  /\ Write(s, row[s].slides, row[s].name, TRUE)
  /\ asked' = asked + 1
  /\ UNCHANGED <<mark, holder, edit, pull, minted, pulls>>

-----------------------------------------------------------------------------
\* The synchronisation.

\* What the other site may hold of a song: an older state of it, or the present
\* one, with its slides in another order or one of them rewritten.
Versions(s) ==
  LET Variants(list) == {Reverse(list)} \union {[list EXCEPT ![1].text = t] : t \in Text}
  IN  Variants(Original(s)) \union Variants(row[s].slides)

Fetched(v) == pull' = [pc |-> "probe", version |-> v, target |-> {}]

\* A version is fetched from the other site, last changed there by now.
Fetch ==
  /\ pull = Idle /\ pulls < MaxPulls
  /\ \E at \in {clock, clock + 1} :
       /\ \/ \E s \in Song, live \in BOOLEAN : \E v \in Versions(s) :
               /\ Fetched([slides |-> v, at |-> at, sid |-> row[s].sid,
                           name |-> row[s].name, live |-> live])
               /\ UNCHANGED minted
          \/ \E n \in SongName, t \in Text :
               /\ Fetched([slides |-> <<Slide(minted + 1, t)>>, at |-> at,
                           sid |-> Foreign, name |-> n, live |-> TRUE])
               /\ minted' = minted + 1
       /\ clock' = at
  /\ pulls' = pulls + 1
  /\ UNCHANGED <<row, mark, holder, edit, asked>>

\* The song a version is for: the one of its identity, or the only one alive
\* under its name. The other site holds no song but the one it sent.
Target(v) ==
  LET same == {s \in Song : row[s].sid = v.sid}
      named == {s \in Song : row[s].name = v.name /\ row[s].live}
  IN  IF same # {} THEN same
      ELSE IF v.live /\ \E s \in Song : named = {s} THEN named ELSE {}

\* It is looked up before the lock is taken ...
Probe ==
  /\ pull.pc = "probe"
  /\ pull' = [pull EXCEPT !.pc = "lock", !.target = Target(pull.version)]
  /\ UNCHANGED <<row, mark, holder, edit, minted, clock, asked, pulls>>

\* Faulty: the version is applied without the lock of its song.
LockTargetNever ==
  /\ pull.pc = "lock"
  /\ pull' = [pull EXCEPT !.pc = "apply"]
  /\ UNCHANGED <<row, mark, holder, edit, minted, clock, asked, pulls>>

LockTarget ==
  /\ pull.pc = "lock" /\ \A s \in pull.target : holder[s] = NULL
  /\ holder' = [s \in Song |-> IF s \in pull.target THEN Puller ELSE holder[s]]
  /\ pull' = [pull EXCEPT !.pc = "apply"]
  /\ UNCHANGED <<row, mark, edit, minted, clock, asked, pulls>>

\* Faulty: only the markers of slides the song still has are removed.
MarkersLeavingOrphans(s, v) ==
  LET old == row[s].slides
      others == {i \in DOMAIN mark : mark[i].song # s \/ i \notin Ids(old)}
      M == {k \in DOMAIN old : v.live /\ old[k].id \in DOMAIN mark /\ mark[old[k].id].song = s}
      to == Remapped(old, M, v.slides)
      kept == {v.slides[to[k]].id : k \in DOMAIN to}
  IN  [i \in kept \union others |->
         IF i \in kept THEN mark[old[CHOOSE k \in DOMAIN to : v.slides[to[k]].id = i].id]
         ELSE mark[i]]

\* The markers of song s when the version v replaces its slides: those of a
\* song that arrives trashed are dropped.
Markers(s, v) ==
  LET old == row[s].slides
      others == {i \in DOMAIN mark : mark[i].song # s}
      M == {k \in DOMAIN old : v.live /\ old[k].id \in DOMAIN mark /\ mark[old[k].id].song = s}
      to == Remapped(old, M, v.slides)
      kept == {v.slides[to[k]].id : k \in DOMAIN to}
  IN  [i \in kept \union others |->
         IF i \in kept THEN mark[old[CHOOSE k \in DOMAIN to : v.slides[to[k]].id = i].id]
         ELSE mark[i]]

\* ... and again in the transaction, which writes the version if it is newer.
Apply ==
  /\ pull.pc = "apply"
  /\ LET v == pull.version
         newer == {s \in Target(v) : v.at > row[s].at}
     IN  /\ row' = [s \in Song |-> IF s \notin newer THEN row[s] ELSE
                      [slides |-> v.slides, at |-> v.at, by |-> "peer",
                       sid |-> v.sid, name |-> v.name, live |-> v.live]]
         /\ \/ newer = {} /\ mark' = mark
            \/ \E s \in newer : mark' = Markers(s, v)
  /\ pull' = Idle
  /\ holder' = [s \in Song |-> IF holder[s] = Puller THEN NULL ELSE holder[s]]
  /\ UNCHANGED <<edit, minted, clock, asked, pulls>>

-----------------------------------------------------------------------------

EditStep(e) == \/ Lock(e) \/ Read(e) \/ Replace(e) \/ ReadMark(e) \/ CopyMark(e)
               \/ Finish(e) \/ SetMark(e)

Next == \/ \E e \in Editor : Ask(e) \/ AskMark(e) \/ Abandon(e) \/ EditStep(e)
        \/ \E s \in Song : \/ RenamePresentation(s) \/ DeletePresentation(s)
                            \/ RestorePresentation(s)
        \/ Fetch \/ Probe \/ LockTarget \/ Apply

Spec == Init /\ [][Next]_vars

-----------------------------------------------------------------------------
\* Properties.

\* Slide edits and the versions of the other site never interleave on one song:
\* each edit is made of the slides the song has when it is written, which is
\* what the lock of the song is for (presentation_lock.rs).
Atomic == Store!StoreSpec

\* What an edit is about to write was made from the slides the song still has.
SnapshotIsCurrent ==
  \A e \in Editor : edit[e].pc = "write" => edit[e].snap = row[edit[e].song].slides

\* A slide that comes to a song carries the marker of a slide that was there,
\* never one left over from an earlier slide of its identity: a deleted slide
\* that the other site still had comes back unmarked (replace_slides).
NoMarkRevives ==
  [][\A s \in Song :
       \A i \in Ids(row'[s].slides) \ Ids(row[s].slides) :
         i \in DOMAIN mark' =>
           \E j \in Ids(row[s].slides) : j \in DOMAIN mark /\ mark[j].layout = mark'[i].layout]_vars

\* When the other site's list replaces a song's, a marked slide that alone had
\* its content hands its marker to a slide with that content, wherever it is now.
MarkStaysWithText ==
  [][\A s \in Song : row'[s].by = "peer" /\ row'[s] # row[s] /\ row'[s].live =>
       \A k \in DOMAIN row[s].slides :
         LET x == row[s].slides[k] IN
         x.id \in DOMAIN mark /\ Distinct(row[s].slides, k)
         /\ SameText(row[s].slides, k, row'[s].slides) # {} =>
           \E n \in SameText(row[s].slides, k, row'[s].slides) :
             LET y == row'[s].slides[n].id IN
             y \in DOMAIN mark' /\ mark'[y].layout = mark[x.id].layout]_vars
=============================================================================
