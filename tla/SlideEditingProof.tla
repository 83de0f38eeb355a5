-------------------------- MODULE SlideEditingProof --------------------------
(***************************************************************************)
(* Slide edits are atomic: SlideEditing implements SlideStore, for any     *)
(* number of songs, editors and versions, as long as songs are neither     *)
(* renamed nor trashed meanwhile. The run lost_version shows what happens  *)
(* when they are: the song a version is for may then be another one than   *)
(* the song whose lock was taken for it. Under the same hypothesis, the    *)
(* stage-layout markers follow the slides that the other site's list       *)
(* replaces, and none comes back with a slide.                             *)
(***************************************************************************)
EXTENDS SlideEditing, TLAPS, FiniteSetTheorems, WellFoundedInduction, SequenceTheorems

\* No operation that changes which song a version is for.
Steady == "rename" \notin Ops /\ "trash" \notin Ops

-----------------------------------------------------------------------------
\* The inductive invariant.

\* A request of one of the forms of Requests, whatever slides it names.
Request(r) ==
  /\ r.op = "paste" => r = [op |-> "paste", ids |-> r.ids, anchor |-> r.anchor]
  /\ r.op = "update" => r = [op |-> "update", id |-> r.id, text |-> r.text] /\ r.text \in Text
  /\ r.op = "insert" => r = [op |-> "insert", at |-> r.at] /\ r.at \in Position
  /\ r.op \in {"duplicate", "delete"} => r = [op |-> r.op, id |-> r.id]
  /\ r.op = "reorder" => r = [op |-> "reorder", order |-> r.order]
                         /\ r.order \in Orders(ToSet(r.order))
  /\ r.op \in {"paste", "update", "insert", "duplicate", "delete", "reorder"}

RowsOK == /\ row = [s \in Song |-> row[s]]
          /\ \A s \in Song :
               /\ row[s] = [slides |-> row[s].slides, at |-> row[s].at, by |-> row[s].by,
                            sid |-> row[s].sid, name |-> row[s].name, live |-> row[s].live]
               /\ row[s].at \in Nat
          /\ clock \in Nat

\* Songs keep apart, so that a version is for one of them at most.
SongsApart == \A s, t \in Song : row[s].sid = row[t].sid => s = t

\* What an editor holds at each point of its request.
EditOK(e) ==
  /\ edit[e].pc \in {"lock", "read"} =>
       edit[e] = [pc |-> edit[e].pc, song |-> edit[e].song, req |-> edit[e].req]
  /\ edit[e].pc \in {"lock", "read", "write"} =>
       edit[e].song \in Song /\ Request(edit[e].req)
  /\ edit[e].pc \in {"read", "write"} => holder[edit[e].song] = e
  /\ edit[e].pc \in {"marks", "copy"} =>
       edit[e] = [pc |-> edit[e].pc, song |-> edit[e].song, req |-> edit[e].req,
                  todo |-> edit[e].todo, found |-> edit[e].found]

EditsOK == /\ edit = [e \in Editor |-> edit[e]]
           /\ holder = [s \in Song |-> holder[s]]
           /\ \A e \in Editor : EditOK(e)

\* The version being applied is for the song whose lock is held.
PullOK == /\ pull.pc # "idle" => /\ pull = [pc |-> pull.pc, version |-> pull.version,
                                            target |-> pull.target]
                                 /\ pull.version.at \in 0..clock
          /\ pull.pc \in {"lock", "apply"} => pull.target = Target(pull.version)
          /\ pull.pc = "apply" => \A s \in pull.target : holder[s] = Puller

IInv == RowsOK /\ SongsApart /\ EditsOK /\ PullOK /\ SnapshotIsCurrent

-----------------------------------------------------------------------------
\* Requests.

\* Every request of a client has one of the forms.
LEMMA RequestForms == ASSUME NEW list, NEW r \in Requests(list)
                      PROVE  Request(r)
<1> DEFINE ids == Ids(list)
<1>1. CASE r \in [op : {"paste"}, ids : SUBSET ids, anchor : ids \union {NULL}]
  BY <1>1 DEF Request
<1>2. CASE r \in [op : {"update"}, id : ids, text : Text]
  BY <1>2 DEF Request
<1>3. CASE r \in [op : {"insert"}, at : Position]
  BY <1>3 DEF Request
<1>4. CASE r \in [op : {"duplicate", "delete"}, id : ids]
  BY <1>4 DEF Request
<1>5. CASE r \in [op : {"reorder"}, order : Orders(ids)]
  <2>1. r.order \in Orders(ToSet(r.order))
    BY <1>5 DEF Orders
  <2> QED  BY <1>5, <2>1 DEF Request
<1> QED  BY <1>1, <1>2, <1>3, <1>4, <1>5 DEF Requests

\* A request that fits a list is one that a client showing that list can make.
LEMMA RequestFits == ASSUME NEW list, NEW r, Request(r), Allowed(list, r)
                     PROVE  r \in Requests(list)
<1> DEFINE ids == Ids(list)
<1>1. CASE r.op = "paste"
  <2>1. r.ids \in SUBSET ids /\ r.anchor \in ids \union {NULL}
    BY <1>1 DEF Allowed
  <2>2. r \in [op : {"paste"}, ids : SUBSET ids, anchor : ids \union {NULL}]
    BY <1>1, <2>1 DEF Request
  <2> QED  BY <2>2 DEF Requests
<1>2. CASE r.op = "update"
  <2>1. r.id \in ids
    BY <1>2 DEF Allowed
  <2>2. r \in [op : {"update"}, id : ids, text : Text]
    BY <1>2, <2>1 DEF Request
  <2> QED  BY <2>2 DEF Requests
<1>3. CASE r.op = "insert"
  <2>1. r \in [op : {"insert"}, at : Position]
    BY <1>3 DEF Request
  <2> QED  BY <2>1 DEF Requests
<1>4. CASE r.op \in {"duplicate", "delete"}
  <2>1. r.id \in ids
    BY <1>4 DEF Allowed
  <2>2. r \in [op : {"duplicate", "delete"}, id : ids]
    BY <1>4, <2>1 DEF Request
  <2> QED  BY <2>2 DEF Requests
<1>5. CASE r.op = "reorder"
  <2>1. ToSet(r.order) = ids
    BY <1>5 DEF Allowed
  <2>2. r \in [op : {"reorder"}, order : Orders(ids)]
    BY <1>5, <2>1 DEF Request
  <2> QED  BY <2>2 DEF Requests
<1> QED  BY <1>1, <1>2, <1>3, <1>4, <1>5 DEF Request

-----------------------------------------------------------------------------
\* The invariant is inductive.

THEOREM InitInv == Init => IInv
<1> SUFFICES ASSUME Init PROVE IInv
  OBVIOUS
<1>1. RowsOK
  <2>1. PICK n : row = [s \in Song |-> [slides |-> Original(s), at |-> 0, by |-> "here",
                                       sid |-> s, name |-> n[s], live |-> TRUE]]
    BY DEF Init
  <2> QED  BY <2>1 DEF Init, RowsOK
<1>2. SongsApart
  BY DEF Init, SongsApart
<1>3. EditsOK /\ SnapshotIsCurrent
  BY DEF Init, EditsOK, EditOK, SnapshotIsCurrent, Idle
<1>4. PullOK
  BY DEF Init, PullOK, Idle
<1> QED  BY <1>1, <1>2, <1>3, <1>4 DEF IInv

\* While no song changes its identity, its name or its place in the trash, a
\* version stays the version of one song.
LEMMA TargetStays ==
  ASSUME \A s \in Song : /\ row'[s].sid = row[s].sid /\ row'[s].name = row[s].name
                          /\ row'[s].live = row[s].live
  PROVE  \A v : Target(v)' = Target(v)
<1> SUFFICES ASSUME NEW v PROVE Target(v)' = Target(v)
  OBVIOUS
<1>1. {s \in Song : row'[s].sid = v.sid} = {s \in Song : row[s].sid = v.sid}
  OBVIOUS
<1>2. {s \in Song : row'[s].name = v.name /\ row'[s].live}
      = {s \in Song : row[s].name = v.name /\ row[s].live}
  OBVIOUS
<1> QED  BY <1>1, <1>2 DEF Target

\* A step of one editor that leaves the songs alone: what the others hold stays.
LEMMA EditorStep ==
  ASSUME IInv, NEW e \in Editor, NEW w,
         edit' = [edit EXCEPT ![e] = w],
         UNCHANGED <<row, clock, pull>>,
         holder' = [s \in Song |-> holder'[s]],
         \A s \in Song : holder'[s] # holder[s] => holder[s] \in {e, NULL} /\ holder'[s] \in {e, NULL},
         EditOK(e)', w.pc = "write" => w.snap = row[w.song].slides
  PROVE  IInv'
<1> USE EditorAssumption
<1>1. edit'[e] = w /\ \A x \in Editor \ {e} : edit'[x] = edit[x]
  BY DEF IInv, EditsOK
<1>2. RowsOK' /\ SongsApart'
  BY DEF IInv, RowsOK, SongsApart
<1>3. ASSUME NEW x \in Editor PROVE EditOK(x)'
  <2>1. CASE x = e
    BY <2>1
  <2>2. CASE x # e
    <3>1. EditOK(x)
      BY DEF IInv, EditsOK
    <3>2. edit'[x] = edit[x]
      BY <1>1, <2>2
    <3>3. edit[x].pc \in {"read", "write"} => holder'[edit[x].song] = holder[edit[x].song]
      BY <3>1, <2>2 DEF EditOK
    <3> QED  BY <3>1, <3>2, <3>3 DEF EditOK
  <2> QED  BY <2>1, <2>2
<1>4. edit' = [x \in Editor |-> edit'[x]]
  BY DEF IInv, EditsOK
<1>5. PullOK'
  <2>1. \A v : Target(v)' = Target(v)
    BY TargetStays
  <2>2. pull.pc = "apply" => pull.target \subseteq Song
    BY DEF IInv, PullOK, Target
  <2>3. pull.pc = "apply" => \A s \in pull.target : holder'[s] = Puller
    BY <2>2 DEF IInv, PullOK
  <2> QED  BY <2>1, <2>3 DEF IInv, PullOK
<1>6. SnapshotIsCurrent'
  BY <1>1 DEF IInv, SnapshotIsCurrent
<1> QED  BY <1>2, <1>3, <1>4, <1>5, <1>6 DEF IInv, EditsOK

\* The steps of an edit.
LEMMA AskInv == ASSUME IInv, NEW e \in Editor, Ask(e) PROVE IInv'
<1>0. PICK s \in Song : \E r \in Requests(row[s].slides) :
        edit' = [edit EXCEPT ![e] = [pc |-> "lock", song |-> s, req |-> r]]
  BY DEF Ask
<1>1. PICK r \in Requests(row[s].slides) :
        edit' = [edit EXCEPT ![e] = [pc |-> "lock", song |-> s, req |-> r]]
  BY <1>0
<1> DEFINE w == [pc |-> "lock", song |-> s, req |-> r]
<1>2. edit'[e] = w
  BY <1>1 DEF IInv, EditsOK
<1>3. EditOK(e)'
  <2>1. Request(r)
    BY RequestForms
  <2> QED  BY <1>2, <2>1 DEF EditOK
<1>4. UNCHANGED <<row, clock, pull, holder>> /\ holder = [x \in Song |-> holder[x]]
  BY DEF Ask, IInv, EditsOK
<1> HIDE DEF w
<1> QED  BY <1>1, <1>3, <1>4, EditorStep DEF w

LEMMA LockInv == ASSUME IInv, NEW e \in Editor, Lock(e) PROVE IInv'
<1> DEFINE s == edit[e].song
           w == [pc |-> "read", song |-> s, req |-> edit[e].req]
<1>1. s \in Song /\ edit[e] = [pc |-> "lock", song |-> s, req |-> edit[e].req]
  BY DEF Lock, IInv, EditsOK, EditOK
<1>2. edit' = [edit EXCEPT ![e] = w] /\ holder' = [holder EXCEPT ![s] = e] /\ holder[s] = NULL
  <2>1. [edit[e] EXCEPT !.pc = "read"] = w
    BY <1>1
  <2>2. edit' = [edit EXCEPT ![e] = [edit[e] EXCEPT !.pc = "read"]]
    BY DEF Lock
  <2> HIDE DEF w
  <2> QED  BY <2>1, <2>2 DEF Lock
<1>3. edit'[e] = w /\ holder'[s] = e
  BY <1>1, <1>2 DEF IInv, EditsOK
<1>4. EditOK(e)'
  <2>1. Request(edit[e].req)
    BY DEF Lock, IInv, EditsOK, EditOK
  <2> QED  BY <1>1, <1>3, <2>1 DEF EditOK
<1>5. holder' = [x \in Song |-> holder'[x]]
  BY <1>2 DEF IInv, EditsOK
<1>6. \A x \in Song : holder'[x] # holder[x] => holder[x] \in {e, NULL} /\ holder'[x] \in {e, NULL}
  BY <1>1, <1>2 DEF IInv, EditsOK
<1>7. UNCHANGED <<row, clock, pull>>
  BY DEF Lock
<1>8. w.pc # "write"
  OBVIOUS
<1> HIDE DEF w
<1> QED  BY <1>2, <1>4, <1>5, <1>6, <1>7, <1>8, EditorStep

LEMMA LeaveInv ==
  ASSUME IInv, NEW e \in Editor, Leave(e), UNCHANGED <<row, clock, pull>>
  PROVE  IInv'
<1>1. edit' = [edit EXCEPT ![e] = Idle] /\ edit'[e] = Idle
  BY DEF Leave, IInv, EditsOK
<1>2. EditOK(e)' /\ Idle.pc # "write"
  BY <1>1 DEF EditOK, Idle
<1>3. holder' = [s \in Song |-> holder'[s]]
      /\ \A x \in Song : holder'[x] # holder[x] => holder[x] \in {e, NULL} /\ holder'[x] \in {e, NULL}
  BY DEF Leave
<1> QED  BY <1>1, <1>2, <1>3, EditorStep

LEMMA ReadInv == ASSUME IInv, NEW e \in Editor, Read(e) PROVE IInv'
<1> DEFINE s == edit[e].song
           w == [pc |-> "write", song |-> s, req |-> edit[e].req, snap |-> row[s].slides]
<1>1. s \in Song /\ Request(edit[e].req) /\ holder[s] = e
  BY DEF Read, IInv, EditsOK, EditOK
<1>2. UNCHANGED <<row, clock, pull>> /\ holder = [x \in Song |-> holder[x]]
  BY DEF Read, IInv, EditsOK
<1>3. CASE edit' = [edit EXCEPT ![e] = w] /\ UNCHANGED holder
  <2>1. edit'[e] = w
    BY <1>3 DEF IInv, EditsOK
  <2>2. EditOK(e)'
    BY <1>1, <1>3, <2>1 DEF EditOK
  <2>3. w.pc = "write" => w.snap = row[w.song].slides
    OBVIOUS
  <2> HIDE DEF w
  <2> QED  BY <1>2, <1>3, <2>2, <2>3, EditorStep
<1>4. CASE Leave(e)
  BY <1>2, <1>4, LeaveInv
<1> QED  BY <1>3, <1>4 DEF Read

\* The steps after the song is written.
LEMMA MarksInv ==
  ASSUME IInv, NEW e \in Editor, ReadMark(e) \/ CopyMark(e) PROVE IInv'
<1> DEFINE w == edit'[e]
<1>1. edit[e] = [pc |-> edit[e].pc, song |-> edit[e].song, req |-> edit[e].req,
                 todo |-> edit[e].todo, found |-> edit[e].found]
  BY DEF ReadMark, CopyMark, IInv, EditsOK, EditOK
<1>2. /\ edit' = [edit EXCEPT ![e] = w]
      /\ w.pc \in {"marks", "copy"}
      /\ w = [pc |-> w.pc, song |-> w.song, req |-> w.req, todo |-> w.todo, found |-> w.found]
  BY <1>1 DEF ReadMark, CopyMark, IInv, EditsOK
<1>3. EditOK(e)'
  BY <1>2 DEF EditOK
<1>4. UNCHANGED <<row, clock, pull, holder>> /\ holder = [s \in Song |-> holder[s]]
  BY DEF ReadMark, CopyMark, IInv, EditsOK
<1> HIDE DEF w
<1> QED  BY <1>2, <1>3, <1>4, EditorStep

LEMMA SetMarkInv ==
  ASSUME IInv, NEW e \in Editor, AskMark(e) \/ SetMark(e) PROVE IInv'
<1>1. PICK w : /\ edit' = [edit EXCEPT ![e] = w] /\ w.pc \in {"assign", "idle"}
  BY DEF AskMark, SetMark, Idle
<1>2. EditOK(e)'
  BY <1>1 DEF EditOK, IInv, EditsOK
<1>3. UNCHANGED <<row, clock, pull, holder>> /\ holder = [s \in Song |-> holder[s]]
  BY DEF AskMark, SetMark, IInv, EditsOK
<1> QED  BY <1>1, <1>2, <1>3, EditorStep

\* The list is written back: the lock keeps every other editor of the song, and
\* the synchronisation, from having read it.
LEMMA ReplaceInv == ASSUME IInv, NEW e \in Editor, Replace(e) PROVE IInv'
<1> USE EditorAssumption
<1> DEFINE s == edit[e].song
           base == IF edit[e].req.op = "update" THEN row[s].slides ELSE edit[e].snap
<1>1. s \in Song /\ Request(edit[e].req) /\ holder[s] = e
  BY DEF Replace, IInv, EditsOK, EditOK
<1>2. CASE Leave(e) /\ UNCHANGED <<row, clock, minted>>
  BY <1>2, LeaveInv DEF Replace
<1>3. CASE ~(Leave(e) /\ UNCHANGED <<row, clock, minted>>)
  <2> DEFINE list == Result(base, edit[e].req, minted)
             w == [pc |-> "marks", song |-> s, req |-> edit[e].req,
                   todo |-> Copies(edit[e]), found |-> NULL]
  <2>1. /\ Write(s, list, row[s].name, row[s].live)
        /\ edit' = [edit EXCEPT ![e] = w]
        /\ UNCHANGED <<holder, pull>>
    BY <1>3 DEF Replace
  <2> HIDE DEF list, base
  <2>2. row' = [row EXCEPT ![s] = [slides |-> list, at |-> clock + 1, by |-> "here",
                                   sid |-> row[s].sid, name |-> row[s].name,
                                   live |-> row[s].live]]
    BY <2>1 DEF Write
  <2>3. clock' = clock + 1
    BY <2>1 DEF Write
  <2>4. RowsOK' /\ SongsApart'
    BY <1>1, <2>2, <2>3 DEF IInv, RowsOK, SongsApart
  <2>5. edit'[e] = w /\ \A x \in Editor \ {e} : edit'[x] = edit[x]
    BY <2>1 DEF IInv, EditsOK
  <2>6. ASSUME NEW x \in Editor PROVE EditOK(x)'
    BY <2>1, <2>5 DEF IInv, EditsOK, EditOK
  <2>7. edit' = [x \in Editor |-> edit'[x]] /\ holder' = [x \in Song |-> holder'[x]]
    BY <2>1 DEF IInv, EditsOK
  <2>8. PullOK'
    <3>1. \A x \in Song : /\ row'[x].sid = row[x].sid /\ row'[x].name = row[x].name
                           /\ row'[x].live = row[x].live
      BY <1>1, <2>2 DEF IInv, RowsOK
    <3>2. \A v : Target(v)' = Target(v)
      BY <3>1, TargetStays
    <3>3. pull.pc # "idle" => pull.version.at \in 0..clock'
      BY <2>3 DEF IInv, PullOK, RowsOK
    <3> QED  BY <2>1, <3>2, <3>3 DEF IInv, PullOK
  <2>9. SnapshotIsCurrent'
    <3> SUFFICES ASSUME NEW x \in Editor, edit'[x].pc = "write"
                 PROVE  edit'[x].snap = row'[edit'[x].song].slides
      BY DEF SnapshotIsCurrent
    <3>1. x # e /\ edit'[x] = edit[x]
      BY <2>5
    <3>2. holder[edit[x].song] = x /\ edit[x].song \in Song
      BY <3>1 DEF IInv, EditsOK, EditOK
    <3>3. row'[edit[x].song] = row[edit[x].song]
      BY <1>1, <2>2, <3>1, <3>2 DEF IInv, RowsOK
    <3> QED  BY <3>1, <3>3 DEF IInv, SnapshotIsCurrent
  <2> QED  BY <2>4, <2>6, <2>7, <2>8, <2>9 DEF IInv, EditsOK
<1> QED  BY <1>2, <1>3

-----------------------------------------------------------------------------
\* The steps of the synchronisation.

LEMMA FetchInv == ASSUME IInv, Fetch PROVE IInv'
<1>1. PICK v : pull' = [pc |-> "probe", version |-> v, target |-> {}] /\ v.at = clock'
  BY DEF Fetch, Fetched
<1>2. clock' \in {clock, clock + 1} /\ UNCHANGED <<row, holder, edit>>
  BY DEF Fetch
<1>3. RowsOK' /\ SongsApart' /\ clock' \in Nat
  BY <1>2 DEF IInv, RowsOK, SongsApart
<1>4. EditsOK' /\ SnapshotIsCurrent'
  BY <1>2 DEF IInv, EditsOK, EditOK, SnapshotIsCurrent
<1>5. PullOK'
  BY <1>1, <1>3 DEF PullOK
<1> QED  BY <1>3, <1>4, <1>5 DEF IInv

LEMMA ProbeInv == ASSUME IInv, Probe PROVE IInv'
<1>1. /\ pull' = [pc |-> "lock", version |-> pull.version, target |-> Target(pull.version)]
      /\ pull.version.at \in 0..clock
  BY DEF Probe, IInv, PullOK
<1>2. UNCHANGED <<row, clock, holder, edit>>
  BY DEF Probe
<1>3. RowsOK' /\ SongsApart' /\ EditsOK' /\ SnapshotIsCurrent'
  BY <1>2 DEF IInv, RowsOK, SongsApart, EditsOK, EditOK, SnapshotIsCurrent
<1>4. PullOK'
  BY <1>1, <1>2 DEF PullOK, Target
<1> QED  BY <1>3, <1>4 DEF IInv

LEMMA LockTargetInv == ASSUME IInv, LockTarget PROVE IInv'
<1> USE EditorAssumption
<1>1. /\ pull' = [pc |-> "apply", version |-> pull.version, target |-> pull.target]
      /\ pull.version.at \in 0..clock /\ pull.target = Target(pull.version)
  BY DEF LockTarget, IInv, PullOK
<1>2. UNCHANGED <<row, clock, edit>>
  BY DEF LockTarget
<1>3. \A s \in Song : holder'[s] = IF s \in pull.target THEN Puller ELSE holder[s]
  BY DEF LockTarget
<1>4. RowsOK' /\ SongsApart' /\ SnapshotIsCurrent'
  BY <1>2 DEF IInv, RowsOK, SongsApart, SnapshotIsCurrent
<1>5. EditsOK'
  <2>1. ASSUME NEW e \in Editor, edit[e].pc \in {"read", "write"}
        PROVE  holder'[edit[e].song] = e
    <3>1. holder[edit[e].song] = e /\ edit[e].song \in Song
      BY <2>1 DEF IInv, EditsOK, EditOK
    <3>2. edit[e].song \notin pull.target
      BY <3>1 DEF LockTarget
    <3> QED  BY <1>3, <3>1, <3>2
  <2>2. holder' = [s \in Song |-> holder'[s]]
    BY DEF LockTarget
  <2> QED  BY <1>2, <2>1, <2>2 DEF IInv, EditsOK, EditOK
<1>6. PullOK'
  <2>1. \A v : Target(v)' = Target(v)
    BY <1>2, TargetStays
  <2>2. pull.target \subseteq Song
    BY <1>1 DEF Target
  <2> QED  BY <1>1, <1>2, <1>3, <2>1, <2>2 DEF PullOK
<1> QED  BY <1>4, <1>5, <1>6 DEF IInv

\* A version is for one song at most.
LEMMA OneTarget == ASSUME IInv, NEW v, NEW s \in Target(v), NEW t \in Target(v) PROVE s = t
BY DEF Target, IInv, SongsApart

LEMMA ApplyInv == ASSUME IInv, Apply PROVE IInv'
<1> USE EditorAssumption
<1> DEFINE v == pull.version
           newer == {s \in Target(v) : v.at > row[s].at}
<1>1. v.at \in 0..clock /\ \A s \in Target(v) : s \in Song /\ holder[s] = Puller
  BY DEF Apply, IInv, PullOK, Target
<1>2. row' = [s \in Song |-> IF s \notin newer THEN row[s] ELSE
                [slides |-> v.slides, at |-> v.at, by |-> "peer",
                 sid |-> v.sid, name |-> v.name, live |-> v.live]]
  BY DEF Apply
<1>3. pull' = Idle /\ UNCHANGED <<edit, clock>>
      /\ holder' = [s \in Song |-> IF holder[s] = Puller THEN NULL ELSE holder[s]]
  BY DEF Apply
<1> HIDE DEF v
<1>4. RowsOK'
  BY <1>1, <1>2, <1>3 DEF IInv, RowsOK
<1>5. ASSUME NEW e \in Editor, edit[e].pc \in {"read", "write"}
      PROVE  holder'[edit[e].song] = e /\ row'[edit[e].song] = row[edit[e].song]
  <2>1. edit[e].song \in Song /\ holder[edit[e].song] = e
    BY <1>5 DEF IInv, EditsOK, EditOK
  <2> QED  BY <1>1, <1>2, <1>3, <2>1
<1>6. EditsOK'
  BY <1>3, <1>5 DEF IInv, EditsOK, EditOK
<1>7. SnapshotIsCurrent'
  BY <1>3, <1>5 DEF IInv, SnapshotIsCurrent
<1>8. PullOK'
  BY <1>3 DEF PullOK, Idle
<1>9. SongsApart'
  <2> SUFFICES ASSUME NEW s \in Song, NEW t \in Song, row'[s].sid = row'[t].sid PROVE s = t
    BY DEF SongsApart
  <2>1. CASE s \in newer /\ t \in newer
    BY <2>1, OneTarget
  <2>2. CASE s \notin newer /\ t \notin newer
    BY <1>2, <2>2 DEF IInv, SongsApart
  <2>3. ASSUME NEW a \in newer, NEW b \in Song \ newer, row'[a].sid = row'[b].sid
        PROVE  FALSE
    <3>1. a \in Song /\ row[b].sid = v.sid
      BY <1>1, <1>2, <2>3
    <3>2. b \in Target(v)
      BY <3>1 DEF Target
    <3>3. a = b
      BY <3>2, OneTarget
    <3> QED  BY <3>3
  <2> QED  BY <2>1, <2>2, <2>3
<1> QED  BY <1>4, <1>6, <1>7, <1>8, <1>9 DEF IInv

THEOREM StepInv == ASSUME Steady, IInv, [Next]_vars PROVE IInv'
<1>1. ASSUME NEW e \in Editor, Ask(e) PROVE IInv'
  BY <1>1, AskInv
<1>2. ASSUME NEW e \in Editor, AskMark(e) \/ SetMark(e) PROVE IInv'
  BY <1>2, SetMarkInv
<1>3. ASSUME NEW e \in Editor, Lock(e) PROVE IInv'
  BY <1>3, LockInv
<1>4. ASSUME NEW e \in Editor, Read(e) PROVE IInv'
  BY <1>4, ReadInv
<1>5. ASSUME NEW e \in Editor, Replace(e) PROVE IInv'
  BY <1>5, ReplaceInv
<1>6. ASSUME NEW e \in Editor, ReadMark(e) \/ CopyMark(e) PROVE IInv'
  BY <1>6, MarksInv
<1>7. ASSUME NEW e \in Editor, Finish(e) \/ Abandon(e) PROVE IInv'
  BY <1>7, LeaveInv DEF Finish, Abandon
<1>8. ASSUME NEW s \in Song, RenamePresentation(s) \/ DeletePresentation(s)
                             \/ RestorePresentation(s)
      PROVE  FALSE
  BY <1>8 DEF Steady, RenamePresentation, DeletePresentation, RestorePresentation
<1>9. CASE UNCHANGED vars
  <2>1. RowsOK' /\ SongsApart' /\ SnapshotIsCurrent'
    BY <1>9 DEF vars, IInv, RowsOK, SongsApart, SnapshotIsCurrent
  <2>2. EditsOK'
    BY <1>9 DEF vars, IInv, EditsOK, EditOK
  <2>3. PullOK'
    BY <1>9 DEF vars, IInv, PullOK, Target
  <2> QED  BY <2>1, <2>2, <2>3 DEF IInv
<1> QED
  BY <1>1, <1>2, <1>3, <1>4, <1>5, <1>6, <1>7, <1>8, <1>9,
     FetchInv, ProbeInv, LockTargetInv, ApplyInv DEF Next, EditStep

\* What an edit is about to write was made from the slides the song still has,
\* as long as no version may turn out to be for a song whose lock it lacks.
THEOREM SnapshotsStayCurrent == ASSUME Steady PROVE Spec => []SnapshotIsCurrent
<1>1. IInv => SnapshotIsCurrent
  BY DEF IInv
<1> QED  BY InitInv, StepInv, <1>1, PTL DEF Spec

-----------------------------------------------------------------------------
\* Each step is one of SlideStore, or none.

LEMMA ReplaceEdits ==
  ASSUME IInv, NEW e \in Editor, Replace(e),
         ~(Leave(e) /\ UNCHANGED <<row, clock, minted>>),
         NEW s, s = edit[e].song
  PROVE  s \in Song /\ Store!Edit(s)
<1> DEFINE r == edit[e].req
           list == row[s].slides
<1>1. s \in Song /\ Request(r) /\ edit[e].snap = list
  BY DEF Replace, IInv, EditsOK, EditOK, SnapshotIsCurrent
<1>2. /\ Allowed(list, r)
      /\ Write(s, Result(list, r, minted), row[s].name, row[s].live)
      /\ minted' = minted + Taken(list, r)
  BY <1>1 DEF Replace
<1>3. r \in Requests(list)
  BY <1>1, <1>2, RequestFits
<1> HIDE DEF r
<1>4. row' = [row EXCEPT ![s] = [slides |-> Result(list, r, minted), at |-> clock + 1,
                                 by |-> "here", sid |-> row[s].sid,
                                 name |-> row[s].name, live |-> row[s].live]]
      /\ clock' = clock + 1
  BY <1>2 DEF Write
<1>5. [x \in Song |-> row'[x].slides]
      = [[x \in Song |-> row[x].slides] EXCEPT ![s] = Result(list, r, minted)]
  BY <1>1, <1>4 DEF IInv, RowsOK
<1>6. [x \in Song |-> [at |-> row'[x].at, by |-> row'[x].by]]
      = [[x \in Song |-> [at |-> row[x].at, by |-> row[x].by]]
           EXCEPT ![s] = [at |-> clock', by |-> "here"]]
  BY <1>1, <1>4 DEF IInv, RowsOK
<1>7. [x \in Song |-> row[x].slides][s] = list
  BY <1>1
<1>8. \E q \in Requests([x \in Song |-> row[x].slides][s]) :
        /\ Allowed([x \in Song |-> row[x].slides][s], q)
        /\ minted' = minted + Taken([x \in Song |-> row[x].slides][s], q)
        /\ [x \in Song |-> row'[x].slides]
           = [[x \in Song |-> row[x].slides] EXCEPT
                ![s] = Result([x \in Song |-> row[x].slides][s], q, minted)]
  BY <1>2, <1>3, <1>5, <1>7
<1> QED  BY <1>1, <1>4, <1>6, <1>8, Zenon DEF Store!Edit

LEMMA ApplyAdopts ==
  ASSUME IInv, Apply
  PROVE  \/ \E s \in Song : Store!Adopt(s)
         \/ UNCHANGED Store!storeVars
<1> DEFINE v == pull.version
           newer == {s \in Target(v) : v.at > row[s].at}
<1>1. v.at \in 0..clock /\ \A s \in Target(v) : s \in Song
  BY DEF Apply, IInv, PullOK, Target
<1>2. row' = [s \in Song |-> IF s \notin newer THEN row[s] ELSE
                [slides |-> v.slides, at |-> v.at, by |-> "peer",
                 sid |-> v.sid, name |-> v.name, live |-> v.live]]
      /\ UNCHANGED <<minted, clock>>
  BY DEF Apply
<1> HIDE DEF v
<1>3. CASE newer = {}
  <2>1. [s \in Song |-> row'[s].slides] = [s \in Song |-> row[s].slides]
        /\ [s \in Song |-> [at |-> row'[s].at, by |-> row'[s].by]]
           = [s \in Song |-> [at |-> row[s].at, by |-> row[s].by]]
    BY <1>2, <1>3
  <2> QED  BY <1>2, <2>1 DEF Store!storeVars
<1>4. ASSUME NEW s \in newer PROVE s \in Song /\ Store!Adopt(s)
  <2>1. s \in Song /\ \A x \in Song \ {s} : x \notin newer
    BY <1>1, OneTarget
  <2>2. v.at \in 1..clock /\ v.at > row[s].at
    BY <1>1, <2>1 DEF IInv, RowsOK
  <2>3. [x \in Song |-> [at |-> row'[x].at, by |-> row'[x].by]]
        = [[x \in Song |-> [at |-> row[x].at, by |-> row[x].by]]
             EXCEPT ![s] = [at |-> v.at, by |-> "peer"]]
    BY <1>2, <2>1
  <2>4. \A x \in Song \ {s} : [y \in Song |-> row'[y].slides][x]
                             = [y \in Song |-> row[y].slides][x]
    BY <1>2, <2>1
  <2>5. v.at > [x \in Song |-> [at |-> row[x].at, by |-> row[x].by]][s].at
    BY <2>1, <2>2
  <2>6. \E at \in 1..clock :
          /\ at > [x \in Song |-> [at |-> row[x].at, by |-> row[x].by]][s].at
          /\ [x \in Song |-> [at |-> row'[x].at, by |-> row'[x].by]]
             = [[x \in Song |-> [at |-> row[x].at, by |-> row[x].by]]
                  EXCEPT ![s] = [at |-> at, by |-> "peer"]]
    BY <2>2, <2>3, <2>5, Zenon
  <2> QED  BY <1>2, <2>1, <2>4, <2>6, Zenon DEF Store!Adopt
<1> QED  BY <1>3, <1>4

\* Slide edits and versions of the other site never interleave on one song, as
\* long as no version may turn out to be for a song whose lock it lacks.
THEOREM Implements == ASSUME Steady PROVE Spec => Atomic
<1>1. Init => Store!StoreInit
  <2> SUFFICES ASSUME Init PROVE Store!StoreInit
    OBVIOUS
  <2>1. PICK n : row = [s \in Song |-> [slides |-> Original(s), at |-> 0, by |-> "here",
                                       sid |-> s, name |-> n[s], live |-> TRUE]]
    BY DEF Init
  <2> QED  BY <2>1 DEF Init, Store!StoreInit
<1>2. ASSUME IInv, [Next]_vars PROVE [Store!StoreNext]_Store!storeVars
  <2>1. CASE UNCHANGED <<row, minted, clock>>
    BY <2>1 DEF Store!storeVars
  <2>2. ASSUME NEW e \in Editor, Replace(e) PROVE [Store!StoreNext]_Store!storeVars
    <3>1. CASE Leave(e) /\ UNCHANGED <<row, clock, minted>>
      BY <2>1, <3>1
    <3>2. CASE ~(Leave(e) /\ UNCHANGED <<row, clock, minted>>)
      <4>1. PICK s : s = edit[e].song
        OBVIOUS
      <4>2. s \in Song /\ Store!Edit(s)
        BY <1>2, <2>2, <3>2, <4>1, ReplaceEdits
      <4> QED  BY <4>2 DEF Store!StoreNext
    <3> QED  BY <3>1, <3>2
  <2>3. CASE Fetch
    <3>1. minted' \in {minted, minted + 1} /\ clock' \in {clock, clock + 1}
          /\ UNCHANGED row
      BY <2>3 DEF Fetch
    <3>2. [s \in Song |-> row'[s].slides] = [s \in Song |-> row[s].slides]
          /\ [s \in Song |-> [at |-> row'[s].at, by |-> row'[s].by]]
             = [s \in Song |-> [at |-> row[s].at, by |-> row[s].by]]
      BY <3>1
    <3>3. Store!Elsewhere
      BY <3>1, <3>2, Zenon DEF Store!Elsewhere
    <3> QED  BY <3>3 DEF Store!StoreNext
  <2>4. CASE Apply
    BY <1>2, <2>4, ApplyAdopts DEF Store!StoreNext
  <2>5. ASSUME NEW s \in Song, RenamePresentation(s) \/ DeletePresentation(s)
                               \/ RestorePresentation(s)
        PROVE  FALSE
    BY <2>5 DEF Steady, RenamePresentation, DeletePresentation, RestorePresentation
  <2>6. CASE Probe \/ LockTarget
    BY <2>1, <2>6 DEF Probe, LockTarget
  <2>7. ASSUME NEW e \in Editor,
               Ask(e) \/ AskMark(e) \/ Abandon(e) \/ Lock(e) \/ Read(e) \/ ReadMark(e)
               \/ CopyMark(e) \/ Finish(e) \/ SetMark(e)
        PROVE  UNCHANGED <<row, minted, clock>>
    BY <2>7 DEF Ask, AskMark, Abandon, Lock, Read, ReadMark, CopyMark, Finish, SetMark
  <2>8. CASE UNCHANGED vars
    BY <2>1, <2>8 DEF vars
  <2> QED  BY <1>2, <2>1, <2>2, <2>3, <2>4, <2>5, <2>6, <2>7, <2>8 DEF Next, EditStep
<1> QED  BY <1>1, <1>2, InitInv, StepInv, PTL DEF Spec, Atomic, Store!StoreSpec

-----------------------------------------------------------------------------
\* Lists of slides.

\* A sequence of slides that do not share an identity.
Items(list) == {list[k] : k \in DOMAIN list}
ListOK(list) == /\ list \in Seq(Items(list))
                /\ \A k \in DOMAIN list : list[k] = Slide(list[k].id, list[k].text)
                /\ \A j, k \in DOMAIN list : list[j].id = list[k].id => j = k

LEMMA ListLen == ASSUME NEW S, NEW list \in Seq(S)
                 PROVE  Len(list) \in Nat /\ DOMAIN list = 1..Len(list)
OBVIOUS

\* What makes a list, by its places.
LEMMA ListOf ==
  ASSUME NEW S, NEW list \in Seq(S),
         \A k \in 1..Len(list) : list[k] = Slide(list[k].id, list[k].text),
         \A j, k \in 1..Len(list) : list[j].id = list[k].id => j = k
  PROVE  ListOK(list)
<1>1. DOMAIN list = 1..Len(list) /\ Len(list) \in Nat
  BY ListLen
<1>2. list = [k \in 1..Len(list) |-> list[k]]
  BY <1>1
<1>3. \A k \in 1..Len(list) : list[k] \in Items(list)
  BY <1>1 DEF Items
<1>4. list \in Seq(Items(list))
  BY <1>1, <1>2, <1>3
<1> QED  BY <1>1, <1>4 DEF ListOK

LEMMA SmallList ==
  ASSUME NEW i, NEW t
  PROVE  ListOK(<<Slide(i, t)>>) /\ Ids(<<Slide(i, t)>>) = {i}
<1> DEFINE x == Slide(i, t)
<1>0. x.id = i /\ x = Slide(x.id, x.text)
  BY DEF Slide
<1> HIDE DEF x
<1>1. <<x>> \in Seq({x}) /\ Len(<<x>>) = 1 /\ DOMAIN <<x>> = 1..1 /\ <<x>>[1] = x
  OBVIOUS
<1>2. ListOK(<<x>>)
  <2>1. \A j, k \in 1..Len(<<x>>) : <<x>>[j].id = <<x>>[k].id => j = k
    BY <1>1
  <2>2. \A k \in 1..Len(<<x>>) : <<x>>[k] = x
    BY <1>1
  <2>3. \A k \in 1..Len(<<x>>) : <<x>>[k] = Slide(<<x>>[k].id, <<x>>[k].text)
    BY <1>0, <2>2
  <2> QED  BY <1>1, <2>1, <2>3, ListOf
<1>3. Ids(<<x>>) = {x.id}
  BY <1>1 DEF Ids
<1> QED  BY <1>0, <1>2, <1>3 DEF x

LEMMA Concatenated ==
  ASSUME NEW a, NEW b, ListOK(a), ListOK(b), Ids(a) \intersect Ids(b) = {}
  PROVE  ListOK(a \o b) /\ Ids(a \o b) = Ids(a) \union Ids(b)
<1> DEFINE S == Items(a) \union Items(b)
           c == a \o b
<1>1. a \in Seq(S) /\ b \in Seq(S)
  BY SeqMonotonic DEF ListOK
<1>2. /\ Len(a) \in Nat /\ DOMAIN a = 1..Len(a)
      /\ Len(b) \in Nat /\ DOMAIN b = 1..Len(b)
  BY <1>1, ListLen
<1>3. /\ c \in Seq(S) /\ Len(c) = Len(a) + Len(b)
      /\ \A i \in 1..Len(a) + Len(b) : c[i] = IF i <= Len(a) THEN a[i] ELSE b[i - Len(a)]
  BY <1>1, ConcatProperties
<1>4. DOMAIN c = 1..Len(a) + Len(b)
  BY <1>3, ListLen
<1> HIDE DEF c, S
<1>5. \A i \in 1..Len(a) : a[i].id \in Ids(a)
  BY <1>2 DEF Ids
<1>6. \A i \in 1..Len(b) : b[i].id \in Ids(b)
  BY <1>2 DEF Ids
<1>7. \A j, k \in 1..Len(c) : c[j].id = c[k].id => j = k
  <2> SUFFICES ASSUME NEW j \in 1..Len(c), NEW k \in 1..Len(c), c[j].id = c[k].id
               PROVE  j = k
    OBVIOUS
  <2>1. CASE j <= Len(a) /\ k <= Len(a)
    <3>1. j \in 1..Len(a) /\ k \in 1..Len(a) /\ c[j] = a[j] /\ c[k] = a[k]
      BY <1>2, <1>3, <2>1
    <3> QED  BY <1>2, <3>1 DEF ListOK
  <2>2. CASE j > Len(a) /\ k > Len(a)
    <3>1. /\ j - Len(a) \in 1..Len(b) /\ k - Len(a) \in 1..Len(b)
          /\ c[j] = b[j - Len(a)] /\ c[k] = b[k - Len(a)]
      BY <1>2, <1>3, <2>2
    <3>2. j - Len(a) = k - Len(a)
      BY <1>2, <3>1 DEF ListOK
    <3> QED  BY <1>2, <1>3, <3>2
  <2>3. ASSUME NEW m \in 1..Len(c), NEW n \in 1..Len(c), m <= Len(a), n > Len(a)
        PROVE  c[m].id # c[n].id
    <3>1. /\ m \in 1..Len(a) /\ n - Len(a) \in 1..Len(b)
          /\ c[m] = a[m] /\ c[n] = b[n - Len(a)]
      BY <1>2, <1>3, <2>3
    <3> QED  BY <1>5, <1>6, <3>1
  <2> QED  BY <1>2, <1>3, <2>1, <2>2, <2>3
<1>8. ListOK(c)
  <2>1. ASSUME NEW k \in 1..Len(c) PROVE c[k] = Slide(c[k].id, c[k].text)
    <3>1. CASE k <= Len(a)
      <4>1. k \in 1..Len(a) /\ c[k] = a[k]
        BY <1>2, <1>3, <3>1
      <4> QED  BY <1>2, <4>1 DEF ListOK
    <3>2. CASE k > Len(a)
      <4>1. k - Len(a) \in 1..Len(b) /\ c[k] = b[k - Len(a)]
        BY <1>2, <1>3, <3>2
      <4> QED  BY <1>2, <4>1 DEF ListOK
    <3> QED  BY <1>2, <1>3, <3>1, <3>2
  <2> QED  BY <1>3, <1>7, <2>1, ListOf
<1>9. Ids(c) = Ids(a) \union Ids(b)
  <2>1. ASSUME NEW i \in 1..Len(c) PROVE c[i].id \in Ids(a) \union Ids(b)
    <3>1. CASE i <= Len(a)
      <4>1. i \in 1..Len(a) /\ c[i] = a[i]
        BY <1>2, <1>3, <3>1
      <4> QED  BY <1>5, <4>1
    <3>2. CASE i > Len(a)
      <4>1. i - Len(a) \in 1..Len(b) /\ c[i] = b[i - Len(a)]
        BY <1>2, <1>3, <3>2
      <4> QED  BY <1>6, <4>1
    <3> QED  BY <1>2, <1>3, <3>1, <3>2
  <2>2. ASSUME NEW i \in 1..Len(a) PROVE a[i].id \in Ids(c)
    <3>1. i \in 1..Len(c) /\ c[i] = a[i]
      BY <1>2, <1>3
    <3> QED  BY <1>3, <1>4, <3>1 DEF Ids
  <2>3. ASSUME NEW i \in 1..Len(b) PROVE b[i].id \in Ids(c)
    <3>1. i + Len(a) \in 1..Len(c) /\ c[i + Len(a)] = b[i]
      BY <1>2, <1>3
    <3> QED  BY <1>3, <1>4, <3>1 DEF Ids
  <2>4. Ids(c) \subseteq Ids(a) \union Ids(b)
    BY <1>3, <1>4, <2>1 DEF Ids
  <2>5. Ids(a) \subseteq Ids(c)
    BY <1>2, <2>2 DEF Ids
  <2>6. Ids(b) \subseteq Ids(c)
    BY <1>2, <2>3 DEF Ids
  <2> QED  BY <2>4, <2>5, <2>6
<1> QED  BY <1>8, <1>9 DEF c

\* A part of a list, and what it has of the slides.
LEMMA Part ==
  ASSUME NEW list, ListOK(list), NEW m \in Nat \ {0}, NEW n \in 0..Len(list)
  PROVE  /\ ListOK(SubSeq(list, m, n))
         /\ Ids(SubSeq(list, m, n)) = {list[k].id : k \in m..n}
<1> DEFINE part == SubSeq(list, m, n)
<1>1. Len(list) \in Nat /\ DOMAIN list = 1..Len(list) /\ list \in Seq(Items(list))
  BY ListLen DEF ListOK
<1>2. \A i \in m..n : list[i] \in Items(list)
  BY <1>1 DEF Items
<1>3. /\ part \in Seq(Items(list))
      /\ Len(part) = IF m <= n THEN n - m + 1 ELSE 0
      /\ \A i \in 1..n - m + 1 : part[i] = list[m + i - 1]
  BY <1>1, <1>2, SubSeqProperties
<1>4. DOMAIN part = 1..Len(part)
  BY <1>3, ListLen
<1> HIDE DEF part
<1>5. \A i \in 1..Len(part) : m + i - 1 \in m..n /\ m + i - 1 \in DOMAIN list
                               /\ part[i] = list[m + i - 1]
  BY <1>1, <1>3
<1>6. ListOK(part)
  <2>1. \A j, k \in 1..Len(part) : part[j].id = part[k].id => j = k
    <3> SUFFICES ASSUME NEW j \in 1..Len(part), NEW k \in 1..Len(part),
                        part[j].id = part[k].id
                 PROVE  j = k
      OBVIOUS
    <3>1. m + j - 1 = m + k - 1
      BY <1>5 DEF ListOK
    <3> QED  BY <1>1, <1>3, <3>1
  <2>2. \A k \in 1..Len(part) : part[k] = Slide(part[k].id, part[k].text)
    BY <1>5 DEF ListOK
  <2> QED  BY <1>3, <2>1, <2>2, ListOf
<1>7. \A i \in 1..Len(part) : part[i].id \in {list[k].id : k \in m..n}
  BY <1>5
<1>8. \A k \in m..n : list[k].id \in Ids(part)
  <2> SUFFICES ASSUME NEW k \in m..n PROVE list[k].id \in Ids(part)
    OBVIOUS
  <2>1. k - m + 1 \in 1..Len(part) /\ part[k - m + 1] = list[k]
    BY <1>1, <1>3
  <2> QED  BY <1>4, <2>1 DEF Ids
<1> QED  BY <1>4, <1>6, <1>7, <1>8 DEF Ids, part

LEMMA InsertedList ==
  ASSUME NEW list, ListOK(list), NEW block, ListOK(block),
         Ids(list) \intersect Ids(block) = {}, NEW k \in 1..(Len(list) + 1)
  PROVE  /\ ListOK(Inserted(list, k, block))
         /\ Ids(Inserted(list, k, block)) = Ids(list) \union Ids(block)
<1> DEFINE a == SubSeq(list, 1, k - 1)
           b == SubSeq(list, k, Len(list))
<1>1. Len(list) \in Nat /\ DOMAIN list = 1..Len(list) /\ list \in Seq(Items(list))
  BY ListLen DEF ListOK
<1>11. k \in Nat \ {0} /\ 1 \in Nat \ {0} /\ k - 1 \in 0..Len(list) /\ Len(list) \in 0..Len(list)
  BY <1>1
<1>2. ListOK(a) /\ Ids(a) = {list[i].id : i \in 1..(k - 1)}
  BY <1>11, Part
<1>3. ListOK(b) /\ Ids(b) = {list[i].id : i \in k..Len(list)}
  BY <1>11, Part
<1>4. Ids(a) \subseteq Ids(list) /\ Ids(b) \subseteq Ids(list)
  BY <1>1, <1>2, <1>3 DEF Ids
<1>5. Ids(list) = Ids(a) \union Ids(b)
  <2>1. \A i \in 1..Len(list) : i \in 1..(k - 1) \/ i \in k..Len(list)
    BY <1>1
  <2> QED  BY <1>1, <1>2, <1>3, <1>4, <2>1 DEF Ids
<1>6. Ids(a) \intersect Ids(b) = {}
  <2>1. \A i \in 1..(k - 1), j \in k..Len(list) : list[i].id # list[j].id
    <3> SUFFICES ASSUME NEW i \in 1..(k - 1), NEW j \in k..Len(list),
                        list[i].id = list[j].id
                 PROVE  FALSE
      OBVIOUS
    <3>1. i \in DOMAIN list /\ j \in DOMAIN list /\ i # j
      BY <1>1
    <3> QED  BY <3>1 DEF ListOK
  <2> QED  BY <1>2, <1>3, <2>1
<1> HIDE DEF a, b
<1>7. ListOK(a \o block) /\ Ids(a \o block) = Ids(a) \union Ids(block)
  BY <1>2, <1>5, Concatenated
<1>8. Ids(a \o block) \intersect Ids(b) = {}
  BY <1>5, <1>6, <1>7
<1>9. ListOK((a \o block) \o b) /\ Ids((a \o block) \o b) = Ids(a \o block) \union Ids(b)
  BY <1>3, <1>7, <1>8, Concatenated
<1>10. Inserted(list, k, block) = (a \o block) \o b
  BY DEF Inserted, a, b
<1> QED  BY <1>5, <1>7, <1>9, <1>10

\* How the slides of an edit are found and made.
LEMMA PlaceOf ==
  ASSUME NEW list, ListOK(list), NEW i \in Ids(list)
  PROVE  /\ Place(list, i) \in DOMAIN list /\ list[Place(list, i)].id = i
         /\ Place(list, i) \in 1..Len(list) /\ Len(list) \in Nat
<1>1. DOMAIN list = 1..Len(list) /\ Len(list) \in Nat
  BY ListLen DEF ListOK
<1>2. \E k \in DOMAIN list : list[k].id = i
  BY DEF Ids
<1> QED  BY <1>1, <1>2 DEF Place

LEMMA ClonedList ==
  ASSUME NEW list, ListOK(list), NEW ids, NEW n \in Nat
  PROVE  /\ Len(Clones(list, ids, 0)) \in Nat
         /\ ListOK(Clones(list, ids, n))
         /\ Ids(Clones(list, ids, n)) = (n + 1)..(n + Len(Clones(list, ids, 0)))
<1> DEFINE named == SelectSeq(list, LAMBDA x : x.id \in ids)
           m == Len(named)
           S == {Slide(n + k, named[k].text) : k \in 1..m}
           T == {Slide(0 + k, named[k].text) : k \in 1..m}
<1>1. m \in Nat
  BY DEF ListOK
<1>2. /\ Clones(list, ids, n) = [k \in 1..m |-> Slide(n + k, named[k].text)]
      /\ Clones(list, ids, 0) = [k \in 1..m |-> Slide(0 + k, named[k].text)]
  BY DEF Clones
<1> HIDE DEF named, m
<1>3. /\ [k \in 1..m |-> Slide(n + k, named[k].text)] \in Seq(S)
      /\ Len([k \in 1..m |-> Slide(n + k, named[k].text)]) = m
  BY <1>1
<1>4. /\ [k \in 1..m |-> Slide(0 + k, named[k].text)] \in Seq(T)
      /\ Len([k \in 1..m |-> Slide(0 + k, named[k].text)]) = m
  BY <1>1
<1> DEFINE c == [k \in 1..m |-> Slide(n + k, named[k].text)]
<1>5. \A k \in 1..m : c[k].id = n + k /\ c[k] = Slide(c[k].id, c[k].text)
  BY DEF Slide
<1>6. DOMAIN c = 1..m /\ c \in Seq(S) /\ Len(c) = m
  BY <1>3
<1> HIDE DEF c, S
<1>7. ListOK(c)
  <2>1. \A j, k \in 1..Len(c) : c[j].id = c[k].id => j = k
    BY <1>1, <1>5, <1>6
  <2>2. \A k \in 1..Len(c) : c[k] = Slide(c[k].id, c[k].text)
    BY <1>5, <1>6
  <2> QED  BY <1>6, <2>1, <2>2, ListOf
<1>8. Ids(c) = (n + 1)..(n + m)
  <2>1. \A k \in 1..m : c[k].id \in (n + 1)..(n + m)
    BY <1>1, <1>5
  <2>2. \A i \in (n + 1)..(n + m) : i - n \in 1..m /\ c[i - n].id = i
    BY <1>1, <1>5
  <2>3. (n + 1)..(n + m) \subseteq Ids(c)
    BY <1>6, <2>2 DEF Ids
  <2>4. Ids(c) \subseteq (n + 1)..(n + m)
    BY <1>6, <2>1 DEF Ids
  <2> QED  BY <2>3, <2>4
<1> QED  BY <1>1, <1>2, <1>4, <1>7, <1>8 DEF c

LEMMA UpdatedList ==
  ASSUME NEW list, ListOK(list), NEW p \in 1..Len(list), NEW t
  PROVE  LET new == [list EXCEPT ![p].text = t]
         IN  ListOK(new) /\ Ids(new) = Ids(list)
<1> DEFINE x == Slide(list[p].id, t)
           new == [list EXCEPT ![p] = x]
           S == Items(list) \union {x}
<1>1. p \in 1..Len(list) /\ Len(list) \in Nat /\ DOMAIN list = 1..Len(list)
  BY ListLen DEF ListOK
<1>2. [list EXCEPT ![p].text = t] = new
  <2>1. list[p] = [id |-> list[p].id, text |-> list[p].text]
    BY <1>1 DEF ListOK, Slide
  <2>2. [list[p] EXCEPT !.text = t] = [id |-> list[p].id, text |-> t]
    BY <2>1
  <2>3. [list EXCEPT ![p].text = t] = [list EXCEPT ![p] = [list[p] EXCEPT !.text = t]]
    OBVIOUS
  <2> QED  BY <2>2, <2>3 DEF Slide
<1>3. list \in Seq(S) /\ x \in S
  BY SeqMonotonic DEF ListOK
<1> HIDE DEF x, S
<1>4. /\ new \in Seq(S) /\ Len(new) = Len(list)
      /\ \A j \in 1..Len(list) : new[j] = IF j = p THEN x ELSE list[j]
  BY <1>1, <1>3, ExceptSeq
<1>5. x.id = list[p].id /\ x = Slide(x.id, x.text)
  BY DEF x, Slide
<1> DEFINE N == Len(list)
<1> HIDE DEF new
<1>6. DOMAIN new = 1..Len(list)
  BY <1>4, ListLen
<1>7. \A j \in 1..Len(list) : new[j].id = list[j].id /\ new[j] = Slide(new[j].id, new[j].text)
  BY <1>1, <1>4, <1>5 DEF ListOK
<1>8. ListOK(new)
  <2>1. \A j, k \in 1..Len(new) : new[j].id = new[k].id => j = k
    BY <1>1, <1>4, <1>7 DEF ListOK
  <2>2. \A k \in 1..Len(new) : new[k] = Slide(new[k].id, new[k].text)
    BY <1>4, <1>7
  <2> QED  BY <1>4, <2>1, <2>2, ListOf
<1>9. Ids(new) = Ids(list)
  BY <1>1, <1>6, <1>7 DEF Ids
<1> QED  BY <1>2, <1>4, <1>8, <1>9

\* A list in another order: the order names each slide once, because it names
\* them all.
LEMMA ReorderedList ==
  ASSUME NEW list, ListOK(list), NEW q, q \in Orders(ToSet(q)),
         Len(q) = Len(list), ToSet(q) = Ids(list)
  PROVE  LET new == [k \in DOMAIN q |-> list[Place(list, q[k])]]
         IN  ListOK(new) /\ Ids(new) = Ids(list)
<1> DEFINE n == Len(list)
           ids == Ids(list)
           new == [k \in DOMAIN q |-> list[Place(list, q[k])]]
<1>1. n \in Nat /\ DOMAIN list = 1..n
  BY ListLen DEF ListOK
<1>2. Cardinality(ids) = n /\ IsFiniteSet(ids)
  <2> DEFINE f == [k \in 1..n |-> list[k].id]
  <2>1. f \in [1..n -> ids]
    BY <1>1 DEF Ids
  <2>2. \A a, b \in 1..n : f[a] = f[b] => a = b
    BY <1>1 DEF ListOK
  <2>3. \A i \in ids : \E k \in 1..n : f[k] = i
    BY <1>1 DEF Ids
  <2> HIDE DEF f
  <2>4. f \in Bijection(1..n, ids)
    BY <2>1, <2>2, <2>3 DEF Bijection, Injection, Surjection, IsInjective
  <2>5. ExistsBijection(1..n, ids)
    BY <2>4 DEF ExistsBijection
  <2> QED  BY <1>1, <2>5, FS_CountingElements, FS_NatBijection
<1>3. q \in [1..n -> ids] /\ ids = {q[k] : k \in 1..n}
  BY <1>2 DEF Orders, ToSet
<1>4. \A a, b \in 1..n : q[a] = q[b] => a = b
  <2>1. q \in Surjection(1..n, ids)
    BY <1>3 DEF Surjection
  <2>2. IsFiniteSet(1..n) /\ Cardinality(1..n) = n
    <3>1. n \in Int /\ 1 \in Int /\ (IF 1 > n THEN 0 ELSE n - 1 + 1) = n
      BY <1>1
    <3> HIDE DEF n
    <3>2. IsFiniteSet(1..n) /\ Cardinality(1..n) = IF 1 > n THEN 0 ELSE n - 1 + 1
      BY <3>1, FS_Interval
    <3> QED  BY <3>1, <3>2
  <2>3. q \in Injection(1..n, ids)
    BY <1>2, <2>1, <2>2, FS_SurjSameCardinalityImpliesInj
  <2> QED  BY <2>3 DEF Injection, IsInjective
<1>5. \A k \in 1..n : /\ Place(list, q[k]) \in 1..n
                      /\ list[Place(list, q[k])].id = q[k]
  BY <1>3, PlaceOf
<1>6. \A k \in 1..n : new[k] \in Items(list) /\ new[k].id = q[k]
                      /\ new[k] = Slide(new[k].id, new[k].text)
  BY <1>1, <1>3, <1>5 DEF Items, ListOK
<1>7. DOMAIN new = 1..n
  BY <1>3
<1>8. new = [k \in 1..n |-> new[k]]
  BY <1>3
<1> HIDE DEF new
<1>9. new \in Seq(Items(list)) /\ Len(new) = n
  BY <1>1, <1>6, <1>8
<1>10. ListOK(new)
  BY <1>4, <1>6, <1>9, ListOf
<1>11. Ids(new) = ids
  BY <1>3, <1>6, <1>7 DEF Ids
<1> QED  BY <1>10, <1>11 DEF new

\* What an edit makes of a list is a list, of its slides and of new ones.
LEMMA ResultList ==
  ASSUME NEW list, ListOK(list), NEW n \in Nat, Ids(list) \subseteq 1..n,
         NEW r, Request(r), Allowed(list, r)
  PROVE  /\ Taken(list, r) \in Nat
         /\ ListOK(Result(list, r, n))
         /\ Ids(Result(list, r, n)) \subseteq Ids(list) \union (n + 1)..(n + Taken(list, r))
<1>1. Len(list) \in Nat /\ DOMAIN list = 1..Len(list)
  BY ListLen DEF ListOK
<1>2. Taken(list, r) \in Nat /\ Len(Clones(list, Copied(r), 0)) \in Nat
  BY ClonedList DEF Taken
<1>3. ASSUME NEW ids
      PROVE  /\ ListOK(Clones(list, ids, n))
             /\ Ids(list) \intersect Ids(Clones(list, ids, n)) = {}
             /\ Ids(Clones(list, ids, n)) = (n + 1)..(n + Len(Clones(list, ids, 0)))
  BY ClonedList
<1>4. CASE r.op = "paste"
  <2> DEFINE k == IF r.anchor = NULL THEN Len(list) + 1 ELSE Place(list, r.anchor)
             block == Clones(list, r.ids, n)
  <2>1. k \in 1..(Len(list) + 1)
    BY <1>1, <1>4, PlaceOf DEF Allowed
  <2>2. Result(list, r, n) = Inserted(list, k, block)
    BY <1>4 DEF Result, Pasted
  <2>3. Taken(list, r) = Len(Clones(list, r.ids, 0))
    BY <1>2, <1>4 DEF Taken, Copied
  <2> HIDE DEF k
  <2> QED  BY <1>2, <1>3, <2>1, <2>2, <2>3, InsertedList
<1>5. CASE r.op = "update"
  <2>1. Place(list, r.id) \in 1..Len(list)
    BY <1>5, PlaceOf DEF Allowed
  <2>2. Result(list, r, n) = [list EXCEPT ![Place(list, r.id)].text = r.text]
    BY <1>5 DEF Result, Updated
  <2> DEFINE p == Place(list, r.id)
             new == [list EXCEPT ![p].text = r.text]
  <2> HIDE DEF p
  <2>3. ListOK(new) /\ Ids(new) = Ids(list)
    BY <2>1, UpdatedList DEF p
  <2>4. Result(list, r, n) = new
    BY <2>2 DEF p
  <2> HIDE DEF new
  <2> QED  BY <1>2, <2>3, <2>4
<1>6. CASE r.op = "insert"
  <2> DEFINE k == (IF r.at < Len(list) THEN r.at ELSE Len(list)) + 1
             block == <<Slide(n + 1, Blank)>>
  <2>1. k \in 1..(Len(list) + 1)
    BY <1>1, <1>6, PositionAssumption DEF Request
  <2>2. Result(list, r, n) = Inserted(list, k, block)
    BY <1>6 DEF Result, Extended
  <2>3. n + 1 \in (n + 1)..(n + Taken(list, r)) /\ n + 1 \notin 1..n
    BY <1>2, <1>6 DEF Taken
  <2>4. ListOK(block) /\ Ids(block) = {n + 1}
    BY SmallList
  <2> HIDE DEF k, block
  <2> QED  BY <1>2, <2>1, <2>2, <2>3, <2>4, InsertedList
<1>7. CASE r.op = "duplicate"
  <2> DEFINE k == Place(list, r.id) + 1
             block == Clones(list, {r.id}, n)
  <2>1. k \in 1..(Len(list) + 1)
    BY <1>1, <1>7, PlaceOf DEF Allowed
  <2>2. Result(list, r, n) = Inserted(list, k, block)
    BY <1>7 DEF Result, Duplicated
  <2>3. Taken(list, r) = Len(Clones(list, {r.id}, 0))
    BY <1>2, <1>7 DEF Taken, Copied
  <2> HIDE DEF k
  <2> QED  BY <1>2, <1>3, <2>1, <2>2, <2>3, InsertedList
<1>8. CASE r.op = "delete" /\ Len(list) = 1
  <2>1. Result(list, r, n) = <<Slide(n + 1, Blank)>>
    BY <1>8 DEF Result, Shortened
  <2>2. n + 1 \in (n + 1)..(n + Taken(list, r))
    BY <1>2, <1>8 DEF Taken
  <2> QED  BY <1>2, <2>1, <2>2, SmallList
<1>9. CASE r.op = "delete" /\ Len(list) # 1
  <2> DEFINE p == Place(list, r.id)
             a == SubSeq(list, 1, p - 1)
             b == SubSeq(list, p + 1, Len(list))
  <2>1. p \in 1..Len(list) /\ 1 \in Nat \ {0} /\ p + 1 \in Nat \ {0}
        /\ p - 1 \in 0..Len(list) /\ Len(list) \in 0..Len(list)
    BY <1>1, <1>9, PlaceOf DEF Allowed
  <2>2. Result(list, r, n) = a \o b
    BY <1>9 DEF Result, Shortened, RemoveAt
  <2> HIDE DEF p
  <2>3. ListOK(a) /\ Ids(a) = {list[k].id : k \in 1..(p - 1)}
    BY <2>1, Part
  <2>4. ListOK(b) /\ Ids(b) = {list[k].id : k \in (p + 1)..Len(list)}
    BY <2>1, Part
  <2>5. \A i \in 1..(p - 1), j \in (p + 1)..Len(list) : list[i].id # list[j].id
    <3> SUFFICES ASSUME NEW i \in 1..(p - 1), NEW j \in (p + 1)..Len(list),
                        list[i].id = list[j].id
                 PROVE  FALSE
      OBVIOUS
    <3>1. i \in DOMAIN list /\ j \in DOMAIN list /\ i # j
      BY <1>1, <2>1
    <3> QED  BY <3>1 DEF ListOK
  <2>6. Ids(a) \intersect Ids(b) = {} /\ Ids(a) \subseteq Ids(list) /\ Ids(b) \subseteq Ids(list)
    BY <1>1, <2>1, <2>3, <2>4, <2>5 DEF Ids
  <2> HIDE DEF a, b
  <2>7. ListOK(a \o b) /\ Ids(a \o b) = Ids(a) \union Ids(b)
    BY <2>3, <2>4, <2>6, Concatenated
  <2> QED  BY <1>2, <2>2, <2>6, <2>7
<1>10. CASE r.op = "reorder"
  <2>1. Result(list, r, n) = [k \in DOMAIN r.order |-> list[Place(list, r.order[k])]]
    BY <1>10 DEF Result, Reordered
  <2>2. r.order \in Orders(ToSet(r.order)) /\ Len(r.order) = Len(list)
        /\ ToSet(r.order) = Ids(list)
    BY <1>10 DEF Request, Allowed
  <2> QED  BY <1>2, <2>1, <2>2, ReorderedList
<1> QED  BY <1>4, <1>5, <1>6, <1>7, <1>8, <1>9, <1>10 DEF Request

\* What the other site may send is a list.
LEMMA VersionList ==
  ASSUME NEW list, ListOK(list), NEW t
  PROVE  /\ ListOK(Reverse(list)) /\ Ids(Reverse(list)) = Ids(list)
         /\ ListOK([list EXCEPT ![1].text = t]) /\ Ids([list EXCEPT ![1].text = t]) = Ids(list)
<1>1. Len(list) \in Nat /\ DOMAIN list = 1..Len(list)
  BY ListLen DEF ListOK
<1>2. ListOK([list EXCEPT ![1].text = t]) /\ Ids([list EXCEPT ![1].text = t]) = Ids(list)
  <2>1. CASE 1 \in 1..Len(list)
    BY <2>1, UpdatedList
  <2>2. CASE 1 \notin 1..Len(list)
    <3>1. [list EXCEPT ![1].text = t] = list
      BY <1>1, <2>2 DEF ListOK
    <3> QED  BY <3>1
  <2> QED  BY <2>1, <2>2
<1>3. ListOK(Reverse(list)) /\ Ids(Reverse(list)) = Ids(list)
  <2> DEFINE new == Reverse(list)
             n == Len(list)
  <2>1. new = [i \in 1..n |-> list[(n - i) + 1]]
    BY DEF Reverse
  <2>2. \A i \in 1..n : (n - i) + 1 \in 1..n /\ list[(n - i) + 1] \in Items(list)
    BY <1>1 DEF Items
  <2>3. new \in Seq(Items(list)) /\ Len(new) = n /\ DOMAIN new = 1..n
    BY <1>1, <2>1, <2>2
  <2>4. \A i \in 1..n : new[i] = list[(n - i) + 1]
    BY <2>1
  <2> HIDE DEF new
  <2>5. \A j, k \in 1..Len(new) : new[j].id = new[k].id => j = k
    <3> SUFFICES ASSUME NEW j \in 1..n, NEW k \in 1..n, new[j].id = new[k].id
                 PROVE  j = k
      BY <2>3
    <3>1. (n - j) + 1 = (n - k) + 1
      BY <1>1, <2>2, <2>4 DEF ListOK
    <3> QED  BY <1>1, <3>1
  <2>6. \A k \in 1..Len(new) : new[k] = Slide(new[k].id, new[k].text)
    BY <1>1, <2>2, <2>3, <2>4 DEF ListOK
  <2>7. ListOK(new)
    BY <2>3, <2>5, <2>6, ListOf
  <2>8. Ids(new) \subseteq Ids(list)
    BY <1>1, <2>2, <2>3, <2>4 DEF Ids
  <2>9. Ids(list) \subseteq Ids(new)
    <3>1. \A k \in 1..n : (n - k) + 1 \in 1..n /\ new[(n - k) + 1] = list[k]
      BY <1>1, <2>4
    <3> QED  BY <1>1, <2>3, <3>1 DEF Ids
  <2> QED  BY <2>7, <2>8, <2>9 DEF new
<1> QED  BY <1>2, <1>3

LEMMA LeastOf == ASSUME NEW S \in SUBSET Nat, S # {} PROVE Min(S) \in S
<1> DEFINE R == OpToRel(<, Nat)
<1>1. IsWellFoundedOn(R, Nat)
  BY NatLessThanWellFounded
<1>2. \A x, y \in Nat : y < x => <<y, x>> \in R
  BY DEF OpToRel
<1> HIDE DEF R
<1>3. \E x \in S : \A y \in S : ~(<<y, x>> \in R)
  BY <1>1, WFMin
<1>4. PICK x \in S : \A y \in S : ~(<<y, x>> \in R)
  BY <1>3, Zenon
<1>5. \A y \in S : x =< y
  <2> SUFFICES ASSUME NEW y \in S PROVE x =< y
    OBVIOUS
  <2>1. ~(y < x)
    BY <1>2, <1>4
  <2> QED  BY <2>1
<1> QED  BY <1>5 DEF Min

\* The markers of a list that another one replaces go to places of the latter,
\* and a marked slide which alone has its content hands its own to that content
\* and shares it with none.
LEMMA Remapping ==
  ASSUME NEW old, NEW M, NEW new, ListOK(new)
  PROVE  LET to == Remapped(old, M, new)
         IN  /\ DOMAIN to \subseteq M
             /\ \A j \in DOMAIN to : to[j] \in DOMAIN new
             /\ \A k \in M : (Distinct(old, k) /\ SameText(old, k, new) # {}) =>
                  /\ k \in DOMAIN to /\ to[k] \in SameText(old, k, new)
                  /\ \A j \in DOMAIN to : (j \in DOMAIN old /\ to[j] = to[k]) => j = k
<1> DEFINE found == ByText(old, M, new)
           D == {i \in M : Distinct(old, i) /\ SameText(old, i, new) # {}}
           left == {i \in M \ DOMAIN found : i \in DOMAIN new /\ i \notin Range(found)}
           to == Remapped(old, M, new)
<1>1. \A i \in D : Min(SameText(old, i, new)) \in SameText(old, i, new)
  <2> SUFFICES ASSUME NEW i \in D
               PROVE  Min(SameText(old, i, new)) \in SameText(old, i, new)
    OBVIOUS
  <2>1. SameText(old, i, new) \subseteq DOMAIN new /\ DOMAIN new \subseteq Nat
    BY ListLen DEF SameText, ListOK
  <2> QED  BY <2>1, LeastOf
<1>2. found = [i \in D |-> Min(SameText(old, i, new))]
  BY DEF ByText
<1> HIDE DEF found
<1>3. DOMAIN found = D /\ \A i \in D : found[i] \in SameText(old, i, new)
  BY <1>1, <1>2
<1>4. to = [i \in DOMAIN found \union left |-> IF i \in left THEN i ELSE found[i]]
  BY DEF Remapped, found
<1> HIDE DEF D, left, to
<1>5. /\ DOMAIN to = D \union left
      /\ \A i \in D : to[i] = found[i]
      /\ \A i \in left : i \notin D /\ to[i] = i
  <2>1. \A i \in left : i \notin D
    BY <1>3 DEF left
  <2> QED  BY <1>3, <1>4, <2>1
<1>6. D \subseteq M /\ left \subseteq M /\ left \subseteq DOMAIN new
  BY DEF D, left
<1>7. \A i \in D : found[i] \in DOMAIN new /\ new[found[i]].text = old[i].text
  BY <1>3 DEF SameText
<1>8. ASSUME NEW k \in D, NEW j \in DOMAIN to, j \in DOMAIN old, to[j] = to[k]
      PROVE  j = k
  <2>1. CASE j \in D
    <3>1. old[j].text = old[k].text
      BY <1>5, <1>7, <1>8, <2>1
    <3> QED  BY <1>8, <3>1 DEF D, Distinct
  <2>2. CASE j \in left
    <3>1. j = found[k]
      BY <1>5, <1>8, <2>2
    <3>2. found[k] \in Range(found)
      BY <1>3 DEF Range
    <3> QED  BY <2>2, <3>1, <3>2 DEF left
  <2> QED  BY <1>5, <2>1, <2>2
<1>9. \A k \in M : (Distinct(old, k) /\ SameText(old, k, new) # {}) => k \in D
  BY DEF D
<1> QED  BY <1>3, <1>5, <1>6, <1>7, <1>8, <1>9 DEF to

-----------------------------------------------------------------------------
\* Markers. A slide belongs to one song for good, wherever it is named; so the
\* markers of a song are those of its slides, present and past.

Ours(s, i) ==
  \/ i \in Ids(row[s].slides) \union Ids(Original(s))
  \/ i \in DOMAIN mark /\ mark[i].song = s
  \/ \E e \in Editor : edit[e].pc = "assign" /\ edit[e].song = s /\ edit[e].id = i
  \/ \E e \in Editor : /\ edit[e].pc \in {"marks", "copy"} /\ edit[e].song = s
                       /\ \E k \in DOMAIN edit[e].todo : edit[e].todo[k][2] = i

IdsOK == /\ minted \in Nat
         /\ \A s \in Song : \A i : Ours(s, i) => i \in 1..minted
         /\ \A s, t \in Song : \A i : Ours(s, i) /\ Ours(t, i) => s = t
         /\ pull.pc # "idle" => \A i \in Ids(pull.version.slides) :
              /\ i \in 1..minted
              /\ \A s \in Song : Ours(s, i) => row[s].sid = pull.version.sid

ListsOK == /\ \A s \in Song : ListOK(row[s].slides)
           /\ pull.pc # "idle" => ListOK(pull.version.slides)

\* What an editor is to mark is of its song.
TodoOK(w) ==
  /\ w.pc \in {"assign", "marks", "copy"} => w.song \in Song
  /\ w.pc \in {"marks", "copy"} => \E S : w.todo \in Seq(S)
  /\ w.pc = "copy" => w.todo # <<>>

MarksOK == \A i \in DOMAIN mark : mark[i].song \in Song

MInv == IdsOK /\ ListsOK /\ MarksOK /\ \A e \in Editor : TodoOK(edit[e])

LEMMA OriginalList ==
  ASSUME NEW s \in Song
  PROVE  ListOK(Original(s)) /\ Ids(Original(s)) = {2 * s - 1, 2 * s}
<1> DEFINE t == CHOOSE t \in Text : t # Blank
           a == <<Slide(2 * s - 1, t)>>
           b == <<Slide(2 * s, Blank)>>
<1>0. s \in Nat
  BY SongAssumption, FS_CardinalityType
<1>1. ListOK(a) /\ Ids(a) = {2 * s - 1} /\ ListOK(b) /\ Ids(b) = {2 * s}
  BY SmallList
<1>2. Ids(a) \intersect Ids(b) = {}
  BY <1>0, <1>1
<1>3. Original(s) = a \o b
  <2>1. 2 * s - 1 + 1 = 2 * s
    BY <1>0
  <2>2. Original(s) = <<Slide(2 * s - 1, t), Slide(2 * s, Blank)>>
    BY <2>1 DEF Original, FirstId
  <2> HIDE DEF t
  <2>3. <<Slide(2 * s - 1, t), Slide(2 * s, Blank)>> = <<Slide(2 * s - 1, t)>> \o <<Slide(2 * s, Blank)>>
    OBVIOUS
  <2> QED  BY <2>2, <2>3
<1> HIDE DEF a, b
<1>4. ListOK(a \o b) /\ Ids(a \o b) = Ids(a) \union Ids(b)
  BY <1>1, <1>2, Concatenated
<1> QED  BY <1>1, <1>3, <1>4

LEMMA InitMarks == Init => MInv
<1> SUFFICES ASSUME Init PROVE MInv
  OBVIOUS
<1>1. PICK n : row = [s \in Song |-> [slides |-> Original(s), at |-> 0, by |-> "here",
                                     sid |-> s, name |-> n[s], live |-> TRUE]]
  BY DEF Init
<1> DEFINE N == Cardinality(Song)
<1>2. N \in Nat /\ Song = 1..N
  BY SongAssumption, FS_CardinalityType
<1>3. \A s \in Song : ListOK(Original(s)) /\ Ids(Original(s)) = {2 * s - 1, 2 * s}
  BY OriginalList
<1>4. \A i \in DOMAIN mark : \E s \in Song : i = 2 * s - 1 /\ mark[i].song = s
  <2>1. PICK l : mark = [i \in {FirstId(s) : s \in Song} |-> [song |-> (i + 1) \div 2, layout |-> l]]
    BY DEF Init
  <2> SUFFICES ASSUME NEW i \in DOMAIN mark
               PROVE  \E s \in Song : i = 2 * s - 1 /\ mark[i].song = s
    OBVIOUS
  <2>2. PICK s \in Song : i = 2 * s - 1
    BY <2>1 DEF FirstId
  <2>3. (i + 1) \div 2 = s
    BY <1>2, <2>2
  <2> QED  BY <2>1, <2>2, <2>3
<1>5. pull.pc = "idle" /\ minted = 2 * N /\ \A e \in Editor : edit[e].pc = "idle"
  BY DEF Init, Idle
<1>6. \A s \in Song : row[s].slides = Original(s)
  BY <1>1
<1> HIDE DEF N
<1>7. \A s \in Song : \A i : Ours(s, i) => i \in {2 * s - 1, 2 * s}
  BY <1>3, <1>4, <1>5, <1>6 DEF Ours
<1>8. IdsOK
  BY <1>2, <1>5, <1>7 DEF IdsOK
<1> QED  BY <1>3, <1>4, <1>5, <1>6, <1>8 DEF MInv, ListsOK, MarksOK, TodoOK

\* The slides of each song grow by new ones of one song at most.
Grow == /\ minted' \in Nat /\ minted <= minted'
        /\ \A s \in Song : row'[s].sid = row[s].sid
        /\ \E x : \A s \in Song : \A i :
             Ours(s, i)' => Ours(s, i) \/ (s = x /\ i \in (minted + 1)..minted')

LEMMA IdsStay ==
  ASSUME MInv, Grow,
         pull'.pc # "idle" => pull.pc # "idle" /\ pull'.version = pull.version
  PROVE  IdsOK'
<1>0. PICK x : \A s \in Song : \A i :
        Ours(s, i)' => Ours(s, i) \/ (s = x /\ i \in (minted + 1)..minted')
  BY DEF Grow
<1>1. \A s \in Song : \A i : Ours(s, i)' => i \in 1..minted'
  BY <1>0 DEF MInv, IdsOK, Grow
<1>2. \A s, t \in Song : \A i : Ours(s, i)' /\ Ours(t, i)' => s = t
  BY <1>0 DEF MInv, IdsOK, Grow
<1>3. pull'.pc # "idle" => \A i \in Ids(pull'.version.slides) :
        /\ i \in 1..minted'
        /\ \A s \in Song : Ours(s, i)' => row'[s].sid = pull'.version.sid
  BY <1>0 DEF MInv, IdsOK, Grow
<1> QED  BY <1>1, <1>2, <1>3 DEF IdsOK, Grow

\* A step of one editor that leaves the slides alone.
LEMMA EditorMarks ==
  ASSUME MInv, EditsOK, NEW e \in Editor, NEW w, edit' = [edit EXCEPT ![e] = w],
         UNCHANGED <<row, minted>>,
         pull'.pc # "idle" => pull.pc # "idle" /\ pull'.version = pull.version,
         \A i \in DOMAIN mark' : mark'[i].song \in Song /\ Ours(mark'[i].song, i),
         TodoOK(w), w.pc = "assign" => Ours(w.song, w.id),
         w.pc \in {"marks", "copy"} => \A k \in DOMAIN w.todo : Ours(w.song, w.todo[k][2])
  PROVE  MInv'
<1>1. edit'[e] = w /\ \A x \in Editor \ {e} : edit'[x] = edit[x]
  BY DEF EditsOK
<1>2. ASSUME NEW s \in Song, NEW i, Ours(s, i)' PROVE Ours(s, i)
  <2>1. CASE i \in Ids(row[s].slides) \union Ids(Original(s))
    BY <2>1 DEF Ours
  <2>2. CASE i \in DOMAIN mark' /\ mark'[i].song = s
    BY <2>2
  <2>3. ASSUME NEW x \in Editor, edit'[x].pc = "assign", edit'[x].song = s, edit'[x].id = i
        PROVE  Ours(s, i)
    <3>1. CASE x = e
      BY <1>1, <2>3, <3>1
    <3>2. CASE x # e
      BY <1>1, <2>3, <3>2 DEF Ours
    <3> QED  BY <3>1, <3>2
  <2>4. ASSUME NEW x \in Editor, edit'[x].pc \in {"marks", "copy"}, edit'[x].song = s,
               NEW k \in DOMAIN edit'[x].todo, edit'[x].todo[k][2] = i
        PROVE  Ours(s, i)
    <3>1. CASE x = e
      BY <1>1, <2>4, <3>1
    <3>2. CASE x # e
      BY <1>1, <2>4, <3>2 DEF Ours
    <3> QED  BY <3>1, <3>2
  <2> QED  BY <1>2, <2>1, <2>2, <2>3, <2>4 DEF Ours
<1>3. minted' \in Nat /\ minted <= minted'
  BY DEF MInv, IdsOK
<1>4. IdsOK'
  <2>1. Grow
    BY <1>2, <1>3 DEF Grow
  <2>2. MInv /\ (pull'.pc # "idle" => pull.pc # "idle" /\ pull'.version = pull.version)
    OBVIOUS
  <2> QED  BY ONLY <2>1, <2>2, IdsStay
<1>5. ListsOK' /\ MarksOK'
  BY DEF MInv, ListsOK, MarksOK
<1>6. \A x \in Editor : TodoOK(edit'[x])
  BY <1>1 DEF MInv
<1> QED  BY <1>4, <1>5, <1>6 DEF MInv, TodoOK

\* A request that marks nothing yet, or no more.
LEMMA QuietEditor ==
  ASSUME MInv, EditsOK, NEW e \in Editor, NEW w, edit' = [edit EXCEPT ![e] = w],
         w.pc \in {"idle", "lock", "read", "write"}, UNCHANGED <<row, mark, pull, minted>>
  PROVE  MInv'
<1>1. \A i \in DOMAIN mark' : mark'[i].song \in Song /\ Ours(mark'[i].song, i)
  BY DEF MInv, MarksOK, Ours
<1>2. TodoOK(w) /\ w.pc # "assign" /\ w.pc \notin {"marks", "copy"}
  BY DEF TodoOK
<1> QED  BY <1>1, <1>2, EditorMarks

LEMMA LeaveMarks ==
  ASSUME MInv, EditsOK, NEW e \in Editor, Leave(e), UNCHANGED <<row, mark, pull, minted>>
  PROVE  MInv'
<1>1. edit' = [edit EXCEPT ![e] = Idle] /\ Idle.pc = "idle"
  BY DEF Leave, Idle
<1> QED  BY <1>1, QuietEditor

LEMMA AskMarks == ASSUME MInv, EditsOK, NEW e \in Editor, Ask(e) PROVE MInv'
<1>0. PICK s \in Song : \E r \in Requests(row[s].slides) :
        edit' = [edit EXCEPT ![e] = [pc |-> "lock", song |-> s, req |-> r]]
  BY DEF Ask
<1>1. PICK r : edit' = [edit EXCEPT ![e] = [pc |-> "lock", song |-> s, req |-> r]]
  BY <1>0
<1> DEFINE w == [pc |-> "lock", song |-> s, req |-> r]
<1>3. w.pc = "lock" /\ edit' = [edit EXCEPT ![e] = w]
  BY <1>1
<1> HIDE DEF w
<1>2. UNCHANGED <<row, mark, pull, minted>>
  BY DEF Ask
<1> QED  BY <1>2, <1>3, QuietEditor

LEMMA LockMarks == ASSUME MInv, EditsOK, NEW e \in Editor, Lock(e) PROVE MInv'
<1> DEFINE w == [pc |-> "read", song |-> edit[e].song, req |-> edit[e].req]
<1>0. EditOK(e) /\ edit[e].pc = "lock"
  BY DEF Lock, EditsOK
<1>1. edit[e] = [pc |-> "lock", song |-> edit[e].song, req |-> edit[e].req]
  BY <1>0 DEF EditOK
<1>2. [edit[e] EXCEPT !.pc = "read"] = w /\ w.pc = "read"
  BY <1>1
<1>3. edit' = [edit EXCEPT ![e] = [edit[e] EXCEPT !.pc = "read"]]
  BY DEF Lock
<1>4. UNCHANGED <<row, mark, pull, minted>>
  BY DEF Lock
<1> HIDE DEF w
<1> QED  BY <1>2, <1>3, <1>4, QuietEditor

LEMMA ReadMarks == ASSUME MInv, EditsOK, NEW e \in Editor, Read(e) PROVE MInv'
<1> DEFINE s == edit[e].song
           w == [pc |-> "write", song |-> s, req |-> edit[e].req, snap |-> row[s].slides]
<1>1. UNCHANGED <<row, mark, pull, minted>>
  BY DEF Read
<1>2. CASE edit' = [edit EXCEPT ![e] = w]
  <2>1. w.pc = "write"
    OBVIOUS
  <2> HIDE DEF w
  <2> QED  BY <1>1, <1>2, <2>1, QuietEditor
<1>3. CASE Leave(e)
  BY <1>1, <1>3, LeaveMarks
<1> QED  BY <1>2, <1>3 DEF Read

\* What is left to mark stays so while it is worked on.
LEMMA TodoStays ==
  ASSUME NEW t, t # <<>>, NEW S, t \in Seq(S)
  PROVE  /\ Tail(t) \in Seq(S) /\ Head(t) = t[1] /\ 1 \in DOMAIN t
         /\ \A k \in DOMAIN Tail(t) : k + 1 \in DOMAIN t /\ Tail(t)[k] = t[k + 1]
BY HeadTailProperties

LEMMA ReadMarkMarks == ASSUME MInv, EditsOK, NEW e \in Editor, ReadMark(e) PROVE MInv'
<1> DEFINE t == edit[e].todo
           s == edit[e].song
<1>1. /\ edit[e] = [pc |-> "marks", song |-> s, req |-> edit[e].req, todo |-> t,
                    found |-> edit[e].found]
      /\ s \in Song /\ t # <<>> /\ \E S : t \in Seq(S)
  BY DEF ReadMark, MInv, TodoOK, EditsOK, EditOK
<1>2. PICK S : t \in Seq(S)
  BY <1>1
<1>3. \A k \in DOMAIN t : Ours(s, t[k][2])
  BY <1>1 DEF Ours
<1>4. UNCHANGED <<row, mark, pull, minted>>
  BY DEF ReadMark
<1>5. \A i \in DOMAIN mark' : mark'[i].song \in Song /\ Ours(mark'[i].song, i)
  BY <1>4 DEF MInv, MarksOK, Ours
<1>6. ASSUME NEW l, edit' = [edit EXCEPT ![e] = [pc |-> "copy", song |-> s, req |-> edit[e].req,
                                             todo |-> t, found |-> l]]
      PROVE  MInv'
  <2> DEFINE w == [pc |-> "copy", song |-> s, req |-> edit[e].req, todo |-> t, found |-> l]
  <2>1. TodoOK(w) /\ w.pc # "assign" /\ \A k \in DOMAIN w.todo : Ours(w.song, w.todo[k][2])
    BY <1>1, <1>3 DEF TodoOK
  <2>2. edit' = [edit EXCEPT ![e] = w]
    BY <1>6
  <2> HIDE DEF w
  <2> QED  BY <1>4, <1>5, <2>1, <2>2, EditorMarks
<1>7. ASSUME edit' = [edit EXCEPT ![e] = [pc |-> "marks", song |-> s, req |-> edit[e].req,
                                      todo |-> Tail(t), found |-> edit[e].found]]
      PROVE  MInv'
  <2> DEFINE w == [pc |-> "marks", song |-> s, req |-> edit[e].req, todo |-> Tail(t),
                   found |-> edit[e].found]
  <2>1. /\ Tail(t) \in Seq(S)
        /\ \A k \in DOMAIN Tail(t) : k + 1 \in DOMAIN t /\ Tail(t)[k] = t[k + 1]
    BY <1>1, <1>2, TodoStays
  <2>2. TodoOK(w) /\ w.pc # "assign" /\ \A k \in DOMAIN w.todo : Ours(w.song, w.todo[k][2])
    BY <1>1, <1>3, <2>1 DEF TodoOK
  <2>3. edit' = [edit EXCEPT ![e] = w]
    BY <1>7
  <2> HIDE DEF w
  <2> QED  BY <1>4, <1>5, <2>2, <2>3, EditorMarks
<1>8. ASSUME NEW l, edit' = [edit EXCEPT ![e] = [[edit[e] EXCEPT !.pc = "copy"] EXCEPT !.found = l]]
      PROVE  MInv'
  <2>1. [[edit[e] EXCEPT !.pc = "copy"] EXCEPT !.found = l]
        = [pc |-> "copy", song |-> s, req |-> edit[e].req, todo |-> t, found |-> l]
    <3>1. [edit[e] EXCEPT !.pc = "copy"]
          = [pc |-> "copy", song |-> s, req |-> edit[e].req, todo |-> t, found |-> edit[e].found]
      BY <1>1
    <3>2. ASSUME NEW x,
                 x = [pc |-> "copy", song |-> s, req |-> edit[e].req, todo |-> t,
                      found |-> edit[e].found]
          PROVE  [x EXCEPT !.found = l]
                 = [pc |-> "copy", song |-> s, req |-> edit[e].req, todo |-> t, found |-> l]
      BY <3>2
    <3> QED  BY <3>1, <3>2
  <2> QED  BY <1>6, <1>8, <2>1
<1>9. ASSUME edit' = [edit EXCEPT ![e] = [edit[e] EXCEPT !.todo = Tail(t)]]
      PROVE  MInv'
  <2>1. [edit[e] EXCEPT !.todo = Tail(t)]
        = [pc |-> "marks", song |-> s, req |-> edit[e].req, todo |-> Tail(t),
           found |-> edit[e].found]
    BY <1>1
  <2> QED  BY <1>7, <1>9, <2>1
<1> QED  BY <1>8, <1>9 DEF ReadMark

LEMMA CopyMarkMarks == ASSUME MInv, EditsOK, NEW e \in Editor, CopyMark(e) PROVE MInv'
<1> DEFINE t == edit[e].todo
           s == edit[e].song
           w == [pc |-> "marks", song |-> s, req |-> edit[e].req, todo |-> Tail(t),
                 found |-> edit[e].found]
<1>1. /\ edit[e] = [pc |-> "copy", song |-> s, req |-> edit[e].req, todo |-> t,
                    found |-> edit[e].found]
      /\ s \in Song /\ t # <<>> /\ \E S : t \in Seq(S)
  BY DEF CopyMark, MInv, TodoOK, EditsOK, EditOK
<1>2. PICK S : t \in Seq(S)
  BY <1>1
<1>3. \A k \in DOMAIN t : Ours(s, t[k][2])
  BY <1>1 DEF Ours
<1>4. /\ Tail(t) \in Seq(S) /\ Head(t) = t[1] /\ 1 \in DOMAIN t
      /\ \A k \in DOMAIN Tail(t) : k + 1 \in DOMAIN t /\ Tail(t)[k] = t[k + 1]
  BY <1>1, <1>2, TodoStays
<1>5. TodoOK(w) /\ w.pc # "assign" /\ \A k \in DOMAIN w.todo : Ours(w.song, w.todo[k][2])
  BY <1>1, <1>3, <1>4 DEF TodoOK
<1>6. \A i \in DOMAIN mark' : mark'[i].song \in Song /\ Ours(mark'[i].song, i)
  <2>1. mark' = Marked(Head(t)[2], [song |-> s, layout |-> edit[e].found])
    BY DEF CopyMark
  <2>2. Ours(s, Head(t)[2])
    BY <1>3, <1>4
  <2>3. \A i \in DOMAIN mark : mark[i].song \in Song /\ Ours(mark[i].song, i)
    BY DEF MInv, MarksOK, Ours
  <2>4. \A i \in DOMAIN mark' : \/ i = Head(t)[2] /\ mark'[i].song = s
                                \/ i \in DOMAIN mark /\ mark'[i] = mark[i]
    BY <2>1 DEF Marked
  <2> QED  BY <1>1, <2>2, <2>3, <2>4
<1>7. edit' = [edit EXCEPT ![e] = w] /\ UNCHANGED <<row, pull, minted>>
  <2>1. edit' = [edit EXCEPT ![e] = [[edit[e] EXCEPT !.pc = "marks"] EXCEPT !.todo = Tail(t)]]
    BY DEF CopyMark
  <2>2. [[edit[e] EXCEPT !.pc = "marks"] EXCEPT !.todo = Tail(t)] = w
    <3>1. [edit[e] EXCEPT !.pc = "marks"]
          = [pc |-> "marks", song |-> s, req |-> edit[e].req, todo |-> t, found |-> edit[e].found]
      BY <1>1
    <3>2. ASSUME NEW x, NEW y,
                 x = [pc |-> "marks", song |-> s, req |-> edit[e].req, todo |-> t,
                      found |-> edit[e].found]
          PROVE  [x EXCEPT !.todo = y]
                 = [pc |-> "marks", song |-> s, req |-> edit[e].req, todo |-> y,
                    found |-> edit[e].found]
      BY ONLY <3>2
    <3> QED  BY <3>1, <3>2
  <2> HIDE DEF w
  <2> QED  BY <2>1, <2>2 DEF CopyMark
<1> HIDE DEF w
<1> QED  BY <1>5, <1>6, <1>7, EditorMarks

\* A client marks a slide that is of the song, or was.
LEMMA AskMarkMarks == ASSUME MInv, EditsOK, NEW e \in Editor, AskMark(e) PROVE MInv'
<1>1. PICK s \in Song, l \in Layout \union {NULL} : \E i \in Ids(row[s].slides) :
        edit' = [edit EXCEPT ![e] = [pc |-> "assign", song |-> s, id |-> i, layout |-> l]]
  BY DEF AskMark
<1>2. PICK i \in Ids(row[s].slides) :
        edit' = [edit EXCEPT ![e] = [pc |-> "assign", song |-> s, id |-> i, layout |-> l]]
  BY <1>1
<1> DEFINE w == [pc |-> "assign", song |-> s, id |-> i, layout |-> l]
<1>3. /\ edit' = [edit EXCEPT ![e] = w] /\ w.pc \notin {"marks", "copy"} /\ TodoOK(w)
      /\ w.song = s /\ w.id = i
  BY <1>2 DEF TodoOK
<1>4. Ours(s, i)
  BY DEF Ours
<1>5. UNCHANGED <<row, mark, pull, minted>>
  BY DEF AskMark
<1>6. \A j \in DOMAIN mark' : mark'[j].song \in Song /\ Ours(mark'[j].song, j)
  BY <1>5 DEF MInv, MarksOK, Ours
<1> HIDE DEF w
<1> QED  BY <1>3, <1>4, <1>5, <1>6, EditorMarks

\* Markers that stay, or go, keep their songs.
LEMMA MarksStay ==
  ASSUME MInv, \A j \in DOMAIN mark' : j \in DOMAIN mark /\ mark'[j] = mark[j]
  PROVE  \A j \in DOMAIN mark' : mark'[j].song \in Song /\ Ours(mark'[j].song, j)
BY DEF MInv, MarksOK, Ours

LEMMA SetMarkMarks == ASSUME MInv, EditsOK, NEW e \in Editor, SetMark(e) PROVE MInv'
<1> DEFINE s == edit[e].song
           i == edit[e].id
<1>1. s \in Song /\ Ours(s, i)
  BY DEF SetMark, MInv, TodoOK, Ours
<1>2. edit' = [edit EXCEPT ![e] = Idle] /\ UNCHANGED <<row, pull, minted>>
  BY DEF SetMark
<1>3. TodoOK(Idle) /\ Idle.pc = "idle"
  BY DEF TodoOK, Idle
<1>4. CASE mark' = Unmarked(i)
  <2>1. \A j \in DOMAIN mark' : mark'[j].song \in Song /\ Ours(mark'[j].song, j)
    BY <1>4, MarksStay DEF Unmarked
  <2> QED  BY <1>2, <1>3, <2>1, EditorMarks
<1>5. CASE mark' = Marked(i, [song |-> s, layout |-> edit[e].layout])
  <2>1. \A j \in DOMAIN mark' : \/ j = i /\ mark'[j].song = s
                                \/ j \in DOMAIN mark /\ mark'[j] = mark[j]
    BY <1>5 DEF Marked
  <2>2. \A j \in DOMAIN mark : mark[j].song \in Song /\ Ours(mark[j].song, j)
    BY DEF MInv, MarksOK, Ours
  <2> HIDE DEF s, i
  <2>3. \A j \in DOMAIN mark' : mark'[j].song \in Song /\ Ours(mark'[j].song, j)
    BY <1>1, <2>1, <2>2
  <2> QED  BY <1>2, <1>3, <2>3, EditorMarks
<1> QED  BY <1>4, <1>5 DEF SetMark

LEMMA FinishMarks == ASSUME MInv, EditsOK, NEW e \in Editor, Finish(e) PROVE MInv'
<1>1. edit' = [edit EXCEPT ![e] = Idle] /\ UNCHANGED <<row, pull, minted>>
  BY DEF Finish, Leave
<1>2. TodoOK(Idle) /\ Idle.pc = "idle"
  BY DEF TodoOK, Idle
<1>3. \A j \in DOMAIN mark' : j \in DOMAIN mark /\ mark'[j] = mark[j]
  BY DEF Finish, Unmarked
<1>4. \A j \in DOMAIN mark' : mark'[j].song \in Song /\ Ours(mark'[j].song, j)
  BY <1>3, MarksStay
<1> QED  BY <1>1, <1>2, <1>4, EditorMarks

\* The copies an edit makes are new slides of its song.
LEMMA CopiesList ==
  ASSUME NEW w, ListOK(w.snap), minted \in Nat
  PROVE  /\ \E S : Copies(w) \in Seq(S)
         /\ Len(Clones(w.snap, Copied(w.req), 0)) \in Nat
         /\ \A k \in DOMAIN Copies(w) :
              Copies(w)[k][2] \in (minted + 1)..(minted + Len(Clones(w.snap, Copied(w.req), 0)))
<1> DEFINE from == SelectSeq(w.snap, LAMBDA x : x.id \in Copied(w.req))
           m == Len(from)
           S == {<<from[k].id, minted + k>> : k \in 1..m}
<1>1. m \in Nat
  BY DEF ListOK
<1>2. Copies(w) = [k \in 1..m |-> <<from[k].id, minted + k>>]
  BY DEF Copies
<1>3. Len(Clones(w.snap, Copied(w.req), 0)) = m
  BY <1>1 DEF Clones
<1> HIDE DEF from, m
<1>4. [k \in 1..m |-> <<from[k].id, minted + k>>] \in Seq(S)
  BY <1>1
<1>5. \A k \in 1..m : minted + k \in (minted + 1)..(minted + m)
  BY <1>1
<1>6. \A k \in DOMAIN Copies(w) : Copies(w)[k][2] \in (minted + 1)..(minted + m)
  BY <1>2, <1>5
<1>7. Copies(w) \in Seq(S)
  BY <1>2, <1>4
<1> HIDE DEF S
<1> QED  BY <1>1, <1>3, <1>6, <1>7

\* What an edit writes: the slides there were, and new ones that nothing names.
LEMMA Replaced ==
  ASSUME IInv, MInv, NEW e \in Editor, Replace(e),
         ~(Leave(e) /\ UNCHANGED <<row, clock, minted>>),
         NEW s, s = edit[e].song
  PROVE  LET w == [pc |-> "marks", song |-> s, req |-> edit[e].req,
                   todo |-> Copies(edit[e]), found |-> NULL]
             new == (minted + 1)..minted'
         IN  /\ s \in Song /\ minted' \in Nat /\ minted <= minted'
             /\ \A x \in Song \ {s} : row'[x] = row[x]
             /\ row'[s].sid = row[s].sid /\ row'[s].by = "here"
             /\ ListOK(row'[s].slides)
             /\ Ids(row'[s].slides) \subseteq Ids(row[s].slides) \union new
             /\ edit' = [edit EXCEPT ![e] = w]
             /\ TodoOK(w)
             /\ \A k \in DOMAIN w.todo : w.todo[k][2] \in new
<1> DEFINE r == edit[e].req
           list == row[s].slides
           new == Result(list, r, minted)
           copied == Len(Clones(list, Copied(r), 0))
<1>1. s \in Song /\ Request(r) /\ edit[e].snap = list
  BY DEF Replace, IInv, EditsOK, EditOK, SnapshotIsCurrent
<1>2. /\ Allowed(list, r)
      /\ Write(s, new, row[s].name, row[s].live)
      /\ minted' = minted + Taken(list, r)
      /\ edit' = [edit EXCEPT ![e] = [pc |-> "marks", song |-> s, req |-> r,
                                      todo |-> Copies(edit[e]), found |-> NULL]]
  BY <1>1 DEF Replace
<1>3. ListOK(list) /\ minted \in Nat /\ Ids(list) \subseteq 1..minted
  BY <1>1 DEF MInv, ListsOK, IdsOK, Ours
<1>4. /\ Taken(list, r) \in Nat /\ ListOK(new)
      /\ Ids(new) \subseteq Ids(list) \union (minted + 1)..(minted + Taken(list, r))
  BY <1>1, <1>2, <1>3, ResultList
<1>5. /\ \E S : Copies(edit[e]) \in Seq(S)
      /\ copied \in Nat
      /\ \A k \in DOMAIN Copies(edit[e]) : Copies(edit[e])[k][2] \in (minted + 1)..(minted + copied)
  BY <1>1, <1>3, CopiesList
<1>6. copied <= Taken(list, r)
  BY <1>5 DEF Taken
<1> HIDE DEF new, copied, list, r
<1>7. row' = [row EXCEPT ![s] = [slides |-> new, at |-> clock + 1, by |-> "here",
                                 sid |-> row[s].sid, name |-> row[s].name,
                                 live |-> row[s].live]]
  BY <1>2 DEF Write
<1>8. /\ \A x \in Song \ {s} : row'[x] = row[x]
      /\ row'[s].slides = new /\ row'[s].sid = row[s].sid /\ row'[s].by = "here"
  BY <1>1, <1>7 DEF IInv, RowsOK
<1>9. minted' \in Nat /\ minted <= minted'
  BY <1>2, <1>3, <1>4
<1>10. \A k \in DOMAIN Copies(edit[e]) : Copies(edit[e])[k][2] \in (minted + 1)..minted'
  BY <1>2, <1>3, <1>4, <1>5, <1>6
<1> DEFINE w == [pc |-> "marks", song |-> s, req |-> r, todo |-> Copies(edit[e]), found |-> NULL]
<1>11. TodoOK(w) /\ w.todo = Copies(edit[e])
  BY <1>1, <1>5 DEF TodoOK
<1> QED  BY <1>1, <1>2, <1>4, <1>8, <1>9, <1>10, <1>11 DEF list, r

LEMMA ReplaceMarks == ASSUME IInv, MInv, NEW e \in Editor, Replace(e) PROVE MInv'
<1>1. EditsOK /\ UNCHANGED <<mark, pull>>
  BY DEF IInv, Replace
<1>2. CASE Leave(e) /\ UNCHANGED <<row, clock, minted>>
  BY <1>1, <1>2, LeaveMarks
<1>3. CASE ~(Leave(e) /\ UNCHANGED <<row, clock, minted>>)
  <2>0. PICK s : s = edit[e].song
    OBVIOUS
  <2> DEFINE w == [pc |-> "marks", song |-> s, req |-> edit[e].req,
                   todo |-> Copies(edit[e]), found |-> NULL]
             new == (minted + 1)..minted'
  <2>1. /\ s \in Song /\ minted' \in Nat /\ minted <= minted'
        /\ \A x \in Song \ {s} : row'[x] = row[x]
        /\ row'[s].sid = row[s].sid
        /\ ListOK(row'[s].slides)
        /\ Ids(row'[s].slides) \subseteq Ids(row[s].slides) \union new
        /\ edit' = [edit EXCEPT ![e] = w]
        /\ TodoOK(w)
        /\ \A k \in DOMAIN w.todo : w.todo[k][2] \in new
    BY <1>3, <2>0, Replaced
  <2>2. w.pc = "marks" /\ w.song = s
    OBVIOUS
  <2> HIDE DEF w, new
  <2>3. edit'[e] = w /\ \A x \in Editor \ {e} : edit'[x] = edit[x]
    BY <1>1, <2>1 DEF EditsOK
  <2>4. ASSUME NEW t \in Song, NEW i, Ours(t, i)' PROVE Ours(t, i) \/ (t = s /\ i \in new)
    <3>1. CASE i \in Ids(row'[t].slides) \union Ids(Original(t))
      BY <2>1, <3>1 DEF Ours
    <3>2. CASE i \in DOMAIN mark' /\ mark'[i].song = t
      BY <1>1, <3>2 DEF Ours
    <3>3. ASSUME NEW x \in Editor, edit'[x].pc = "assign", edit'[x].song = t, edit'[x].id = i
          PROVE  Ours(t, i)
      BY <2>2, <2>3, <3>3 DEF Ours
    <3>4. ASSUME NEW x \in Editor, edit'[x].pc \in {"marks", "copy"}, edit'[x].song = t,
                 NEW k \in DOMAIN edit'[x].todo, edit'[x].todo[k][2] = i
          PROVE  Ours(t, i) \/ (t = s /\ i \in new)
      <4>1. CASE x = e
        BY <2>1, <2>2, <2>3, <3>4, <4>1
      <4>2. CASE x # e
        BY <2>3, <3>4, <4>2 DEF Ours
      <4> QED  BY <4>1, <4>2
    <3> QED  BY <2>4, <3>1, <3>2, <3>3, <3>4 DEF Ours
  <2>5. Grow
    <3>1. \A x \in Song : row'[x].sid = row[x].sid
      BY <2>1
    <3> QED  BY <2>1, <2>4, <3>1 DEF Grow, new
  <2>6. IdsOK'
    <3>1. pull'.pc # "idle" => pull.pc # "idle" /\ pull'.version = pull.version
      BY <1>1
    <3> QED  BY <2>5, <3>1, IdsStay
  <2>7. ListsOK' /\ MarksOK'
    BY <1>1, <2>1 DEF MInv, ListsOK, MarksOK
  <2>8. \A x \in Editor : TodoOK(edit'[x])
    BY <2>1, <2>3 DEF MInv
  <2> QED  BY <2>6, <2>7, <2>8 DEF MInv, TodoOK
<1> QED  BY <1>2, <1>3

\* The other site sends slides of the song, or one that nothing names yet.
LEMMA FetchMarks == ASSUME IInv, MInv, Fetch PROVE MInv'
<1>1. /\ UNCHANGED <<row, mark, edit>>
      /\ \/ \E s \in Song, live \in BOOLEAN : \E v \in Versions(s) :
              /\ \E at : Fetched([slides |-> v, at |-> at, sid |-> row[s].sid,
                                  name |-> row[s].name, live |-> live])
              /\ UNCHANGED minted
         \/ \E n \in SongName, t \in Text :
              /\ \E at : Fetched([slides |-> <<Slide(minted + 1, t)>>, at |-> at,
                                  sid |-> Foreign, name |-> n, live |-> TRUE])
              /\ minted' = minted + 1
  BY DEF Fetch
<1>2. ASSUME NEW s \in Song, NEW i PROVE Ours(s, i)' <=> Ours(s, i)
  BY <1>1 DEF Ours, Original, FirstId
<1>3. minted \in Nat
  BY DEF MInv, IdsOK
<1>4. ASSUME ListOK(pull'.version.slides), minted' \in Nat, minted <= minted',
             \A i \in Ids(pull'.version.slides) :
               i \in 1..minted' /\ \A s \in Song : Ours(s, i) => row[s].sid = pull'.version.sid
      PROVE  MInv'
  <2>1. \A s \in Song : \A i : Ours(s, i)' => i \in 1..minted'
    BY <1>2, <1>3, <1>4 DEF MInv, IdsOK
  <2>2. \A s, t \in Song : \A i : Ours(s, i)' /\ Ours(t, i)' => s = t
    BY <1>2 DEF MInv, IdsOK
  <2>3. \A i \in Ids(pull'.version.slides) :
          i \in 1..minted' /\ \A s \in Song : Ours(s, i)' => row'[s].sid = pull'.version.sid
    BY <1>1, <1>2, <1>4
  <2>4. IdsOK'
    BY <1>4, <2>1, <2>2, <2>3 DEF IdsOK
  <2>5. ListsOK' /\ MarksOK' /\ \A e \in Editor : TodoOK(edit'[e])
    BY <1>1, <1>4 DEF MInv, ListsOK, MarksOK
  <2> QED  BY <2>4, <2>5 DEF MInv, TodoOK
<1>5. ASSUME NEW s \in Song, NEW live, NEW v \in Versions(s), NEW at, UNCHANGED minted,
             Fetched([slides |-> v, at |-> at, sid |-> row[s].sid,
                      name |-> row[s].name, live |-> live])
      PROVE  MInv'
  <2>1. pull'.version.slides = v /\ pull'.version.sid = row[s].sid
    BY <1>5 DEF Fetched
  <2>2. PICK list \in {Original(s), row[s].slides} :
          v = Reverse(list) \/ \E t \in Text : v = [list EXCEPT ![1].text = t]
    BY DEF Versions
  <2>3. ListOK(list) /\ \A i \in Ids(list) : Ours(s, i)
    BY OriginalList DEF MInv, ListsOK, Ours
  <2>4. ListOK(v) /\ Ids(v) = Ids(list)
    BY <2>2, <2>3, VersionList
  <2>5. \A i \in Ids(v) : i \in 1..minted /\ \A t \in Song : Ours(t, i) => t = s
    BY <2>3, <2>4 DEF MInv, IdsOK
  <2>6. \A i \in Ids(pull'.version.slides) :
          i \in 1..minted' /\ \A t \in Song : Ours(t, i) => row[t].sid = pull'.version.sid
    BY <1>5, <2>1, <2>5
  <2> QED  BY <1>3, <1>4, <1>5, <2>1, <2>4, <2>6
<1>6. ASSUME NEW n, NEW t, NEW at, minted' = minted + 1,
             Fetched([slides |-> <<Slide(minted + 1, t)>>, at |-> at,
                      sid |-> Foreign, name |-> n, live |-> TRUE])
      PROVE  MInv'
  <2>1. pull'.version.slides = <<Slide(minted + 1, t)>> /\ pull'.version.sid = Foreign
    BY <1>6 DEF Fetched
  <2>2. ListOK(<<Slide(minted + 1, t)>>) /\ Ids(<<Slide(minted + 1, t)>>) = {minted + 1}
    BY SmallList
  <2>3. \A x \in Song : ~Ours(x, minted + 1)
    BY <1>3 DEF MInv, IdsOK
  <2>4. minted' \in Nat /\ minted <= minted' /\ minted + 1 \in 1..minted'
    BY <1>3, <1>6
  <2> QED  BY <1>4, <2>1, <2>2, <2>3, <2>4
<1> QED  BY <1>1, <1>5, <1>6

\* A version on its way, or one that changes nothing.
LEMMA QuietPull ==
  ASSUME MInv, UNCHANGED <<row, mark, edit, minted>>,
         pull'.pc # "idle" => pull.pc # "idle" /\ pull'.version = pull.version
  PROVE  MInv'
<1>1. ASSUME NEW s \in Song, NEW i PROVE Ours(s, i)' => Ours(s, i)
  BY DEF Ours, Original, FirstId
<1>2. Grow
  BY <1>1 DEF Grow, MInv, IdsOK
<1>3. IdsOK'
  BY <1>2, IdsStay
<1>4. ListsOK' /\ MarksOK' /\ \A e \in Editor : TodoOK(edit'[e])
  BY DEF MInv, ListsOK, MarksOK
<1> QED  BY <1>3, <1>4 DEF MInv, TodoOK

\* The markers that come with a version: those of the other songs, and those of
\* the slides it replaces.
LEMMA MarkersOf ==
  ASSUME NEW s \in Song, NEW v, ListOK(v.slides)
  PROVE  \A i \in DOMAIN Markers(s, v) :
           \/ i \in DOMAIN mark /\ mark[i].song # s /\ Markers(s, v)[i] = mark[i]
           \/ /\ i \in Ids(v.slides) /\ v.live
              /\ \E j \in Ids(row[s].slides) :
                   j \in DOMAIN mark /\ mark[j].song = s /\ Markers(s, v)[i] = mark[j]
<1> DEFINE old == row[s].slides
           others == {i \in DOMAIN mark : mark[i].song # s}
           M == {k \in DOMAIN old : v.live /\ old[k].id \in DOMAIN mark /\ mark[old[k].id].song = s}
           to == Remapped(old, M, v.slides)
           kept == {v.slides[to[k]].id : k \in DOMAIN to}
           from(i) == CHOOSE k \in DOMAIN to : v.slides[to[k]].id = i
           marks == [i \in kept \union others |->
                       IF i \in kept THEN mark[old[from(i)].id] ELSE mark[i]]
<1>1. Markers(s, v) = marks
  BY DEF Markers
<1>2. DOMAIN to \subseteq M /\ \A j \in DOMAIN to : to[j] \in DOMAIN v.slides
  BY Remapping
<1> HIDE DEF to
<1>3. ASSUME NEW i \in kept
      PROVE  /\ i \in Ids(v.slides) /\ v.live
             /\ \E j \in Ids(row[s].slides) :
                  j \in DOMAIN mark /\ mark[j].song = s /\ marks[i] = mark[j]
  <2>1. from(i) \in DOMAIN to /\ v.slides[to[from(i)]].id = i
    OBVIOUS
  <2>2. marks[i] = mark[old[from(i)].id]
    OBVIOUS
  <2> HIDE DEF from, marks, kept
  <2>3. i \in Ids(v.slides)
    BY <1>2, <2>1 DEF Ids
  <2>4. from(i) \in M
    BY <1>2, <2>1
  <2>5. old[from(i)].id \in Ids(old)
    BY <2>4 DEF Ids
  <2> QED  BY <2>2, <2>3, <2>4, <2>5
<1>4. \A i \in others : i \notin kept => marks[i] = mark[i]
  OBVIOUS
<1>5. DOMAIN marks = kept \union others
  OBVIOUS
<1> HIDE DEF marks, kept
<1> QED  BY <1>1, <1>3, <1>4, <1>5

\* What a version is written to, and what it does to the song.
LEMMA Applied ==
  ASSUME IInv, MInv, Apply
  PROVE  LET v == pull.version IN
         \/ UNCHANGED <<row, mark>>
         \/ \E s \in Song :
              /\ mark' = Markers(s, v) /\ ListOK(v.slides)
              /\ \A t \in Song \ {s} : row'[t] = row[t]
              /\ row'[s].slides = v.slides /\ row'[s].sid = v.sid
              /\ row'[s].live = v.live
              /\ \A i \in Ids(v.slides) : /\ i \in 1..minted
                                          /\ \A t \in Song : Ours(t, i) => t = s
<1> DEFINE v == pull.version
           newer == {s \in Target(v) : v.at > row[s].at}
<1>1. \A s \in Target(v) : s \in Song
  BY DEF Target
<1>2. /\ row' = [s \in Song |-> IF s \notin newer THEN row[s] ELSE
                   [slides |-> v.slides, at |-> v.at, by |-> "peer",
                    sid |-> v.sid, name |-> v.name, live |-> v.live]]
      /\ \/ newer = {} /\ mark' = mark
         \/ \E s \in newer : mark' = Markers(s, v)
      /\ pull.pc = "apply"
  BY DEF Apply
<1>3. /\ ListOK(v.slides)
      /\ \A i \in Ids(v.slides) : i \in 1..minted
                                  /\ \A t \in Song : Ours(t, i) => row[t].sid = v.sid
  BY <1>2 DEF MInv, ListsOK, IdsOK
<1> HIDE DEF v
<1>4. CASE newer = {}
  <2>1. row' = row
    BY <1>2, <1>4 DEF IInv, RowsOK
  <2> QED  BY <1>2, <1>4, <2>1
<1>5. ASSUME NEW s \in newer, mark' = Markers(s, v)
      PROVE  /\ s \in Song
             /\ \A t \in Song \ {s} : row'[t] = row[t]
             /\ row'[s].slides = v.slides /\ row'[s].sid = v.sid
             /\ row'[s].live = v.live
             /\ \A i \in Ids(v.slides) : \A t \in Song : Ours(t, i) => t = s
  <2>1. s \in Target(v) /\ s \in Song
    BY <1>1
  <2>2. \A t \in Song \ {s} : t \notin newer
    BY <2>1, OneTarget
  <2>3. ASSUME NEW i \in Ids(v.slides), NEW t \in Song, Ours(t, i) PROVE t = s
    <3>1. t \in Target(v)
      BY <1>3, <2>3 DEF Target
    <3> QED  BY <2>1, <3>1, OneTarget
  <2> QED  BY <1>2, <2>1, <2>2, <2>3
<1> QED  BY <1>2, <1>3, <1>4, <1>5 DEF v

LEMMA ApplyMarks == ASSUME IInv, MInv, Apply PROVE MInv'
<1> DEFINE v == pull.version
<1>1. UNCHANGED <<edit, minted>> /\ pull'.pc = "idle"
  BY DEF Apply, Idle
<1>2. CASE UNCHANGED <<row, mark>>
  BY <1>1, <1>2, QuietPull
<1>3. ASSUME NEW s \in Song, mark' = Markers(s, v), ListOK(v.slides),
             \A t \in Song \ {s} : row'[t] = row[t],
             row'[s].slides = v.slides,
             \A i \in Ids(v.slides) : i \in 1..minted /\ \A t \in Song : Ours(t, i) => t = s
      PROVE  MInv'
  <2> HIDE DEF v
  <2>1. \A i \in DOMAIN mark' :
          \/ i \in DOMAIN mark /\ mark[i].song # s /\ mark'[i] = mark[i]
          \/ i \in Ids(v.slides) /\ mark'[i].song = s
    BY <1>3, MarkersOf
  <2>2. MarksOK'
    BY <2>1 DEF MInv, MarksOK
  <2>3. ASSUME NEW t \in Song, NEW i, Ours(t, i)'
        PROVE  Ours(t, i) \/ (t = s /\ i \in Ids(v.slides))
    <3>1. CASE i \in Ids(row'[t].slides) \union Ids(Original(t))
      BY <1>3, <3>1 DEF Ours
    <3>2. CASE i \in DOMAIN mark' /\ mark'[i].song = t
      BY <2>1, <3>2 DEF Ours
    <3>3. CASE \/ \E e \in Editor : edit'[e].pc = "assign" /\ edit'[e].song = t /\ edit'[e].id = i
               \/ \E e \in Editor : /\ edit'[e].pc \in {"marks", "copy"} /\ edit'[e].song = t
                                    /\ \E k \in DOMAIN edit'[e].todo : edit'[e].todo[k][2] = i
      BY <1>1, <3>3 DEF Ours
    <3> QED  BY <2>3, <3>1, <3>2, <3>3 DEF Ours
  <2>4. \A t \in Song : \A i : Ours(t, i)' => i \in 1..minted'
    BY <1>1, <1>3, <2>3 DEF MInv, IdsOK
  <2>5. \A t, u \in Song : \A i : Ours(t, i)' /\ Ours(u, i)' => t = u
    BY <1>3, <2>3 DEF MInv, IdsOK
  <2>6. IdsOK'
    BY <1>1, <2>4, <2>5 DEF MInv, IdsOK
  <2>7. ListsOK' /\ \A e \in Editor : TodoOK(edit'[e])
    BY <1>1, <1>3 DEF MInv, ListsOK
  <2> QED  BY <2>2, <2>6, <2>7 DEF MInv, TodoOK
<1> QED  BY <1>2, <1>3, Applied

\* The slides of a song, its markers, and what is still to mark, stay its own.
THEOREM MarksInvariant == ASSUME Steady, IInv, MInv, [Next]_vars PROVE MInv'
<1>0. EditsOK
  BY DEF IInv
<1>1. ASSUME NEW e \in Editor, Ask(e) \/ AskMark(e) \/ Lock(e) \/ Read(e) PROVE MInv'
  BY <1>0, <1>1, AskMarks, AskMarkMarks, LockMarks, ReadMarks
<1>2. ASSUME NEW e \in Editor, Replace(e) PROVE MInv'
  BY <1>2, ReplaceMarks
<1>3. ASSUME NEW e \in Editor, ReadMark(e) \/ CopyMark(e) \/ SetMark(e) \/ Finish(e) PROVE MInv'
  BY <1>0, <1>3, ReadMarkMarks, CopyMarkMarks, SetMarkMarks, FinishMarks
<1>4. ASSUME NEW e \in Editor, Abandon(e) PROVE MInv'
  BY <1>0, <1>4, LeaveMarks DEF Abandon
<1>5. ASSUME NEW s \in Song, RenamePresentation(s) \/ DeletePresentation(s)
                             \/ RestorePresentation(s)
      PROVE  FALSE
  BY <1>5 DEF Steady, RenamePresentation, DeletePresentation, RestorePresentation
<1>6. CASE Probe \/ LockTarget
  <2>1. pull.pc # "idle" /\ pull'.version = pull.version
    BY <1>6 DEF Probe, LockTarget, IInv, PullOK
  <2>2. UNCHANGED <<row, mark, edit, minted>>
    BY <1>6 DEF Probe, LockTarget
  <2> QED  BY <2>1, <2>2, QuietPull
<1>7. CASE UNCHANGED vars
  BY <1>7, QuietPull DEF vars
<1> QED
  BY <1>1, <1>2, <1>3, <1>4, <1>5, <1>6, <1>7, FetchMarks, ApplyMarks DEF Next, EditStep

\* Only edits and versions change a song.
LEMMA RowsStay ==
  ASSUME Steady, [Next]_vars
  PROVE  UNCHANGED row \/ Apply \/ \E e \in Editor : Replace(e)
<1>1. ASSUME NEW s \in Song, RenamePresentation(s) \/ DeletePresentation(s)
                             \/ RestorePresentation(s)
      PROVE  FALSE
  BY <1>1 DEF Steady, RenamePresentation, DeletePresentation, RestorePresentation
<1>2. ASSUME NEW e \in Editor,
             Ask(e) \/ AskMark(e) \/ Abandon(e) \/ Lock(e) \/ Read(e) \/ ReadMark(e)
             \/ CopyMark(e) \/ Finish(e) \/ SetMark(e)
      PROVE  UNCHANGED row
  BY <1>2 DEF Ask, AskMark, Abandon, Lock, Read, ReadMark, CopyMark, Finish, SetMark
<1>3. CASE Fetch \/ Probe \/ LockTarget
  BY <1>3 DEF Fetch, Probe, LockTarget
<1>4. CASE UNCHANGED vars
  BY <1>4 DEF vars
<1> QED  BY <1>1, <1>2, <1>3, <1>4 DEF Next, EditStep

\* An edit writes the song of its request, or nothing.
LEMMA Unedited ==
  ASSUME NEW e \in Editor, Leave(e) /\ UNCHANGED <<row, clock, minted>>
  PROVE  UNCHANGED row
OBVIOUS

\* A slide that comes to a song brings no marker left over from an earlier slide
\* of its identity.
THEOREM NoMarkerRevives == ASSUME Steady PROVE Spec => NoMarkRevives
<1> DEFINE Revives(s, i) ==
      /\ i \in Ids(row'[s].slides) \ Ids(row[s].slides) /\ i \in DOMAIN mark'
      /\ ~\E j \in Ids(row[s].slides) : j \in DOMAIN mark /\ mark[j].layout = mark'[i].layout
<1>1. ASSUME IInv, MInv, [Next]_vars, NEW s \in Song, NEW i, Revives(s, i)
      PROVE  FALSE
  <2>1. CASE UNCHANGED row
    BY <1>1, <2>1
  <2>2. ASSUME NEW e \in Editor, Replace(e) PROVE FALSE
    <3>1. ~(Leave(e) /\ UNCHANGED <<row, clock, minted>>)
      BY <2>1
    <3>2. PICK x : x = edit[e].song
      OBVIOUS
    <3>3. /\ x \in Song /\ \A y \in Song \ {x} : row'[y] = row[y]
          /\ Ids(row'[x].slides) \subseteq Ids(row[x].slides) \union (minted + 1)..minted'
          /\ minted' \in Nat
      BY <1>1, <2>2, <3>1, <3>2, Replaced
    <3>4. i \in (minted + 1)..minted'
      BY <1>1, <3>3
    <3>5. i \in DOMAIN mark
      BY <1>1, <2>2 DEF Replace
    <3>6. minted \in Nat /\ i \in 1..minted
      BY <1>1, <3>5 DEF MInv, MarksOK, IdsOK, Ours
    <3> QED  BY <3>3, <3>4, <3>6
  <2>3. CASE Apply
    <3> DEFINE v == pull.version
    <3>1. PICK x \in Song :
            /\ mark' = Markers(x, v) /\ ListOK(v.slides)
            /\ \A t \in Song \ {x} : row'[t] = row[t]
            /\ row'[x].slides = v.slides
            /\ \A j \in Ids(v.slides) : \A t \in Song : Ours(t, j) => t = x
      BY <1>1, <2>1, <2>3, Applied
    <3> HIDE DEF v
    <3>2. s = x /\ i \in Ids(v.slides)
      BY <1>1, <3>1
    <3>3. i \in DOMAIN mark /\ mark[i].song # x
      BY <1>1, <3>1, <3>2, MarkersOf
    <3>4. Ours(mark[i].song, i) /\ mark[i].song \in Song
      BY <1>1, <3>3 DEF MInv, MarksOK, Ours
    <3> QED  BY <3>1, <3>2, <3>3, <3>4
  <2> QED  BY <1>1, <2>1, <2>2, <2>3, RowsStay
<1>2. ASSUME IInv, MInv, [Next]_vars
      PROVE  [\A s \in Song :
                \A i \in Ids(row'[s].slides) \ Ids(row[s].slides) :
                  i \in DOMAIN mark' =>
                    \E j \in Ids(row[s].slides) :
                      j \in DOMAIN mark /\ mark[j].layout = mark'[i].layout]_vars
  BY <1>1, <1>2
<1>3. Init => IInv /\ MInv
  BY InitInv, InitMarks
<1>4. IInv /\ MInv /\ [Next]_vars => IInv' /\ MInv'
  BY StepInv, MarksInvariant
<1> QED  BY <1>2, <1>3, <1>4, PTL DEF Spec, NoMarkRevives

\* A marked slide that alone has its content hands its marker to that content in
\* the version that replaces the slides.
LEMMA MarkersKeep ==
  ASSUME NEW s \in Song, NEW v, ListOK(v.slides), v.live,
         NEW k \in DOMAIN row[s].slides, row[s].slides[k].id \in DOMAIN mark,
         mark[row[s].slides[k].id].song = s, Distinct(row[s].slides, k),
         SameText(row[s].slides, k, v.slides) # {}
  PROVE  \E n \in SameText(row[s].slides, k, v.slides) :
           LET y == v.slides[n].id IN
           /\ y \in DOMAIN Markers(s, v)
           /\ Markers(s, v)[y] = mark[row[s].slides[k].id]
<1> DEFINE old == row[s].slides
           others == {i \in DOMAIN mark : mark[i].song # s}
           M == {j \in DOMAIN old : v.live /\ old[j].id \in DOMAIN mark /\ mark[old[j].id].song = s}
           to == Remapped(old, M, v.slides)
           kept == {v.slides[to[j]].id : j \in DOMAIN to}
           from(i) == CHOOSE j \in DOMAIN to : v.slides[to[j]].id = i
           marks == [i \in kept \union others |->
                       IF i \in kept THEN mark[old[from(i)].id] ELSE mark[i]]
           y == v.slides[to[k]].id
<1>1. Markers(s, v) = marks
  BY DEF Markers
<1>2. k \in M /\ M \subseteq DOMAIN old
  OBVIOUS
<1> HIDE DEF M
<1>3. /\ DOMAIN to \subseteq M
      /\ \A j \in DOMAIN to : to[j] \in DOMAIN v.slides
      /\ k \in DOMAIN to /\ to[k] \in SameText(old, k, v.slides)
      /\ \A j \in DOMAIN to : (j \in DOMAIN old /\ to[j] = to[k]) => j = k
  BY <1>2, Remapping
<1> HIDE DEF to
<1>4. from(y) \in DOMAIN to /\ v.slides[to[from(y)]].id = y
  BY <1>3
<1> HIDE DEF from
<1>5. to[from(y)] = to[k]
  BY <1>3, <1>4 DEF ListOK
<1>6. from(y) = k
  BY <1>2, <1>3, <1>4, <1>5
<1>7. y \in kept
  BY <1>3
<1> HIDE DEF kept
<1>8. y \in DOMAIN marks /\ marks[y] = mark[old[k].id]
  BY <1>6, <1>7
<1> HIDE DEF marks
<1> QED  BY <1>1, <1>3, <1>8

\* When the other site's list replaces a song's, a marked slide that alone had
\* its content hands its marker to a slide with that content.
THEOREM MarkersStayWithText == ASSUME Steady PROVE Spec => MarkStaysWithText
<1>1. ASSUME IInv, MInv, [Next]_vars, NEW s \in Song,
             row'[s].by = "peer", row'[s] # row[s], row'[s].live,
             NEW k \in DOMAIN row[s].slides, row[s].slides[k].id \in DOMAIN mark,
             Distinct(row[s].slides, k), SameText(row[s].slides, k, row'[s].slides) # {}
      PROVE  \E n \in SameText(row[s].slides, k, row'[s].slides) :
               LET y == row'[s].slides[n].id IN
               y \in DOMAIN mark' /\ mark'[y].layout = mark[row[s].slides[k].id].layout
  <2>1. ~UNCHANGED row
    BY <1>1
  <2>2. ASSUME NEW e \in Editor, Replace(e) PROVE FALSE
    <3>1. ~(Leave(e) /\ UNCHANGED <<row, clock, minted>>)
      BY <2>1
    <3>2. PICK x : x = edit[e].song
      OBVIOUS
    <3>3. row'[x].by = "here" /\ \A y \in Song \ {x} : row'[y] = row[y]
      BY <1>1, <2>2, <3>1, <3>2, Replaced
    <3> QED  BY <1>1, <3>3
  <2>3. Apply
    BY <1>1, <2>1, <2>2, RowsStay
  <2> DEFINE v == pull.version
             i == row[s].slides[k].id
  <2>4. /\ mark' = Markers(s, v) /\ ListOK(v.slides)
        /\ row'[s].slides = v.slides /\ v.live
    <3>1. PICK x \in Song :
            /\ mark' = Markers(x, v) /\ ListOK(v.slides)
            /\ \A t \in Song \ {x} : row'[t] = row[t]
            /\ row'[x].slides = v.slides /\ row'[x].live = v.live
      BY <1>1, <2>1, <2>3, Applied
    <3>2. s = x
      BY <1>1, <3>1
    <3> QED  BY <1>1, <3>1, <3>2
  <2>5. mark[i].song = s
    <3>1. i \in Ids(row[s].slides)
      BY DEF Ids
    <3>2. Ours(s, i) /\ Ours(mark[i].song, i) /\ mark[i].song \in Song
      BY <1>1, <3>1 DEF Ours, MInv, MarksOK
    <3> QED  BY <1>1, <3>2 DEF MInv, IdsOK
  <2> HIDE DEF v
  <2>6. \E n \in SameText(row[s].slides, k, v.slides) :
          LET y == v.slides[n].id IN
          y \in DOMAIN Markers(s, v) /\ Markers(s, v)[y] = mark[i]
    BY <1>1, <2>4, <2>5, MarkersKeep
  <2> QED  BY <2>4, <2>6
<1>2. ASSUME IInv, MInv, [Next]_vars
      PROVE  [\A s \in Song : row'[s].by = "peer" /\ row'[s] # row[s] /\ row'[s].live =>
                \A k \in DOMAIN row[s].slides :
                  LET x == row[s].slides[k] IN
                  x.id \in DOMAIN mark /\ Distinct(row[s].slides, k)
                  /\ SameText(row[s].slides, k, row'[s].slides) # {} =>
                    \E n \in SameText(row[s].slides, k, row'[s].slides) :
                      LET y == row'[s].slides[n].id IN
                      y \in DOMAIN mark' /\ mark'[y].layout = mark[x.id].layout]_vars
  BY <1>1, <1>2
<1>3. Init => IInv /\ MInv
  BY InitInv, InitMarks
<1>4. IInv /\ MInv /\ [Next]_vars => IInv' /\ MInv'
  BY StepInv, MarksInvariant
<1> QED  BY <1>2, <1>3, <1>4, PTL DEF Spec, MarkStaysWithText
=============================================================================
