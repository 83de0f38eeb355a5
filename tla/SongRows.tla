------------------------------ MODULE SongRows ------------------------------
(***************************************************************************)
(* The song and library tables of one Presenter instance, and the pure     *)
(* decisions that presenter-persistence takes on them when a row arrives   *)
(* from the peer instance: the last-writer-wins gate, which local row an   *)
(* incoming song is, and which local library it belongs to.                *)
(*                                                                         *)
(* A table is a function from local row ids to rows.  A local id is an     *)
(* insertion number (the rowid a table scan follows), never shared between *)
(* instances; `sid' (the code's sync_id) is the identity both instances    *)
(* share.  Timestamps are natural numbers and NULL stands for the missing  *)
(* deleted_at of a live row.  The slides of a song are abstracted to       *)
(* `text', the time of the write that produced that content.               *)
(***************************************************************************)
EXTENDS Naturals, Sequences, Functions

CONSTANTS
  Id,         \* local row ids, a set of positive numbers that bounds a table
  SongName,   \* names an operator gives to a song
  LibBase,    \* names an operator gives to a library
  Horizon     \* PRUNE_HORIZON, the time trash is retained

ASSUME IdAssumption == Id \subseteq Nat
ASSUME HorizonAssumption == Horizon \in Nat

NULL == 0

\* A library name with the suffixes " (2)", " (3)" ... that the collision
\* handling appended to it, in the order they were appended.
LibName == [base : LibBase, suffix : Seq(Nat)]
Plain(b) == [base |-> b, suffix |-> << >>]

LibRow  == [sid : Nat, name : LibName, upd : Nat, del : Nat]
SongRow == [sid : Nat, lib : Id, name : SongName, text : Nat,
            upd : Nat, del : Nat]
\* What GET /sync/presentations/{sync_id} answers: the song with the name and
\* the identity of its library at the answering instance.
WireSong == [sid : Nat, name : SongName, text : Nat, upd : Nat, del : Nat,
             libSid : Nat, libName : LibName]

-----------------------------------------------------------------------------
(* Tables. *)

IsTable(T, Row) == DOMAIN T \subseteq Id /\ T \in [DOMAIN T -> Row]

EmptyTable == [i \in {} |-> NULL]
Put(T, i, row) == [k \in DOMAIN T \cup {i} |-> IF k = i THEN row ELSE T[k]]
Without(T, I) == Restrict(T, DOMAIN T \ I)

\* i is the number the next inserted row gets.
IsNext(i, T) == /\ i \in Id
                /\ \A k \in DOMAIN T : k < i
                /\ i = 1 \/ i - 1 \in DOMAIN T

\* i is the row a scan of T meets first.
IsFirst(i, T) == i \in DOMAIN T /\ \A k \in DOMAIN T : i <= k

Live(T) == {i \in DOMAIN T : T[i].del = NULL}
Dead(T) == {i \in DOMAIN T : T[i].del # NULL}
BySid(T, x) == {i \in DOMAIN T : T[i].sid = x}
LiveNamed(T, n) == {i \in Live(T) : T[i].name = n}

\* The partial unique index idx_libraries_name_live_unique.
LiveNamesUnique(L) ==
  \A i, j \in Live(L) : L[i].name = L[j].name => i = j

-----------------------------------------------------------------------------
(* The last-writer-wins gate. *)

\* An identity this instance does not hold: everything but a tombstone old
\* enough to have been pruned here already.
ApplyUnknown(upd, del, now) == del = NULL \/ now < upd + Horizon

\* sync_should_apply, with `held' the updated_at of the rows that carry the
\* identity (empty, or one element).
ShouldApply(upd, del, held, now) ==
  IF held = {} THEN ApplyUnknown(upd, del, now)
               ELSE \A h \in held : upd > h

UpdOf(T, I) == {T[i].upd : i \in I}

-----------------------------------------------------------------------------
(* Which library an incoming song belongs to. *)

\* find_library_id: the live library an adoption candidate may be in.  An
\* identity that resolves is authoritative, the name is only a fallback.
FindLibrary(L, w) ==
  IF BySid(L, w.libSid) # {} THEN BySid(L, w.libSid) \cap Live(L)
                             ELSE LiveNamed(L, w.libName)

\* find_most_recent_tombstoned_library, ties broken by the shared identity.
MostRecentTombstone(L, n) ==
  LET dead == {i \in Dead(L) : L[i].name = n}
  IN  {i \in dead : \A k \in dead :
         \/ L[k].upd < L[i].upd
         \/ L[k].upd = L[i].upd /\ L[k].sid <= L[i].sid}

\* Faulty: the join by name that #647 replaced.
HomeByName(L, w) ==
  IF LiveNamed(L, w.libName) # {} THEN LiveNamed(L, w.libName)
  ELSE MostRecentTombstone(L, w.libName)

\* The library row ensure_library and ensure_library_for_tombstone settle on,
\* if any: identity, then live name, then most recent tombstone of that name.
HomeOf(L, w) ==
  IF BySid(L, w.libSid) # {} THEN BySid(L, w.libSid)
  ELSE IF LiveNamed(L, w.libName) # {} THEN LiveNamed(L, w.libName)
  ELSE MostRecentTombstone(L, w.libName)

\* Where an incoming song is placed: the libraries after the placement, the
\* library it goes to, the tombstone time forced on it (NULL if none) and
\* whether a library had to be created.
Placement(L, at, forced, minted) ==
  [libs |-> L, at |-> at, forced |-> forced, minted |-> minted]

\* ensure_library (for a live song) and ensure_library_for_tombstone (for a
\* tombstone): `new' and `now' serve the library that may have to be created.
\* A live song revives a tombstoned library only when it is strictly newer,
\* and is otherwise forced under the tombstone.
EnsureLibrary(L, w, new, now) ==
  IF HomeOf(L, w) = {}
  THEN Placement(Put(L, new, [sid |-> now, name |-> w.libName, upd |-> now,
                              del |-> IF w.del = NULL THEN NULL ELSE now]),
                 new, NULL, TRUE)
  ELSE LET h == CHOOSE i \in HomeOf(L, w) : TRUE IN
       IF w.del # NULL \/ L[h].del = NULL
       THEN Placement(L, h, NULL, FALSE)
       ELSE IF w.upd > L[h].upd
       THEN Placement(Put(L, h, [L[h] EXCEPT !.del = NULL, !.upd = w.upd]),
                      h, NULL, FALSE)
       ELSE Placement(L, h, L[h].upd, FALSE)

-----------------------------------------------------------------------------
(* Which local song an incoming song is. *)

\* find_live_by_name_candidate: the live song of that name in the library,
\* when there is exactly one.
AdoptionCandidate(L, S, w) ==
  LET named == {i \in LiveNamed(S, w.name) : S[i].lib \in FindLibrary(L, w)}
  IN  {i \in named : named = {i}}

\* Faulty: a song the peer tracks as one of its own is adopted all the same.
AdoptableAlways(L, S, w, peerIds) ==
  IF w.del # NULL THEN {} ELSE AdoptionCandidate(L, S, w)

\* The candidate, unless the peer tracks it as a song of its own.
Adoptable(L, S, w, peerIds) ==
  IF w.del # NULL THEN {}
  ELSE {i \in AdoptionCandidate(L, S, w) : S[i].sid \notin peerIds}

\* The row written for an incoming song: the peer's clock, never now().
SyncedRow(w, p) ==
  [sid |-> w.sid, lib |-> p.at, name |-> w.name, text |-> w.text,
   upd |-> w.upd, del |-> IF p.forced # NULL THEN p.forced ELSE w.del]

\* The answer to a fetch of song i.
Wire(L, S, i) ==
  [sid |-> S[i].sid, name |-> S[i].name, text |-> S[i].text,
   upd |-> S[i].upd, del |-> S[i].del,
   libSid |-> L[S[i].lib].sid, libName |-> L[S[i].lib].name]

-----------------------------------------------------------------------------
(* Names for a library whose peer name is taken. *)

\* The k-th name resolve_conflict_free_name tries: the name itself, then the
\* name with the suffix (2), (3) ...
Candidate(n, k) ==
  IF k = 1 THEN n ELSE [n EXCEPT !.suffix = Append(@, k)]

\* k numbers the first name no live library but `self' has.
IsFreeName(L, self, n, k) ==
  LET taken == {L[i].name : i \in Live(L) \ {self}}
  IN  /\ Candidate(n, k) \notin taken
      /\ \A j \in 1 .. k - 1 : Candidate(n, j) \in taken
=============================================================================
