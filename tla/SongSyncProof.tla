---------------------------- MODULE SongSyncProof ----------------------------
(***************************************************************************)
(* Proofs about SongSync, for every set of sites, every peer assignment    *)
(* and every value of the bounds.                                          *)
(*                                                                         *)
(* TypeOK is not inductive by itself: the answer to a fetch names the      *)
(* library of the song, which exists only because KeysHold does, and new   *)
(* identities are unused only because every stored clock is behind the     *)
(* present.  IInv is the conjunction that is inductive; VInv adds what the *)
(* versions of the songs need, for the two instances that are deployed,    *)
(* and FInv what a settled pair agrees by: a clock belongs to one version. *)
(* ForcedInv is what is left of that when libraries are trashed, and says  *)
(* which versions of one clock may differ.                                 *)
(***************************************************************************)
EXTENDS SongSync, TLAPS

-----------------------------------------------------------------------------
(* The inductive invariant. *)

RowsBehind(T, now) == \A i \in DOMAIN T : T[i].sid < now /\ T[i].upd < now

\* One identity, one row.
SidsUnique(T) == \A i, j \in DOMAIN T : T[i].sid = T[j].sid => i = j

\* What holds of the database of one site at time `now'.
DbOK(L, S, P, now) ==
  /\ IsTable(L, LibRow) /\ IsTable(S, SongRow) /\ P \subseteq Id
  /\ RowsBehind(L, now) /\ RowsBehind(S, now)
  /\ SidsUnique(L) /\ SidsUnique(S)
  /\ \A i \in DOMAIN S : S[i].lib \in DOMAIN L
  /\ P \subseteq Live(S)

\* What holds of the cycle of one site: nothing it carries is from the future.
CycleOK(s, now) ==
  /\ RowsBehind(libTodo[s], now)
  /\ \A w \in got[s] : w.sid < now /\ w.upd < now

IInv == /\ TypeOK
        /\ \A s \in Site : DbOK(lib[s], song[s], plist[s], clock)
        /\ \A s \in Site : CycleOK(s, clock)

-----------------------------------------------------------------------------
(* Tables. *)

LEMMA EmptyIsTable ==
  ASSUME NEW Row
  PROVE  IsTable(EmptyTable, Row) /\ DOMAIN EmptyTable = {}
BY DEF EmptyTable, IsTable

LEMMA WithoutTable ==
  ASSUME NEW Row, NEW T, IsTable(T, Row), NEW I
  PROVE  /\ IsTable(Without(T, I), Row)
         /\ DOMAIN Without(T, I) = DOMAIN T \ I
         /\ \A k \in DOMAIN T \ I : Without(T, I)[k] = T[k]
BY DEF Without, Restrict, IsTable

-----------------------------------------------------------------------------
(* One database after a write. *)

\* A database stays well-formed as time passes, whatever references go.
LEMMA LaterDb ==
  ASSUME NEW L, NEW S, NEW P, NEW now \in Nat, NEW later \in Nat, now <= later,
         DbOK(L, S, P, now), NEW Q \in SUBSET P
  PROVE  DbOK(L, S, Q, later)
<1>1. ASSUME NEW T, NEW Row, IsTable(T, Row), RowsBehind(T, now),
             \A r \in Row : r.sid \in Nat /\ r.upd \in Nat
      PROVE  RowsBehind(T, later)
  <2> SUFFICES ASSUME NEW i \in DOMAIN T
               PROVE  T[i].sid < later /\ T[i].upd < later
    BY DEF RowsBehind
  <2>1. T[i].sid \in Nat /\ T[i].upd \in Nat
    BY <1>1 DEF IsTable
  <2>2. T[i].sid < now /\ T[i].upd < now
    BY <1>1 DEF RowsBehind
  <2> QED BY <2>1, <2>2
<1>2. RowsBehind(L, later)
  <2>1. \A r \in LibRow : r.sid \in Nat /\ r.upd \in Nat
    BY DEF LibRow
  <2> QED BY <1>1, <2>1 DEF DbOK
<1>3. RowsBehind(S, later)
  <2>1. \A r \in SongRow : r.sid \in Nat /\ r.upd \in Nat
    BY DEF SongRow
  <2> QED BY <1>1, <2>1 DEF DbOK
<1> QED BY <1>2, <1>3 DEF DbOK

\* Inserting or overwriting one song.
LEMMA PutSong ==
  ASSUME NEW L, NEW S, NEW P, NEW now \in Nat, DbOK(L, S, P, now),
         NEW i \in Id, NEW r \in SongRow, NEW Q \in SUBSET P,
         r.lib \in DOMAIN L, r.sid < now, r.upd < now,
         \A k \in DOMAIN S : S[k].sid = r.sid => k = i,
         r.del # NULL => i \notin Q
  PROVE  DbOK(L, Put(S, i, r), Q, now)
<1> DEFINE U == Put(S, i, r)
<1>1. /\ IsTable(U, SongRow) /\ DOMAIN U = DOMAIN S \cup {i} /\ U[i] = r
      /\ \A k \in DOMAIN S \ {i} : U[k] = S[k]
  <2>1. IsTable(S, SongRow)
    BY DEF DbOK
  <2> QED BY <2>1 DEF Put, IsTable
<1> HIDE DEF U
<1>2. RowsBehind(U, now)
  BY <1>1 DEF RowsBehind, DbOK
<1>3. SidsUnique(U)
  BY <1>1 DEF SidsUnique, DbOK
<1>4. \A k \in DOMAIN U : U[k].lib \in DOMAIN L
  BY <1>1 DEF DbOK
<1>5. Q \subseteq Live(U)
  BY <1>1 DEF DbOK, Live
<1> QED BY <1>1, <1>2, <1>3, <1>4, <1>5 DEF DbOK, U

\* Inserting or overwriting one library.
LEMMA PutLib ==
  ASSUME NEW L, NEW S, NEW P, NEW now \in Nat, DbOK(L, S, P, now),
         NEW i \in Id, NEW r \in LibRow, r.sid < now, r.upd < now,
         \A k \in DOMAIN L : L[k].sid = r.sid => k = i
  PROVE  DbOK(Put(L, i, r), S, P, now)
<1> DEFINE M == Put(L, i, r)
<1>1. /\ IsTable(M, LibRow) /\ DOMAIN M = DOMAIN L \cup {i} /\ M[i] = r
      /\ \A k \in DOMAIN L \ {i} : M[k] = L[k]
  <2>1. IsTable(L, LibRow)
    BY DEF DbOK
  <2> QED BY <2>1 DEF Put, IsTable
<1> HIDE DEF M
<1>2. RowsBehind(M, now)
  BY <1>1 DEF RowsBehind, DbOK
<1>3. SidsUnique(M)
  BY <1>1 DEF SidsUnique, DbOK
<1> QED BY <1>1, <1>2, <1>3 DEF DbOK, M

\* Changing many songs at once, each keeping its identity and its library.
LEMMA StampSongs ==
  ASSUME NEW L, NEW S, NEW P, NEW now \in Nat, DbOK(L, S, P, now),
         NEW U, IsTable(U, SongRow), DOMAIN U = DOMAIN S,
         \A i \in DOMAIN S : /\ U[i].sid = S[i].sid /\ U[i].lib = S[i].lib
                             /\ U[i].upd < now,
         NEW Q \in SUBSET P, Q \subseteq Live(U)
  PROVE  DbOK(L, U, Q, now)
<1>1. RowsBehind(U, now)
  BY DEF RowsBehind, DbOK
<1>2. SidsUnique(U)
  BY DEF SidsUnique, DbOK
<1> QED BY <1>1, <1>2 DEF DbOK

\* Removing songs together with the references to them.
LEMMA WithoutSongs ==
  ASSUME NEW L, NEW S, NEW P, NEW now \in Nat, DbOK(L, S, P, now), NEW I
  PROVE  DbOK(L, Without(S, I), P \ I, now)
<1> DEFINE U == Without(S, I)
<1>1. /\ IsTable(U, SongRow) /\ DOMAIN U = DOMAIN S \ I
      /\ \A k \in DOMAIN S \ I : U[k] = S[k]
  BY WithoutTable DEF DbOK
<1> HIDE DEF U
<1>2. RowsBehind(U, now) /\ SidsUnique(U)
  BY <1>1 DEF RowsBehind, SidsUnique, DbOK
<1>3. P \ I \subseteq Live(U)
  BY <1>1 DEF Live, DbOK
<1> QED BY <1>1, <1>2, <1>3 DEF DbOK, U

\* Removing libraries that no song is under.
LEMMA WithoutLibs ==
  ASSUME NEW L, NEW S, NEW P, NEW now \in Nat, DbOK(L, S, P, now), NEW I,
         \A k \in DOMAIN S : S[k].lib \notin I
  PROVE  DbOK(Without(L, I), S, P, now)
<1> DEFINE M == Without(L, I)
<1>1. /\ IsTable(M, LibRow) /\ DOMAIN M = DOMAIN L \ I
      /\ \A k \in DOMAIN L \ I : M[k] = L[k]
  BY WithoutTable DEF DbOK
<1> HIDE DEF M
<1>2. RowsBehind(M, now) /\ SidsUnique(M)
  BY <1>1 DEF RowsBehind, SidsUnique, DbOK
<1> QED BY <1>1, <1>2 DEF DbOK, M

-----------------------------------------------------------------------------
(* Moving forward. *)

LEMMA ForwardSame ==
  ASSUME NEW T
  PROVE  ForwardOnly(T, T)
BY DEF ForwardOnly

LEMMA ForwardPut ==
  ASSUME NEW T, NEW i, NEW r, i \in DOMAIN T => r.upd > T[i].upd
  PROVE  ForwardOnly(T, Put(T, i, r))
BY DEF ForwardOnly, Put

LEMMA ForwardWithout ==
  ASSUME NEW T, NEW I
  PROVE  ForwardOnly(T, Without(T, I))
BY DEF ForwardOnly, Without, Restrict

-----------------------------------------------------------------------------
(* The library an incoming song is placed in. *)

\* A placement leaves a well-formed database whose library table only gained
\* rows or clocks, holds the library the song goes to, and is ready for the
\* song at the time the transaction ends.
PlacementOK(p, L, S, P, now, later) ==
  /\ DbOK(p.libs, S, P, later)
  /\ p.at \in DOMAIN p.libs
  /\ p.forced \in Nat
  /\ ForwardOnly(L, p.libs)

LEMMA HomeExists ==
  ASSUME NEW L, NEW w
  PROVE  HomeOf(L, w) \subseteq DOMAIN L
BY DEF HomeOf, BySid, LiveNamed, Live, MostRecentTombstone, Dead

LEMMA PlacedAsIs ==
  ASSUME NEW L, NEW S, NEW P, NEW now \in Nat, DbOK(L, S, P, now),
         NEW p, p.libs = L, p.at \in DOMAIN L, p.forced \in Nat
  PROVE  PlacementOK(p, L, S, P, now, now)
BY ForwardSame DEF PlacementOK

LEMMA EnsuredLibrary ==
  ASSUME NEW L, NEW S, NEW P, NEW now \in Nat, DbOK(L, S, P, now),
         NEW w \in WireSong, w.upd < now, NEW new \in Id, IsNext(new, L)
  PROVE  LET p == EnsureLibrary(L, w, new, now)
             later == IF p.minted THEN now + 1 ELSE now
         IN  PlacementOK(p, L, S, P, now, later)
<1> DEFINE p == EnsureLibrary(L, w, new, now)
           later == IF p.minted THEN now + 1 ELSE now
<1> SUFFICES PlacementOK(p, L, S, P, now, later)
  OBVIOUS
<1>1. CASE HomeOf(L, w) = {}
  <2> DEFINE r == [sid |-> now, name |-> w.libName, upd |-> now,
                   del |-> IF w.del = NULL THEN NULL ELSE now]
  <2>1. p = Placement(Put(L, new, r), new, NULL, TRUE)
    BY <1>1 DEF EnsureLibrary
  <2>2. later = now + 1
    BY <2>1 DEF Placement
  <2>3. r \in LibRow
    BY DEF LibRow, WireSong, NULL
  <2>4. DbOK(L, S, P, now + 1)
    BY LaterDb
  <2>5. \A k \in DOMAIN L : L[k].sid # now
    BY DEF DbOK, RowsBehind, IsTable, LibRow
  <2>6. DbOK(Put(L, new, r), S, P, now + 1)
    <3> HIDE DEF p, later
    <3>1. r.sid = now /\ r.upd = now
      OBVIOUS
    <3> HIDE DEF r
    <3> QED BY <3>1, <2>3, <2>4, <2>5, PutLib
  <2>7. new \notin DOMAIN L
    BY IdAssumption DEF IsNext
  <2>8. ForwardOnly(L, Put(L, new, r))
    BY <2>7, ForwardPut
  <2> QED BY <2>1, <2>2, <2>6, <2>8 DEF PlacementOK, Placement, Put, NULL
<1>2. CASE HomeOf(L, w) # {}
  <2> DEFINE h == CHOOSE i \in HomeOf(L, w) : TRUE
  <2>1. h \in DOMAIN L /\ L[h] \in LibRow /\ h \in Id
    BY <1>2, HomeExists DEF DbOK, IsTable
  <2> HIDE DEF h
  <2>2. CASE w.del # NULL \/ L[h].del = NULL
    <3>1. p = Placement(L, h, NULL, FALSE)
      BY <1>2, <2>2 DEF EnsureLibrary, h
    <3>2. later = now /\ p.libs = L /\ p.at = h /\ p.forced \in Nat
      BY <3>1 DEF Placement, NULL
    <3> HIDE DEF p, later
    <3> QED BY <3>2, <2>1, PlacedAsIs
  <2>3. CASE ~(w.del # NULL \/ L[h].del = NULL) /\ w.upd > L[h].upd
    <3> DEFINE r == [L[h] EXCEPT !.del = NULL, !.upd = w.upd]
    <3>1. p = Placement(Put(L, h, r), h, NULL, FALSE)
      BY <1>2, <2>3 DEF EnsureLibrary, h
    <3>2. r \in LibRow /\ r.sid = L[h].sid /\ r.upd = w.upd
      BY <2>1 DEF LibRow, WireSong, NULL
    <3> HIDE DEF r, p
    <3>3. DbOK(Put(L, h, r), S, P, now)
      <4>1. r.sid < now /\ r.upd < now
        BY <2>1, <3>2 DEF DbOK, RowsBehind
      <4>2. \A k \in DOMAIN L : L[k].sid = r.sid => k = h
        BY <2>1, <3>2 DEF DbOK, SidsUnique
      <4> QED BY <2>1, <3>2, <4>1, <4>2, PutLib
    <3>4. ForwardOnly(L, Put(L, h, r))
      BY <2>3, <3>2, ForwardPut
    <3> QED BY <3>1, <3>3, <3>4, <2>1 DEF PlacementOK, Placement, Put, NULL
  <2>4. CASE ~(w.del # NULL \/ L[h].del = NULL) /\ ~(w.upd > L[h].upd)
    <3>1. p = Placement(L, h, L[h].upd, FALSE)
      BY <1>2, <2>4 DEF EnsureLibrary, h
    <3>2. L[h].upd \in Nat
      BY <2>1 DEF LibRow
    <3>3. later = now /\ p.libs = L /\ p.at = h /\ p.forced \in Nat
      BY <3>1, <3>2 DEF Placement
    <3> HIDE DEF p, later
    <3> QED BY <3>3, <2>1, PlacedAsIs
  <2> QED BY <2>2, <2>3, <2>4
<1> QED BY <1>1, <1>2

-----------------------------------------------------------------------------
(* From one database to all of them. *)

Forward == \A s \in Site : /\ ForwardOnly(song[s], song'[s])
                           /\ ForwardOnly(lib[s], lib'[s])

\* A step after which every database is well-formed and no row went back.
DbAdvances ==
  /\ clock' \in Nat /\ clock <= clock'
  /\ Tables(lib', LibRow) /\ Tables(song', SongRow)
  /\ plist' \in [Site -> SUBSET Id]
  /\ \A s \in Site : DbOK(lib'[s], song'[s], plist'[s], clock')
  /\ Forward

\* g is f but for the value v at s.
OnlyAt(f, g, s, v) == /\ DOMAIN g = Site
                      /\ g[s] = v
                      /\ \A t \in Site \ {s} : g[t] = f[t]

LEMMA OnlyExcept ==
  ASSUME NEW f, DOMAIN f = Site, NEW s \in Site, NEW v
  PROVE  OnlyAt(f, [f EXCEPT ![s] = v], s, v)
BY DEF OnlyAt

LEMMA OnlySame ==
  ASSUME NEW f, DOMAIN f = Site, NEW s \in Site
  PROVE  OnlyAt(f, f, s, f[s])
BY DEF OnlyAt

\* A step that writes the database of one site.
LEMMA SiteWrites ==
  ASSUME IInv, NEW s \in Site, NEW L, NEW S, NEW P,
         OnlyAt(lib, lib', s, L), OnlyAt(song, song', s, S),
         plist' = [plist EXCEPT ![s] = P] \/ (plist' = plist /\ P = plist[s]),
         clock' \in Nat, clock <= clock', DbOK(L, S, P, clock'),
         ForwardOnly(lib[s], L), ForwardOnly(song[s], S)
  PROVE  DbAdvances
<1>1. plist' \in [Site -> SUBSET Id] /\ plist'[s] = P
      /\ \A t \in Site \ {s} : plist'[t] = plist[t]
  BY DEF IInv, TypeOK, DbOK
<1>2. ASSUME NEW t \in Site
      PROVE  DbOK(lib'[t], song'[t], plist'[t], clock')
  <2>1. CASE t = s
    BY <2>1, <1>1 DEF OnlyAt
  <2>2. CASE t # s
    <3>1. DbOK(lib[t], song[t], plist[t], clock')
      BY LaterDb DEF IInv, TypeOK
    <3>2. lib'[t] = lib[t] /\ song'[t] = song[t] /\ plist'[t] = plist[t]
      BY <2>2, <1>1 DEF OnlyAt
    <3> QED BY <3>1, <3>2
  <2> QED BY <2>1, <2>2
<1>3. Tables(lib', LibRow) /\ Tables(song', SongRow)
  BY <1>2 DEF Tables, OnlyAt, DbOK
<1>4. ASSUME NEW t \in Site
      PROVE  ForwardOnly(song[t], song'[t]) /\ ForwardOnly(lib[t], lib'[t])
  <2>1. CASE t = s
    BY <2>1 DEF OnlyAt
  <2>2. CASE t # s
    BY <2>2, ForwardSame DEF OnlyAt
  <2> QED BY <2>1, <2>2
<1> QED BY <1>1, <1>2, <1>3, <1>4 DEF DbAdvances, Forward

\* A step that writes no database.
LEMMA NothingWritten ==
  ASSUME IInv, UNCHANGED db, clock' \in Nat, clock <= clock'
  PROVE  DbAdvances
<1>1. \A t \in Site : DbOK(lib[t], song[t], plist[t], clock')
  BY LaterDb DEF IInv, TypeOK
<1> QED BY <1>1, ForwardSame DEF DbAdvances, Forward, IInv, TypeOK, db

-----------------------------------------------------------------------------
(* Local operations. *)

\* The rows of a table, and the number of its next row.
LEMMA Rows ==
  ASSUME IInv, NEW s \in Site
  PROVE  /\ \A l \in DOMAIN lib[s] :
              l \in Id /\ lib[s][l] \in LibRow
              /\ lib[s][l].sid < clock /\ lib[s][l].upd < clock
         /\ \A i \in DOMAIN song[s] :
              i \in Id /\ song[s][i] \in SongRow /\ song[s][i].lib \in DOMAIN lib[s]
              /\ song[s][i].sid < clock /\ song[s][i].upd < clock
BY DEF IInv, DbOK, IsTable, RowsBehind

LEMMA NextIsNew ==
  ASSUME NEW T, NEW i, IsNext(i, T)
  PROVE  i \in Id /\ i \notin DOMAIN T
BY IdAssumption DEF IsNext

\* A time-stamped write of one library, new or not.
LEMMA StampLib ==
  ASSUME IInv, NEW s \in Site, NEW l \in Id, NEW r \in LibRow, r.upd = clock,
         IF l \in DOMAIN lib[s] THEN r.sid = lib[s][l].sid ELSE r.sid = clock,
         clock' = clock + 1, SetLib(s, Put(lib[s], l, r)),
         UNCHANGED <<song, plist>>
  PROVE  DbAdvances
<1>0. clock \in Nat /\ clock' \in Nat /\ clock <= clock'
  BY DEF IInv, TypeOK
<1>1. DbOK(lib[s], song[s], plist[s], clock')
  BY <1>0, LaterDb DEF IInv
<1>2. r.sid < clock' /\ r.upd < clock'
  BY <1>0, Rows DEF LibRow
<1>3. \A k \in DOMAIN lib[s] : lib[s][k].sid = r.sid => k = l
  BY <1>0, <1>1, Rows DEF DbOK, SidsUnique
<1>4. DbOK(Put(lib[s], l, r), song[s], plist[s], clock')
  BY <1>0, <1>1, <1>2, <1>3, PutLib
<1>5. ForwardOnly(lib[s], Put(lib[s], l, r))
  BY Rows, ForwardPut
<1>6. OnlyAt(lib, lib', s, Put(lib[s], l, r))
  BY OnlyExcept DEF SetLib, IInv, TypeOK, Tables
<1>7. OnlyAt(song, song', s, song[s]) /\ ForwardOnly(song[s], song[s])
  BY OnlySame, ForwardSame DEF IInv, TypeOK, Tables
<1> QED BY <1>0, <1>4, <1>5, <1>6, <1>7, SiteWrites

\* A time-stamped write of one song, new or not.
LEMMA StampSong ==
  ASSUME IInv, NEW s \in Site, NEW i \in Id, NEW r \in SongRow, r.upd = clock,
         IF i \in DOMAIN song[s] THEN r.sid = song[s][i].sid ELSE r.sid = clock,
         r.lib \in DOMAIN lib[s],
         clock' = clock + 1, SetSong(s, Put(song[s], i, r)), UNCHANGED lib,
         \/ UNCHANGED plist /\ (r.del # NULL => i \notin plist[s])
         \/ DropRefs(s, {i})
  PROVE  DbAdvances
<1>0. clock \in Nat /\ clock' \in Nat /\ clock <= clock'
  BY DEF IInv, TypeOK
<1>1. DbOK(lib[s], song[s], plist[s], clock')
  BY <1>0, LaterDb DEF IInv
<1>2. r.sid < clock' /\ r.upd < clock'
  BY <1>0, Rows DEF SongRow
<1>3. \A k \in DOMAIN song[s] : song[s][k].sid = r.sid => k = i
  BY <1>0, <1>1, Rows DEF DbOK, SidsUnique
<1>4. PICK Q \in SUBSET plist[s] :
        /\ r.del # NULL => i \notin Q
        /\ plist' = [plist EXCEPT ![s] = Q] \/ (plist' = plist /\ Q = plist[s])
  BY DEF DropRefs
<1>5. DbOK(lib[s], Put(song[s], i, r), Q, clock')
  BY <1>0, <1>1, <1>2, <1>3, <1>4, PutSong
<1>6. ForwardOnly(song[s], Put(song[s], i, r))
  BY Rows, ForwardPut
<1>7. OnlyAt(song, song', s, Put(song[s], i, r))
  BY OnlyExcept DEF SetSong, IInv, TypeOK, Tables
<1>8. OnlyAt(lib, lib', s, lib[s]) /\ ForwardOnly(lib[s], lib[s])
  BY OnlySame, ForwardSame DEF IInv, TypeOK, Tables
<1> QED BY <1>0, <1>4, <1>5, <1>6, <1>7, <1>8, SiteWrites

\* Trashing a library with its songs, or bringing them back: the library and
\* the songs in I get the present time, and the references in I may go.
LEMMA StampCascade ==
  ASSUME IInv, NEW s \in Site, NEW l \in DOMAIN lib[s],
         NEW r \in LibRow, r.sid = lib[s][l].sid, r.upd = clock,
         NEW U, IsTable(U, SongRow), DOMAIN U = DOMAIN song[s],
         \A i \in DOMAIN U : \/ U[i] = song[s][i]
                             \/ /\ U[i].sid = song[s][i].sid
                                /\ U[i].lib = song[s][i].lib
                                /\ U[i].upd = clock,
         NEW Q \in SUBSET plist[s], Q \subseteq Live(U),
         clock' = clock + 1, SetLib(s, Put(lib[s], l, r)), SetSong(s, U),
         plist' = [plist EXCEPT ![s] = Q] \/ (plist' = plist /\ Q = plist[s])
  PROVE  DbAdvances
<1>0. clock \in Nat /\ clock' \in Nat /\ clock <= clock'
  BY DEF IInv, TypeOK
<1>1. DbOK(lib[s], song[s], plist[s], clock')
  BY <1>0, LaterDb DEF IInv
<1>2. \A i \in DOMAIN song[s] : /\ U[i].sid = song[s][i].sid
                                /\ U[i].lib = song[s][i].lib
                                /\ U[i].upd < clock'
  BY <1>0, Rows DEF SongRow
<1>3. DbOK(lib[s], U, Q, clock')
  BY <1>0, <1>1, <1>2, StampSongs
<1>4. \A k \in DOMAIN lib[s] : lib[s][k].sid = r.sid => k = l
  BY <1>1 DEF DbOK, SidsUnique
<1>5. DbOK(Put(lib[s], l, r), U, Q, clock')
  <2>1. r.sid < clock' /\ r.upd < clock' /\ l \in Id
    BY <1>0, Rows DEF LibRow
  <2> QED BY <1>0, <1>3, <1>4, <2>1, PutLib
<1>6. ForwardOnly(lib[s], Put(lib[s], l, r))
  BY Rows, ForwardPut
<1>7. ForwardOnly(song[s], U)
  BY <1>0, Rows DEF ForwardOnly
<1>8. /\ OnlyAt(lib, lib', s, Put(lib[s], l, r))
      /\ OnlyAt(song, song', s, U)
  BY OnlyExcept DEF SetLib, SetSong, IInv, TypeOK, Tables
<1> QED BY <1>0, <1>5, <1>6, <1>7, <1>8, SiteWrites

LEMMA LocalStepAdvances ==
  ASSUME IInv, NEW s \in Site, LocalStep(s)
  PROVE  DbAdvances
<1>0. clock \in Nat
  BY DEF IInv, TypeOK
<1>1. ASSUME NEW b \in LibBase, CreateLibrary(s, b)
      PROVE  DbAdvances
  <2> DEFINE r == [sid |-> clock, name |-> Plain(b), upd |-> clock, del |-> NULL]
  <2>1. PICK i \in Id : IsNext(i, lib[s]) /\ SetLib(s, Put(lib[s], i, r))
    BY <1>1 DEF CreateLibrary
  <2>2. r \in LibRow
    BY <1>0 DEF LibRow, LibName, Plain, NULL
  <2> QED BY <1>1, <2>1, <2>2, NextIsNew, StampLib DEF CreateLibrary, Operate
<1>2. ASSUME NEW l \in DOMAIN lib[s], NEW b \in LibBase, RenameLibrary(s, l, b)
      PROVE  DbAdvances
  <2> DEFINE r == [lib[s][l] EXCEPT !.name = Plain(b), !.upd = clock]
  <2>0. Plain(b) \in LibName
    BY DEF LibName, Plain
  <2>1. l \in Id /\ r \in LibRow /\ r.sid = lib[s][l].sid /\ r.upd = clock
    BY <1>0, <2>0, Rows DEF LibRow
  <2> QED BY <1>2, <2>1, StampLib DEF RenameLibrary, Operate
<1>3. ASSUME NEW l \in DOMAIN lib[s], DeleteLibrary(s, l)
      PROVE  DbAdvances
  <2> DEFINE r == [lib[s][l] EXCEPT !.del = clock, !.upd = clock]
             I == {i \in Live(song[s]) : song[s][i].lib = l}
             U == TrashCascade(s, l)
             Q == plist[s] \ I
  <2>1. r \in LibRow /\ r.sid = lib[s][l].sid /\ r.upd = clock
    BY <1>0, Rows DEF LibRow
  <2>2. DOMAIN U = DOMAIN song[s]
    BY DEF TrashCascade
  <2>3. ASSUME NEW i \in DOMAIN song[s]
        PROVE  /\ U[i] \in SongRow
               /\ \/ U[i] = song[s][i] /\ i \notin I
                  \/ /\ i \in I
                     /\ U[i].sid = song[s][i].sid
                     /\ U[i].lib = song[s][i].lib
                     /\ U[i].upd = clock
    BY <1>0, Rows DEF TrashCascade, SongRow
  <2>4. IsTable(U, SongRow)
    BY <2>2, <2>3, Rows DEF IsTable, TrashCascade
  <2>5. Q \in SUBSET plist[s] /\ Q \subseteq Live(U)
    <3> HIDE DEF U, I
    <3>1. \A i \in plist[s] : i \in DOMAIN song[s] /\ song[s][i].del = NULL
      BY DEF IInv, DbOK, Live
    <3>2. \A i \in Q : i \in DOMAIN song[s] /\ i \notin I
      BY <3>1 DEF I
    <3>3. \A i \in Q : U[i] = song[s][i]
      BY <2>3, <3>2
    <3> QED BY <2>2, <3>1, <3>3 DEF Live
  <2>6. /\ clock' = clock + 1 /\ SetLib(s, Put(lib[s], l, r)) /\ SetSong(s, U)
        /\ plist' = [plist EXCEPT ![s] = Q]
    BY <1>3 DEF DeleteLibrary, Operate, DropRefs
  <2> HIDE DEF r, I, U, Q
  <2> QED BY <2>1, <2>2, <2>3, <2>4, <2>5, <2>6, StampCascade
<1>4. ASSUME NEW l \in DOMAIN lib[s], RestoreLibrary(s, l)
      PROVE  DbAdvances
  <2> DEFINE r == [lib[s][l] EXCEPT !.del = NULL, !.upd = clock]
             U == [i \in DOMAIN song[s] |->
                     IF i \in Cascaded(s, l)
                     THEN [song[s][i] EXCEPT !.del = NULL, !.upd = clock]
                     ELSE song[s][i]]
             Q == plist[s]
  <2>1. r \in LibRow /\ r.sid = lib[s][l].sid /\ r.upd = clock
    BY <1>0, Rows DEF LibRow, NULL
  <2>2. DOMAIN U = DOMAIN song[s]
    OBVIOUS
  <2>3. ASSUME NEW i \in DOMAIN song[s]
        PROVE  /\ U[i] \in SongRow
               /\ \/ U[i] = song[s][i]
                  \/ /\ U[i].sid = song[s][i].sid
                     /\ U[i].lib = song[s][i].lib
                     /\ U[i].upd = clock
                     /\ U[i].del = NULL
    BY <1>0, Rows DEF SongRow, NULL
  <2>4. IsTable(U, SongRow)
    BY <2>2, <2>3, Rows DEF IsTable
  <2>5. Q \in SUBSET plist[s] /\ Q \subseteq Live(U)
    <3> HIDE DEF U
    <3>1. \A i \in plist[s] : i \in DOMAIN song[s] /\ song[s][i].del = NULL
      BY DEF IInv, DbOK, Live
    <3>2. \A i \in plist[s] : U[i].del = NULL
      BY <2>3, <3>1
    <3> QED BY <2>2, <3>1, <3>2 DEF Live
  <2>6. /\ clock' = clock + 1 /\ SetLib(s, Put(lib[s], l, r)) /\ SetSong(s, U)
        /\ plist' = plist
    BY <1>4 DEF RestoreLibrary, Operate
  <2> HIDE DEF r, U
  <2> QED BY <2>1, <2>2, <2>3, <2>4, <2>5, <2>6, StampCascade
<1>5. ASSUME NEW l \in DOMAIN lib[s], NEW n \in SongName, CreateSong(s, l, n)
      PROVE  DbAdvances
  <2> DEFINE r == [sid |-> clock, lib |-> l, name |-> n, text |-> clock,
                   upd |-> clock, del |-> NULL]
  <2>1. PICK i \in Id : IsNext(i, song[s]) /\ SetSong(s, Put(song[s], i, r))
    BY <1>5 DEF CreateSong
  <2>2. r \in SongRow
    BY <1>0, Rows DEF SongRow, NULL
  <2>3. i \notin DOMAIN song[s]
    BY <2>1, NextIsNew
  <2> QED BY <1>5, <2>1, <2>2, <2>3, StampSong DEF CreateSong, Operate
<1>6. ASSUME NEW i \in DOMAIN song[s], NEW l \in DOMAIN lib[s], CopySong(s, i, l)
      PROVE  DbAdvances
  <2> DEFINE r == [song[s][i] EXCEPT !.sid = clock, !.lib = l, !.upd = clock]
  <2>1. PICK k \in Id : IsNext(k, song[s]) /\ SetSong(s, Put(song[s], k, r))
    BY <1>6 DEF CopySong
  <2>2. /\ r \in SongRow /\ r.sid = clock /\ r.lib = l /\ r.upd = clock
        /\ r.del = song[s][i].del
    BY <1>0, Rows DEF SongRow
  <2>3. k \notin DOMAIN song[s]
    BY <2>1, NextIsNew
  <2>4. r.del = NULL
    BY <1>6, <2>2 DEF CopySong, Live
  <2> HIDE DEF r
  <2> QED BY <1>6, <2>1, <2>2, <2>3, <2>4, StampSong DEF CopySong, Operate
<1>7. ASSUME NEW i \in DOMAIN song[s], NEW n \in SongName, RenameSong(s, i, n)
      PROVE  DbAdvances
  <2> DEFINE r == [song[s][i] EXCEPT !.name = n, !.upd = clock]
  <2>1. /\ i \in Id /\ r \in SongRow /\ r.sid = song[s][i].sid
        /\ r.lib \in DOMAIN lib[s] /\ r.upd = clock /\ r.del = song[s][i].del
    BY <1>0, Rows DEF SongRow
  <2>2. r.del # NULL => i \notin plist[s]
    BY <2>1 DEF IInv, DbOK, Live
  <2> HIDE DEF r
  <2>3. clock' = clock + 1 /\ SetSong(s, Put(song[s], i, r)) /\ UNCHANGED <<lib, plist>>
    BY <1>7 DEF RenameSong, Operate, r
  <2> QED BY <2>1, <2>2, <2>3, StampSong
<1>8. ASSUME NEW i \in DOMAIN song[s], EditSong(s, i)
      PROVE  DbAdvances
  <2> DEFINE r == [song[s][i] EXCEPT !.text = clock, !.upd = clock]
  <2>1. /\ i \in Id /\ r \in SongRow /\ r.sid = song[s][i].sid
        /\ r.lib \in DOMAIN lib[s] /\ r.upd = clock /\ r.del = song[s][i].del
    BY <1>0, Rows DEF SongRow
  <2>2. r.del # NULL => i \notin plist[s]
    BY <2>1 DEF IInv, DbOK, Live
  <2> HIDE DEF r
  <2>3. clock' = clock + 1 /\ SetSong(s, Put(song[s], i, r)) /\ UNCHANGED <<lib, plist>>
    BY <1>8 DEF EditSong, Operate, r
  <2> QED BY <2>1, <2>2, <2>3, StampSong
<1>9. ASSUME NEW i \in DOMAIN song[s], DeleteSong(s, i)
      PROVE  DbAdvances
  <2> DEFINE r == [song[s][i] EXCEPT !.del = clock, !.upd = clock]
  <2>1. /\ i \in Id /\ r \in SongRow /\ r.sid = song[s][i].sid
        /\ r.lib \in DOMAIN lib[s] /\ r.upd = clock
    BY <1>0, Rows DEF SongRow
  <2> HIDE DEF r
  <2>2. clock' = clock + 1 /\ SetSong(s, Put(song[s], i, r)) /\ UNCHANGED lib
        /\ DropRefs(s, {i})
    BY <1>9 DEF DeleteSong, Operate, r
  <2> QED BY <2>1, <2>2, StampSong
<1>10. ASSUME NEW i \in DOMAIN song[s], RestoreSong(s, i)
       PROVE  DbAdvances
  <2> DEFINE r == [song[s][i] EXCEPT !.del = NULL, !.upd = clock]
  <2>1. /\ i \in Id /\ r \in SongRow /\ r.sid = song[s][i].sid
        /\ r.lib \in DOMAIN lib[s] /\ r.upd = clock /\ r.del = NULL
    BY <1>0, Rows DEF SongRow, NULL
  <2> HIDE DEF r
  <2>2. clock' = clock + 1 /\ SetSong(s, Put(song[s], i, r)) /\ UNCHANGED <<lib, plist>>
    BY <1>10 DEF RestoreSong, Operate, r
  <2> QED BY <2>1, <2>2, StampSong
<1>11. ASSUME NEW I \in SUBSET DOMAIN song[s], ReplacePlaylist(s, I)
       PROVE  DbAdvances
  <2>0. clock' \in Nat /\ clock <= clock' /\ plist' = [plist EXCEPT ![s] = I]
    BY <1>0, <1>11 DEF ReplacePlaylist
  <2>1. DbOK(lib[s], song[s], I, clock')
    BY <1>11 DEF ReplacePlaylist, IInv, DbOK, IsTable
  <2>2. /\ OnlyAt(lib, lib', s, lib[s]) /\ ForwardOnly(lib[s], lib[s])
        /\ OnlyAt(song, song', s, song[s]) /\ ForwardOnly(song[s], song[s])
    BY <1>11, OnlySame, ForwardSame DEF ReplacePlaylist, IInv, TypeOK, Tables
  <2> QED BY <2>0, <2>1, <2>2, SiteWrites
<1>12. CASE PruneSongs(s)
  <2> DEFINE I == Expired(song[s])
  <2>1. DbOK(lib[s], Without(song[s], I), plist[s] \ I, clock')
    BY <1>0, <1>12, WithoutSongs DEF IInv, PruneSongs
  <2>2. /\ OnlyAt(lib, lib', s, lib[s]) /\ ForwardOnly(lib[s], lib[s])
        /\ OnlyAt(song, song', s, Without(song[s], I))
        /\ ForwardOnly(song[s], Without(song[s], I))
    BY <1>12, OnlySame, OnlyExcept, ForwardSame, ForwardWithout
       DEF PruneSongs, SetSong, IInv, TypeOK, Tables
  <2>3. /\ plist' = [plist EXCEPT ![s] = plist[s] \ I]
        /\ clock' \in Nat /\ clock <= clock'
    BY <1>0, <1>12 DEF PruneSongs, DropRefs
  <2> HIDE DEF I
  <2> QED BY <2>1, <2>2, <2>3, SiteWrites
<1>13. CASE PruneLibraries(s)
  <2> DEFINE K == Expired(lib[s])
             I == {i \in DOMAIN song[s] : song[s][i].lib \in K}
             S == Without(song[s], I)
  <2>1. DbOK(lib[s], S, plist[s] \ I, clock)
    BY <1>0, WithoutSongs DEF IInv
  <2>2. \A k \in DOMAIN S : S[k].lib \notin K
    BY DEF Without, Restrict
  <2>3. DbOK(Without(lib[s], K), S, plist[s] \ I, clock')
    <3> HIDE DEF K, S, I
    <3> QED BY <1>0, <1>13, <2>1, <2>2, WithoutLibs DEF PruneLibraries
  <2>4. /\ OnlyAt(lib, lib', s, Without(lib[s], K))
        /\ ForwardOnly(lib[s], Without(lib[s], K))
        /\ OnlyAt(song, song', s, S) /\ ForwardOnly(song[s], S)
    BY <1>13, OnlyExcept, ForwardWithout
       DEF PruneLibraries, SetLib, SetSong, IInv, TypeOK, Tables
  <2>5. /\ plist' = [plist EXCEPT ![s] = plist[s] \ I]
        /\ clock' \in Nat /\ clock <= clock'
    BY <1>0, <1>13 DEF PruneLibraries, DropRefs
  <2> HIDE DEF K, S, I
  <2> QED BY <2>3, <2>4, <2>5, SiteWrites
<1> QED BY <1>1, <1>2, <1>3, <1>4, <1>5, <1>6, <1>7, <1>8, <1>9, <1>10, <1>11,
           <1>12, <1>13 DEF LocalStep

-----------------------------------------------------------------------------
(* Writes of the pull cycle. *)

LEMMA ApplyLibraryAdvances ==
  ASSUME IInv, NEW s \in Site, ApplyLibrary(s)
  PROVE  DbAdvances
<1>0. clock \in Nat
  BY DEF IInv, TypeOK
<1>1. PICK e \in DOMAIN libTodo[s] :
        /\ TakeLibrary(s, e)
        /\ \/ \E i \in DOMAIN lib[s] : UpdateLibrary(s, libTodo[s][e], i)
           \/ \E i \in DOMAIN lib[s] : AdoptLibrary(s, libTodo[s][e], i)
           \/ \E i \in Id : ImportLibrary(s, libTodo[s][e], i)
           \/ SkipLibrary(s, libTodo[s][e])
  BY DEF ApplyLibrary
<1> DEFINE w == libTodo[s][e]
<1>2. w \in LibRow /\ w.sid < clock /\ w.upd < clock
  BY DEF IInv, TypeOK, Tables, IsTable, CycleOK, RowsBehind
<1> HIDE DEF w
<1>3. UNCHANGED <<song, plist>>
  BY <1>1 DEF TakeLibrary
\* A library row that carries the identity of w and a clock newer than the
\* row it replaces.
<1>4. ASSUME NEW i \in Id, NEW r \in LibRow, r.sid = w.sid,
             clock' \in Nat, clock <= clock', r.upd < clock',
             i \in DOMAIN lib[s] => r.upd > lib[s][i].upd,
             BySid(lib[s], w.sid) \subseteq {i},
             SetLib(s, Put(lib[s], i, r))
      PROVE  DbAdvances
  <2>1. DbOK(lib[s], song[s], plist[s], clock')
    BY <1>0, <1>4, LaterDb DEF IInv
  <2>2. \A k \in DOMAIN lib[s] : lib[s][k].sid = r.sid => k = i
    BY <1>4 DEF BySid
  <2>3. r.sid < clock'
    BY <1>0, <1>2, <1>4 DEF LibRow
  <2>4. DbOK(Put(lib[s], i, r), song[s], plist[s], clock')
    BY <1>4, <2>1, <2>2, <2>3, PutLib
  <2>5. ForwardOnly(lib[s], Put(lib[s], i, r))
    BY <1>4, ForwardPut
  <2>6. OnlyAt(lib, lib', s, Put(lib[s], i, r))
    BY <1>4, OnlyExcept DEF SetLib, IInv, TypeOK, Tables
  <2>7. OnlyAt(song, song', s, song[s]) /\ ForwardOnly(song[s], song[s])
    BY <1>3, OnlySame, ForwardSame DEF IInv, TypeOK, Tables
  <2> QED BY <1>3, <1>4, <2>4, <2>5, <2>6, <2>7, SiteWrites
<1>5. ASSUME NEW i \in DOMAIN lib[s], UpdateLibrary(s, w, i)
      PROVE  DbAdvances
  <2>1. i \in Id /\ BySid(lib[s], w.sid) \subseteq {i} /\ w.upd > lib[s][i].upd
        /\ lib[s][i].upd \in Nat /\ lib[s][i].upd < clock
    <3>1. i \in BySid(lib[s], w.sid) /\ w.upd > lib[s][i].upd
      BY <1>5 DEF UpdateLibrary
    <3>2. BySid(lib[s], w.sid) \subseteq {i}
      BY <3>1 DEF BySid, IInv, DbOK, SidsUnique
    <3> QED BY <3>1, <3>2, Rows DEF LibRow
  <2>2. CASE SetLib(s, Put(lib[s], i, w)) /\ UNCHANGED clock
    <3>1. clock' \in Nat /\ clock <= clock' /\ w.upd < clock'
      BY <1>0, <1>2, <2>2
    <3> QED BY <1>2, <1>4, <2>1, <2>2, <3>1
  <2>3. ASSUME NEW k \in 1 .. MaxSuffix, k # 1, clock' = clock + 1,
               SetLib(s, Put(lib[s], i, [w EXCEPT !.name = Candidate(w.name, k),
                                                  !.upd = clock]))
        PROVE  DbAdvances
    <3> DEFINE r == [w EXCEPT !.name = Candidate(w.name, k), !.upd = clock]
    <3>1. Candidate(w.name, k) \in LibName
      <4>1. w.name \in [base : LibBase, suffix : Seq(Nat)] /\ k \in Nat
        BY <1>2, BoundAssumption DEF LibRow, LibName
      <4>2. Append(w.name.suffix, k) \in Seq(Nat)
        BY <4>1
      <4> QED BY <2>3, <4>1, <4>2 DEF Candidate, LibName
    <3>2. r \in LibRow /\ r.sid = w.sid /\ r.upd = clock
      BY <1>0, <1>2, <3>1 DEF LibRow
    <3> HIDE DEF r
    <3>3. clock' \in Nat /\ clock <= clock' /\ r.upd < clock'
          /\ r.upd > lib[s][i].upd
      BY <1>0, <2>1, <2>3, <3>2
    <3>4. SetLib(s, Put(lib[s], i, r))
      BY <2>3 DEF r
    <3> QED BY <1>4, <2>1, <3>2, <3>3, <3>4
  <2> QED BY <1>5, <2>2, <2>3 DEF UpdateLibrary
<1>6. ASSUME NEW i \in DOMAIN lib[s], AdoptLibrary(s, w, i)
      PROVE  DbAdvances
  <2>1. i \in Id /\ BySid(lib[s], w.sid) \subseteq {i} /\ w.upd > lib[s][i].upd
    BY <1>6, Rows DEF AdoptLibrary
  <2>2. clock' \in Nat /\ clock <= clock' /\ w.upd < clock'
        /\ SetLib(s, Put(lib[s], i, w))
    BY <1>0, <1>2, <1>6 DEF AdoptLibrary
  <2> QED BY <1>2, <1>4, <2>1, <2>2
<1>7. ASSUME NEW i \in Id, ImportLibrary(s, w, i)
      PROVE  DbAdvances
  <2>1. BySid(lib[s], w.sid) \subseteq {i} /\ i \notin DOMAIN lib[s]
    BY <1>7, NextIsNew DEF ImportLibrary
  <2>2. clock' \in Nat /\ clock <= clock' /\ w.upd < clock'
        /\ SetLib(s, Put(lib[s], i, w))
    BY <1>0, <1>2, <1>7 DEF ImportLibrary
  <2> QED BY <1>2, <1>4, <2>1, <2>2
<1>8. CASE SkipLibrary(s, w)
  BY <1>0, <1>3, <1>8, NothingWritten DEF SkipLibrary, db
<1> QED BY <1>1, <1>5, <1>6, <1>7, <1>8 DEF w

\* The write that stores an incoming song under its placement.
LEMMA WriteSongAdvances ==
  ASSUME IInv, NEW s \in Site, NEW i \in Id, NEW w \in WireSong,
         w.sid < clock, w.upd < clock, NEW p, WriteSong(s, i, w, p),
         PlacementOK(p, lib[s], song[s], plist[s], clock,
                     IF p.minted THEN clock + 1 ELSE clock),
         BySid(song[s], w.sid) \subseteq {i},
         i \in DOMAIN song[s] => w.upd > song[s][i].upd
  PROVE  DbAdvances
<1> DEFINE later == IF p.minted THEN clock + 1 ELSE clock
           row == SyncedRow(w, p)
           Q == plist[s] \ (IF row.del # NULL THEN {i} ELSE {})
<1>0. clock \in Nat
  BY DEF IInv, TypeOK
<1>1. clock' = later /\ later \in Nat /\ clock <= later
  BY <1>0 DEF WriteSong
<1>2. /\ DbOK(p.libs, song[s], plist[s], later) /\ p.at \in DOMAIN p.libs
      /\ p.forced \in Nat /\ ForwardOnly(lib[s], p.libs)
  BY DEF PlacementOK
<1>3. p.at \in Id
  BY <1>2 DEF DbOK, IsTable
<1>4. /\ row \in SongRow /\ row.sid = w.sid /\ row.lib = p.at
      /\ row.upd = w.upd
  BY <1>2, <1>3 DEF SyncedRow, SongRow, WireSong
<1>5. /\ SetLib(s, p.libs) /\ SetSong(s, Put(song[s], i, row))
      /\ plist' = [plist EXCEPT ![s] = Q]
  BY DEF WriteSong, DropRefs
<1>6. Q \in SUBSET plist[s] /\ (row.del # NULL => i \notin Q)
  OBVIOUS
<1> HIDE DEF row, Q, later
<1>7. row.sid < later /\ row.upd < later
  BY <1>0, <1>1, <1>4 DEF WireSong
<1>8. \A k \in DOMAIN song[s] : song[s][k].sid = row.sid => k = i
  BY <1>4 DEF BySid
<1>9. DbOK(p.libs, Put(song[s], i, row), Q, later)
  BY <1>1, <1>2, <1>4, <1>6, <1>7, <1>8, PutSong
<1>10. ForwardOnly(song[s], Put(song[s], i, row))
  BY <1>4, ForwardPut
<1>11. /\ OnlyAt(lib, lib', s, p.libs)
       /\ OnlyAt(song, song', s, Put(song[s], i, row))
  BY <1>5, OnlyExcept DEF SetLib, SetSong, IInv, TypeOK, Tables
<1>12. clock' \in Nat /\ clock <= clock' /\ DbOK(p.libs, Put(song[s], i, row), Q, clock')
  BY <1>1, <1>9
<1> QED BY <1>2, <1>5, <1>10, <1>11, <1>12, SiteWrites

LEMMA PlacedThere ==
  ASSUME IInv, NEW s \in Site, NEW i \in DOMAIN song[s]
  PROVE  LET p == Placement(lib[s], song[s][i].lib, NULL, FALSE)
         IN  PlacementOK(p, lib[s], song[s], plist[s], clock,
                         IF p.minted THEN clock + 1 ELSE clock)
<1> DEFINE p == Placement(lib[s], song[s][i].lib, NULL, FALSE)
<1>1. /\ p.libs = lib[s] /\ p.at = song[s][i].lib /\ p.forced \in Nat
      /\ (IF p.minted THEN clock + 1 ELSE clock) = clock
  BY DEF Placement, NULL
<1>2. DbOK(lib[s], song[s], plist[s], clock) /\ clock \in Nat
  BY DEF IInv, TypeOK
<1>3. p.at \in DOMAIN lib[s]
  BY <1>1, Rows
<1> HIDE DEF p
<1>4. PlacementOK(p, lib[s], song[s], plist[s], clock, clock)
  BY <1>1, <1>2, <1>3, PlacedAsIs
<1> QED BY <1>1, <1>4 DEF p

LEMMA PlacedInHome ==
  ASSUME IInv, NEW s \in Site, NEW w \in WireSong, w.upd < clock,
         NEW new \in Id, IsNext(new, lib[s])
  PROVE  LET p == EnsureLibrary(lib[s], w, new, clock)
         IN  PlacementOK(p, lib[s], song[s], plist[s], clock,
                         IF p.minted THEN clock + 1 ELSE clock)
BY EnsuredLibrary DEF IInv, TypeOK

LEMMA ApplySongAdvances ==
  ASSUME IInv, NEW s \in Site, ApplySong(s)
  PROVE  DbAdvances
<1>1. PICK w \in got[s] :
        \/ \E i \in DOMAIN song[s] : UpdateSong(s, w, i)
        \/ \E i \in DOMAIN song[s] : AdoptSong(s, w, i)
        \/ \E i \in Id : ImportSong(s, w, i)
        \/ SkipSong(s, w)
        \/ RefuseSong(s, w)
  BY DEF ApplySong
<1>2. w \in WireSong /\ w.sid < clock /\ w.upd < clock
  BY DEF IInv, TypeOK, CycleOK
<1>3. ASSUME NEW i \in DOMAIN song[s], UpdateSong(s, w, i)
      PROVE  DbAdvances
  <2>1. PICK new \in Id : /\ IsNext(new, lib[s])
                          /\ WriteSong(s, i, w, PlaceKnown(s, w, i, new))
    BY <1>3 DEF UpdateSong
  <2>2. i \in BySid(song[s], w.sid) /\ w.upd > song[s][i].upd
    BY <1>3 DEF UpdateSong
  <2>3. BySid(song[s], w.sid) \subseteq {i}
    BY <2>2 DEF BySid, IInv, DbOK, SidsUnique
  <2>4. i \in Id
    BY Rows
  <2>5. CASE w.del # NULL
    <3> DEFINE p == Placement(lib[s], song[s][i].lib, NULL, FALSE)
    <3>1. WriteSong(s, i, w, p)
      BY <2>1, <2>5 DEF PlaceKnown
    <3>2. PlacementOK(p, lib[s], song[s], plist[s], clock,
                      IF p.minted THEN clock + 1 ELSE clock)
      BY PlacedThere
    <3> HIDE DEF p
    <3> QED BY <1>2, <2>2, <2>3, <2>4, <3>1, <3>2, WriteSongAdvances
  <2>6. CASE w.del = NULL
    <3> DEFINE p == EnsureLibrary(lib[s], w, new, clock)
    <3>1. WriteSong(s, i, w, p)
      BY <2>1, <2>6 DEF PlaceKnown
    <3>2. PlacementOK(p, lib[s], song[s], plist[s], clock,
                      IF p.minted THEN clock + 1 ELSE clock)
      BY <1>2, <2>1, PlacedInHome
    <3> HIDE DEF p
    <3> QED BY <1>2, <2>2, <2>3, <2>4, <3>1, <3>2, WriteSongAdvances
  <2> QED BY <2>5, <2>6
<1>4. ASSUME NEW i \in DOMAIN song[s], AdoptSong(s, w, i)
      PROVE  DbAdvances
  <2> DEFINE p == Placement(lib[s], song[s][i].lib, NULL, FALSE)
  <2>1. /\ BySid(song[s], w.sid) \subseteq {i} /\ w.upd > song[s][i].upd
        /\ WriteSong(s, i, w, p)
    BY <1>4 DEF AdoptSong
  <2>2. PlacementOK(p, lib[s], song[s], plist[s], clock,
                    IF p.minted THEN clock + 1 ELSE clock)
    BY PlacedThere
  <2>3. i \in Id
    BY Rows
  <2> HIDE DEF p
  <2> QED BY <1>2, <2>1, <2>2, <2>3, WriteSongAdvances
<1>5. ASSUME NEW i \in Id, ImportSong(s, w, i)
      PROVE  DbAdvances
  <2>1. PICK new \in Id :
          /\ IsNext(new, lib[s])
          /\ WriteSong(s, i, w, EnsureLibrary(lib[s], w, new, clock))
    BY <1>5 DEF ImportSong
  <2>2. BySid(song[s], w.sid) \subseteq {i} /\ i \notin DOMAIN song[s]
    BY <1>5, NextIsNew DEF ImportSong
  <2> DEFINE p == EnsureLibrary(lib[s], w, new, clock)
  <2>3. PlacementOK(p, lib[s], song[s], plist[s], clock,
                    IF p.minted THEN clock + 1 ELSE clock)
    BY <1>2, <2>1, PlacedInHome
  <2>4. WriteSong(s, i, w, p)
    BY <2>1
  <2> HIDE DEF p
  <2> QED BY <1>2, <2>2, <2>3, <2>4, WriteSongAdvances
<1>6. CASE SkipSong(s, w) \/ RefuseSong(s, w)
  BY <1>6, NothingWritten DEF SkipSong, RefuseSong, IInv, TypeOK
<1> QED BY <1>1, <1>3, <1>4, <1>5, <1>6

\* Every step leaves well-formed databases in which no row went back.
LEMMA NextAdvances ==
  ASSUME IInv, [Next]_vars
  PROVE  DbAdvances
<1>0. clock \in Nat
  BY DEF IInv, TypeOK
<1>1. ASSUME NEW s \in Site, LocalStep(s)
      PROVE  DbAdvances
  BY <1>1, LocalStepAdvances
<1>2. ASSUME NEW s \in Site, CycleStep(s)
      PROVE  DbAdvances
  <2>1. CASE ApplyLibrary(s) \/ ApplySong(s)
    BY <2>1, ApplyLibraryAdvances, ApplySongAdvances
  <2>2. CASE ~(ApplyLibrary(s) \/ ApplySong(s))
    <3>1. UNCHANGED <<clock, db>>
      BY <1>2, <2>2 DEF CycleStep, FetchLibraries, ListSongs, FetchManifest,
         FetchSong, MissSong, PassOver, FetchSlides, SongsDone
    <3> QED BY <1>0, <3>1, NothingWritten
  <2> QED BY <2>1, <2>2
<1>3. ASSUME NEW s \in Site, FailureStep(s)
      PROVE  DbAdvances
  <2>1. UNCHANGED <<clock, db>>
    BY <1>3 DEF FailureStep, MissLibraries, MissManifest, FailSong, PassOver,
       LoseSong, Crash
  <2> QED BY <1>0, <2>1, NothingWritten
<1>4. CASE Elapse \/ UNCHANGED vars
  BY <1>0, <1>4, NothingWritten DEF Elapse, vars
<1> QED BY <1>1, <1>2, <1>3, <1>4 DEF Next

-----------------------------------------------------------------------------
(* What a cycle carries. *)

CycleTypeOK ==
  /\ pc \in [Site -> StepName]
  /\ Tables(libTodo, LibRow)
  /\ Tables(seen, SongRow)
  /\ Tables(songTodo, Nat)
  /\ peerIds \in [Site -> SUBSET Nat]
  /\ asked \in [Site -> Id \cup {NULL}]
  /\ got \in [Site -> SUBSET WireSong]
  /\ streak \in [Site -> 0 .. Breaker - 1]
  /\ pruning \in [Site -> BOOLEAN]
  /\ faults \in Nat

\* A step after which no cycle carries anything ill-typed or from the future.
CycleAdvances == CycleTypeOK' /\ \A s \in Site : CycleOK(s, clock)'

LEMMA TablesExcept ==
  ASSUME NEW f, NEW Row, Tables(f, Row), NEW s \in Site, NEW T, IsTable(T, Row)
  PROVE  Tables([f EXCEPT ![s] = T], Row)
BY DEF Tables

\* What is carried does not come closer to the future as time passes.
LEMMA CycleLater ==
  ASSUME IInv, clock' \in Nat, clock <= clock', NEW s \in Site,
         \/ libTodo'[s] = libTodo[s]
         \/ libTodo'[s] = EmptyTable
         \/ \E I : libTodo'[s] = Without(libTodo[s], I),
         got'[s] \subseteq got[s]
  PROVE  CycleOK(s, clock)'
<1>1. \A w \in got[s] : /\ w.sid \in Nat /\ w.upd \in Nat
                        /\ w.sid < clock /\ w.upd < clock
  BY DEF IInv, TypeOK, CycleOK, WireSong
<1>2. \A e \in DOMAIN libTodo[s] :
        /\ libTodo[s][e].sid \in Nat /\ libTodo[s][e].upd \in Nat
        /\ libTodo[s][e].sid < clock /\ libTodo[s][e].upd < clock
  BY DEF IInv, TypeOK, CycleOK, Tables, IsTable, RowsBehind, LibRow
<1>3. \A e \in DOMAIN libTodo'[s] : /\ e \in DOMAIN libTodo[s]
                                    /\ libTodo'[s][e] = libTodo[s][e]
  BY DEF EmptyTable, Without, Restrict
<1>4. clock \in Nat
  BY DEF IInv, TypeOK
<1>5. RowsBehind(libTodo'[s], clock')
  BY <1>2, <1>3, <1>4 DEF RowsBehind
<1>6. \A w \in got'[s] : w.sid < clock' /\ w.upd < clock'
  BY <1>1, <1>4
<1> QED BY <1>5, <1>6 DEF CycleOK

\* A cycle that ends or is lost carries nothing.
LEMMA CycleEnds ==
  ASSUME IInv, NEW s \in Site, EmptyCycle(s), clock' \in Nat, clock <= clock',
         pc' \in [Site -> StepName], pruning' \in [Site -> BOOLEAN],
         faults' \in Nat
  PROVE  CycleAdvances
<1>1. CycleTypeOK'
  <2>1. Tables(libTodo', LibRow) /\ Tables(seen', SongRow) /\ Tables(songTodo', Nat)
    BY EmptyIsTable, TablesExcept DEF EmptyCycle, IInv, TypeOK
  <2>2. /\ peerIds' \in [Site -> SUBSET Nat]
        /\ asked' \in [Site -> Id \cup {NULL}]
        /\ got' \in [Site -> SUBSET WireSong]
        /\ streak' \in [Site -> 0 .. Breaker - 1]
    BY DEF EmptyCycle, IInv, TypeOK, Breaker
  <2> QED BY <2>1, <2>2 DEF CycleTypeOK
<1>2. ASSUME NEW t \in Site
      PROVE  CycleOK(t, clock)'
  <2>1. /\ libTodo'[t] = libTodo[t] \/ libTodo'[t] = EmptyTable
        /\ got'[t] \subseteq got[t]
    BY DEF EmptyCycle, IInv, TypeOK, Tables
  <2> QED BY <2>1, CycleLater
<1> QED BY <1>1, <1>2 DEF CycleAdvances

\* A step that leaves the cycles alone.
LEMMA CycleStays ==
  ASSUME IInv, UNCHANGED cycle, clock' \in Nat, clock <= clock',
         pruning' \in [Site -> BOOLEAN], faults' \in Nat
  PROVE  CycleAdvances
<1>1. CycleTypeOK'
  BY DEF cycle, CycleTypeOK, IInv, TypeOK
<1>2. \A t \in Site : CycleOK(t, clock)'
  BY CycleLater DEF cycle
<1> QED BY <1>1, <1>2 DEF CycleAdvances

\* The answer to a fetch is a song of the present; its library exists.
LEMMA WireOK ==
  ASSUME IInv, NEW s \in Site, NEW i \in DOMAIN song[s]
  PROVE  LET w == Wire(lib[s], song[s], i)
         IN  w \in WireSong /\ w.sid < clock /\ w.upd < clock
<1>1. song[s][i] \in SongRow /\ song[s][i].sid < clock /\ song[s][i].upd < clock
  BY Rows
<1>2. lib[s][song[s][i].lib] \in LibRow
  BY Rows
<1> QED BY <1>1, <1>2 DEF Wire, WireSong, SongRow, LibRow

LEMMA CycleStepCarries ==
  ASSUME IInv, NEW s \in Site, CycleStep(s), clock' \in Nat, clock <= clock'
  PROVE  CycleAdvances
<1>0. CycleTypeOK /\ clock \in Nat
  BY DEF IInv, TypeOK, CycleTypeOK
<1>1. CASE FetchLibraries(s)
  <2>1. Peer[s] \in Site
    BY PeerAssumption
  <2>2. IsTable(lib[Peer[s]], LibRow) /\ RowsBehind(lib[Peer[s]], clock)
    BY <2>1 DEF IInv, DbOK
  <2>3. CycleTypeOK'
    <3>1. Tables(libTodo', LibRow)
      BY <1>0, <1>1, <2>2, TablesExcept DEF FetchLibraries, CycleTypeOK
    <3> QED BY <1>0, <1>1, <3>1 DEF FetchLibraries, Goto, StepName, CycleTypeOK
  <2>4. ASSUME NEW t \in Site
        PROVE  CycleOK(t, clock)'
    <3>1. CASE t = s
      <4>1. libTodo'[t] = lib[Peer[s]] /\ got'[t] = got[t] /\ clock' = clock
        BY <1>0, <1>1, <3>1 DEF FetchLibraries, CycleTypeOK, Tables
      <4> QED BY <2>2, <4>1 DEF CycleOK, IInv
    <3>2. CASE t # s
      <4>1. libTodo'[t] = libTodo[t] /\ got'[t] = got[t]
        BY <1>0, <1>1, <3>2 DEF FetchLibraries, CycleTypeOK, Tables
      <4> QED BY <4>1, CycleLater
    <3> QED BY <3>1, <3>2
  <2> QED BY <2>3, <2>4 DEF CycleAdvances
<1>2. CASE ApplyLibrary(s)
  <2>1. PICK e \in DOMAIN libTodo[s] : TakeLibrary(s, e)
    BY <1>2 DEF ApplyLibrary
  <2>2. CycleTypeOK'
    <3>1. IsTable(Without(libTodo[s], {e}), LibRow)
      BY <1>0, WithoutTable DEF CycleTypeOK, Tables
    <3>2. Tables(libTodo', LibRow)
      BY <1>0, <2>1, <3>1, TablesExcept DEF TakeLibrary, CycleTypeOK
    <3> QED BY <1>0, <2>1, <3>2 DEF TakeLibrary, CycleTypeOK
  <2>3. \A t \in Site : /\ \/ libTodo'[t] = libTodo[t]
                           \/ libTodo'[t] = Without(libTodo[t], {e})
                        /\ got'[t] = got[t]
    BY <1>0, <2>1 DEF TakeLibrary, CycleTypeOK, Tables
  <2> QED BY <2>2, <2>3, CycleLater DEF CycleAdvances
<1>3. CASE ListSongs(s)
  <2>1. IsTable(song[s], SongRow)
    BY DEF IInv, DbOK
  <2>2. Tables(seen', SongRow)
    BY <1>0, <1>3, <2>1, TablesExcept DEF ListSongs, CycleTypeOK
  <2>3. CycleTypeOK'
    BY <1>0, <1>3, <2>2 DEF ListSongs, Goto, StepName, CycleTypeOK
  <2> QED BY <1>3, <2>3, CycleLater DEF ListSongs, CycleAdvances
<1>4. CASE FetchManifest(s)
  <2> DEFINE S == song[Peer[s]]
             newer == {i \in DOMAIN S :
                         ShouldApply(S[i].upd, S[i].del,
                                     UpdOf(seen[s], BySid(seen[s], S[i].sid)), clock)}
             T == [i \in newer |-> S[i].sid]
             X == {S[i].sid : i \in DOMAIN S}
  <2>1. Peer[s] \in Site
    BY PeerAssumption
  <2>2. \A i \in DOMAIN S : i \in Id /\ S[i].sid \in Nat
    BY <2>1, Rows DEF SongRow
  <2>3. newer \subseteq DOMAIN S
    OBVIOUS
  <2>4. songTodo' = [songTodo EXCEPT ![s] = T] /\ peerIds' = [peerIds EXCEPT ![s] = X]
    BY <1>4 DEF FetchManifest
  <2> HIDE DEF S, newer
  <2>5. IsTable(T, Nat) /\ X \subseteq Nat
    BY <2>2, <2>3 DEF IsTable
  <2> HIDE DEF T, X
  <2>6. Tables(songTodo', Nat) /\ Tables(seen', SongRow)
    <3>1. Tables(songTodo', Nat)
      BY <1>0, <2>4, <2>5, TablesExcept DEF CycleTypeOK
    <3>2. Tables(seen', SongRow)
      BY <1>0, <1>4, TablesExcept, EmptyIsTable DEF FetchManifest, CycleTypeOK
    <3> QED BY <3>1, <3>2
  <2>7. peerIds' \in [Site -> SUBSET Nat]
    BY <1>0, <2>4, <2>5 DEF CycleTypeOK
  <2>8. CycleTypeOK'
    <3>1. pc' \in [Site -> StepName]
      BY <1>0, <1>4 DEF FetchManifest, Goto, StepName, CycleTypeOK
    <3>2. streak' \in [Site -> 0 .. Breaker - 1]
      BY <1>0, <1>4 DEF FetchManifest, Breaker, CycleTypeOK
    <3>3. UNCHANGED <<libTodo, asked, got, pruning, faults>>
      BY <1>4 DEF FetchManifest
    <3> QED BY <1>0, <2>6, <2>7, <3>1, <3>2, <3>3 DEF CycleTypeOK
  <2> QED BY <1>4, <2>8, CycleLater DEF FetchManifest, CycleAdvances
<1>5. ASSUME NEW e \in DOMAIN songTodo[s], FetchSong(s, e)
      PROVE  CycleAdvances
  <2>1. PICK i \in BySid(song[Peer[s]], songTodo[s][e]) :
          /\ asked' = [asked EXCEPT ![s] = i]
          /\ got' = [got EXCEPT ![s] = {Wire(lib[Peer[s]], song[Peer[s]], i)}]
    BY <1>5 DEF FetchSong
  <2> DEFINE w == Wire(lib[Peer[s]], song[Peer[s]], i)
  <2>2. i \in DOMAIN song[Peer[s]] /\ Peer[s] \in Site
    BY PeerAssumption DEF BySid
  <2>3. w \in WireSong /\ w.sid < clock /\ w.upd < clock
    BY <2>2, WireOK
  <2> HIDE DEF w
  <2>4. got' = [got EXCEPT ![s] = {w}]
    BY <2>1 DEF w
  <2>5. i \in Id
    BY <2>2, Rows
  <2>6. CycleTypeOK'
    <3>1. got' \in [Site -> SUBSET WireSong]
      BY <1>0, <2>3, <2>4 DEF CycleTypeOK
    <3>2. asked' \in [Site -> Id \cup {NULL}]
      BY <1>0, <2>1, <2>5 DEF CycleTypeOK
    <3> QED BY <1>0, <1>5, <3>1, <3>2
            DEF FetchSong, Goto, StepName, CycleTypeOK
  <2>7. ASSUME NEW t \in Site
        PROVE  CycleOK(t, clock)'
    <3>1. CASE t = s
      <4>1. got'[t] = {w} /\ libTodo'[t] = libTodo[t] /\ clock' = clock
        BY <1>0, <1>5, <2>4, <3>1 DEF FetchSong, CycleTypeOK
      <4>2. RowsBehind(libTodo[t], clock)
        BY DEF IInv, CycleOK
      <4> QED BY <2>3, <4>1, <4>2 DEF CycleOK
    <3>2. CASE t # s
      <4>1. libTodo'[t] = libTodo[t] /\ got'[t] = got[t]
        BY <1>0, <1>5, <2>4, <3>2 DEF FetchSong, CycleTypeOK
      <4> QED BY <4>1, CycleLater
    <3> QED BY <3>1, <3>2
  <2> QED BY <2>6, <2>7 DEF CycleAdvances
<1>6. CASE FetchSlides(s)
  <2> DEFINE T == song[Peer[s]]
             text == IF asked[s] \in DOMAIN T THEN T[asked[s]].text ELSE NULL
             torn == {[w EXCEPT !.text = text] : w \in got[s]}
  <2>1. text \in Nat
    <3>1. Peer[s] \in Site
      BY PeerAssumption
    <3>2. \A i \in DOMAIN T : T[i].text \in Nat
      BY <3>1, Rows DEF SongRow
    <3> QED BY <3>2 DEF NULL
  <2>2. got' = [got EXCEPT ![s] = torn]
    BY <1>6 DEF FetchSlides
  <2> HIDE DEF text
  <2>3. \A w \in torn : w \in WireSong /\ w.sid < clock /\ w.upd < clock
    <3>1. \A w \in got[s] : w \in WireSong /\ w.sid < clock /\ w.upd < clock
      BY <1>0 DEF CycleTypeOK, IInv, CycleOK
    <3> QED BY <2>1, <3>1 DEF WireSong
  <2> HIDE DEF torn
  <2>4. CycleTypeOK'
    BY <1>0, <1>6, <2>2, <2>3 DEF FetchSlides, Goto, StepName, CycleTypeOK
  <2>5. ASSUME NEW t \in Site
        PROVE  CycleOK(t, clock)'
    <3>1. CASE t = s
      <4>1. got'[t] = torn /\ libTodo'[t] = libTodo[t] /\ clock' = clock
        BY <1>0, <1>6, <2>2, <3>1 DEF FetchSlides, CycleTypeOK
      <4>2. RowsBehind(libTodo[t], clock)
        BY DEF IInv, CycleOK
      <4> QED BY <2>3, <4>1, <4>2 DEF CycleOK
    <3>2. CASE t # s
      <4>1. libTodo'[t] = libTodo[t] /\ got'[t] = got[t]
        BY <1>0, <1>6, <2>2, <3>2 DEF FetchSlides, CycleTypeOK
      <4> QED BY <4>1, CycleLater
    <3> QED BY <3>1, <3>2
  <2> QED BY <2>4, <2>5 DEF CycleAdvances
<1>7. CASE ApplySong(s)
  <2> DEFINE T == songTodo[s]
             first == {e \in DOMAIN T : IsFirst(e, T)}
  <2>1. songTodo' = [songTodo EXCEPT ![s] = Without(T, first)]
    BY <1>7 DEF ApplySong
  <2> HIDE DEF first
  <2>2. Tables(songTodo', Nat)
    <3>1. IsTable(Without(T, first), Nat)
      BY <1>0, WithoutTable DEF CycleTypeOK, Tables
    <3> QED BY <1>0, <2>1, <3>1, TablesExcept DEF CycleTypeOK
  <2>3. CycleTypeOK'
    BY <1>0, <1>7, <2>2 DEF ApplySong, Goto, StepName, Breaker, CycleTypeOK
  <2>4. \A t \in Site : libTodo'[t] = libTodo[t] /\ got'[t] \subseteq got[t]
    BY <1>0, <1>7 DEF ApplySong, CycleTypeOK
  <2> QED BY <2>3, <2>4, CycleLater DEF CycleAdvances
<1>8. ASSUME NEW e \in DOMAIN songTodo[s], MissSong(s, e)
      PROVE  CycleAdvances
  <2>1. Tables(songTodo', Nat)
    <3>1. IsTable(Without(songTodo[s], {e}), Nat)
      BY <1>0, WithoutTable DEF CycleTypeOK, Tables
    <3> QED BY <1>0, <1>8, <3>1, TablesExcept DEF MissSong, PassOver, CycleTypeOK
  <2>2. CycleTypeOK'
    BY <1>0, <1>8, <2>1 DEF MissSong, PassOver, Breaker, CycleTypeOK
  <2> QED BY <1>8, <2>2, CycleLater DEF MissSong, PassOver, CycleAdvances
<1>9. CASE SongsDone(s)
  BY <1>0, <1>9, CycleEnds DEF SongsDone, Goto, StepName, CycleTypeOK
<1> QED BY <1>1, <1>2, <1>3, <1>4, <1>5, <1>6, <1>7, <1>8, <1>9 DEF CycleStep

LEMMA FailureStepCarries ==
  ASSUME IInv, NEW s \in Site, FailureStep(s), clock' \in Nat, clock <= clock'
  PROVE  CycleAdvances
<1>0. CycleTypeOK /\ clock \in Nat
  BY DEF IInv, TypeOK, CycleTypeOK
<1>1. CASE MissLibraries(s)
  <2>1. CycleTypeOK'
    BY <1>0, <1>1 DEF MissLibraries, Fault, Goto, StepName, CycleTypeOK
  <2> QED BY <1>1, <2>1, CycleLater DEF MissLibraries, CycleAdvances
<1>2. CASE MissManifest(s)
  BY <1>0, <1>2, CycleEnds DEF MissManifest, Fault, Goto, StepName, CycleTypeOK
<1>3. CASE Crash(s)
  BY <1>0, <1>3, CycleEnds DEF Crash, Fault, Goto, StepName, CycleTypeOK
<1>4. ASSUME NEW e \in DOMAIN songTodo[s]
      PROVE  Tables([songTodo EXCEPT ![s] = Without(@, {e})], Nat)
  <2>1. IsTable(Without(songTodo[s], {e}), Nat)
    BY <1>0, WithoutTable DEF CycleTypeOK, Tables
  <2> QED BY <1>0, <2>1, TablesExcept DEF CycleTypeOK
<1>5. ASSUME NEW e \in DOMAIN songTodo[s], FailSong(s, e)
      PROVE  CycleAdvances
  <2>1. Tables(songTodo', Nat)
    BY <1>4, <1>5 DEF FailSong, PassOver
  <2>2. CycleTypeOK'
    BY <1>0, <1>5, <2>1 DEF FailSong, PassOver, Fault, Breaker, CycleTypeOK
  <2> QED BY <1>5, <2>2, CycleLater DEF FailSong, PassOver, CycleAdvances
<1>6. ASSUME NEW e \in DOMAIN songTodo[s], LoseSong(s, e)
      PROVE  CycleAdvances
  <2>1. CASE streak[s] + 1 < Breaker
    <3>1. Tables(songTodo', Nat)
      BY <1>4, <1>6, <2>1 DEF LoseSong
    <3>2. CycleTypeOK'
      BY <1>0, <1>6, <2>1, <3>1 DEF LoseSong, Fault, Breaker, CycleTypeOK
    <3> QED BY <1>6, <2>1, <3>2, CycleLater DEF LoseSong, CycleAdvances
  <2>2. CASE ~(streak[s] + 1 < Breaker)
    <3>1. EmptyCycle(s) /\ Goto(s, "idle") /\ Fault /\ UNCHANGED pruning
      BY <1>6, <2>2 DEF LoseSong
    <3> QED BY <1>0, <3>1, CycleEnds DEF Fault, Goto, StepName, CycleTypeOK
  <2> QED BY <2>1, <2>2
<1> QED BY <1>1, <1>2, <1>3, <1>5, <1>6 DEF FailureStep

-----------------------------------------------------------------------------
(* The theorems. *)

LEMMA InitIInv == Init => IInv
<1> SUFFICES ASSUME Init
             PROVE  IInv
  OBVIOUS
<1>1. TypeOK
  BY EmptyIsTable DEF Init, TypeOK, Tables, StepName, Breaker
<1>2. ASSUME NEW s \in Site
      PROVE  DbOK(lib[s], song[s], plist[s], clock)
  <2>1. lib[s] = EmptyTable /\ song[s] = EmptyTable /\ plist[s] = {}
    BY DEF Init
  <2> QED BY <2>1, EmptyIsTable DEF DbOK, RowsBehind, SidsUnique, Live
<1>3. ASSUME NEW s \in Site
      PROVE  CycleOK(s, clock)
  <2>1. libTodo[s] = EmptyTable /\ got[s] = {}
    BY DEF Init
  <2> QED BY <2>1, EmptyIsTable DEF CycleOK, RowsBehind
<1> QED BY <1>1, <1>2, <1>3 DEF IInv

LEMMA StepIInv == IInv /\ [Next]_vars => IInv' /\ DbAdvances
<1> SUFFICES ASSUME IInv, [Next]_vars
             PROVE  IInv' /\ DbAdvances
  OBVIOUS
<1>1. DbAdvances
  BY NextAdvances
<1>2. clock' \in Nat /\ clock <= clock'
  BY <1>1 DEF DbAdvances
<1>3. CycleAdvances
  <2>1. ASSUME NEW s \in Site, LocalStep(s)
        PROVE  CycleAdvances
    <3>1. UNCHANGED <<cycle, faults>> /\ pruning' \in [Site -> BOOLEAN]
      <4>1. CASE PruneSongs(s) \/ PruneLibraries(s)
        BY <4>1 DEF PruneSongs, PruneLibraries, IInv, TypeOK
      <4>2. CASE ~(PruneSongs(s) \/ PruneLibraries(s))
        <5>1. UNCHANGED <<cycle, pruning, faults>>
          BY <2>1, <4>2 DEF LocalStep, Operate, CreateLibrary, RenameLibrary,
             DeleteLibrary, RestoreLibrary, CreateSong, CopySong, RenameSong,
             EditSong, DeleteSong, RestoreSong, ReplacePlaylist
        <5> QED BY <5>1 DEF IInv, TypeOK
      <4> QED BY <4>1, <4>2
    <3> QED BY <1>2, <3>1, CycleStays DEF IInv, TypeOK
  <2>2. CASE Elapse \/ UNCHANGED vars
    BY <1>2, <2>2, CycleStays DEF Elapse, vars, IInv, TypeOK
  <2> QED BY <1>2, <2>1, <2>2, CycleStepCarries, FailureStepCarries DEF Next
<1> QED BY <1>1, <1>3 DEF IInv, TypeOK, DbAdvances, CycleAdvances, CycleTypeOK

\* IInv holds throughout every behaviour, whatever is operated, requested, lost
\* or restarted on any number of sites.
THEOREM Inductive == Spec => []IInv
BY InitIInv, StepIInv, PTL DEF Spec

\* Every table holds rows of its kind, and every request of a cycle is answered
\* with what the step that takes the answer expects.
THEOREM TypeCorrect == Spec => []TypeOK
<1>1. IInv => TypeOK
  BY DEF IInv
<1> QED BY <1>1, Inductive, PTL

\* Deleting, restoring and pruning songs and libraries, on this site or by a
\* peer's tombstone, never leaves a playlist with a song that is not live.
THEOREM PlaylistsAlwaysLive == Spec => []PlaylistsLive
<1>1. IInv => PlaylistsLive
  BY DEF IInv, DbOK, PlaylistsLive
<1> QED BY <1>1, Inductive, PTL

\* No write of an operator, of a cycle or of the trash task runs into the
\* foreign key of a song or into the unique index of an identity.
THEOREM KeysAlwaysHold == Spec => []KeysHold
<1>1. IInv => KeysHold
  BY DEF IInv, DbOK, SidsUnique, KeysHold
<1> QED BY <1>1, Inductive, PTL

\* No write moves the clock of a row back or changes a row without moving its
\* clock: the peer's older version never overwrites a newer edit, however late
\* its answer arrives, and no edit is invisible to the peer.
THEOREM RowsMoveForward == Spec => ChangesMoveForward
<1>1. IInv /\ [Next]_vars => [Forward]_vars
  BY StepIInv DEF DbAdvances
<1> QED BY <1>1, Inductive, PTL DEF Spec, ChangesMoveForward, Forward

-----------------------------------------------------------------------------
(* One version, one content.                                               *)
(*                                                                         *)
(* The answer to a fetch is read in two queries, so its slides may be      *)
(* newer than its clock.  Such an answer is harmless because the peer's    *)
(* clock has moved by then, and because nobody else can hold the version   *)
(* it claims to be.  The latter is what VersionInv is about: it rules out  *)
(* that the peer lost the song to an adoption and got that version back.   *)

Pulling(s) == pc[s] \in {"songs", "slides", "apply"}

\* What a cycle fetches was in the manifest, once; what it carries is the
\* answer to the entry it fetches.
ManifestOK(s) ==
  /\ got[s] # {} => pc[s] \in {"slides", "apply"}
  /\ Pulling(s) => \A e \in DOMAIN songTodo[s] : songTodo[s][e] \in peerIds[s]
  /\ \A e, f \in DOMAIN songTodo[s] : songTodo[s][e] = songTodo[s][f] => e = f
  /\ \A w, v \in got[s] : w = v
  /\ \A w \in got[s] : \E e \in DOMAIN songTodo[s] :
       IsFirst(e, songTodo[s]) /\ songTodo[s][e] = w.sid

\* Stored copies of one version have one content.
CopiesAgree(s) ==
  \A i \in DOMAIN song[s], k \in DOMAIN song[Peer[s]] :
    SameVersion(song[s][i], song[Peer[s]][k])
      => SameContent(song[s][i], song[Peer[s]][k])

\* An answer that still carries the peer's clock has the peer's content; while
\* its slides are not read, the row they will be read from is that row.
AnswerAgrees(s) ==
  \A w \in got[s], k \in DOMAIN song[Peer[s]] :
    SameVersion(w, song[Peer[s]][k]) =>
      /\ w.name = song[Peer[s]][k].name
      /\ IF pc[s] = "slides" THEN k = asked[s] ELSE w.text = song[Peer[s]][k].text

\* s holds the song of the answer w in that version or a newer one.
HeldAt(s, w) == \E i \in DOMAIN song[s] : /\ song[s][i].sid = w.sid
                                          /\ song[s][i].upd >= w.upd

\* Two sites that carry each other's answers of one version both have it.
AnswersMet(s) ==
  \A w \in got[s], v \in got[Peer[s]] : SameVersion(w, v) => HeldAt(s, w)

\* An answer of a version s has already is one the peer still has, or has
\* overtaken.
AnswerReturned(s) ==
  \A w \in got[s], i \in DOMAIN song[s] :
    SameVersion(w, song[s][i]) => HeldAt(Peer[s], w)

\* Rows i of s and k of its peer are copies of a song that was not in the
\* manifest s works on: nothing s does before its next cycle is about that song.
Unlisted(s, i, k) == /\ Pulling(s)
                     /\ song[s][i].sid \notin peerIds[s]
                     /\ song[Peer[s]][k].sid = song[s][i].sid

\* If the peer is about to pull an unlisted song, its version is another one.
UnlistedApart(s) ==
  \A i \in DOMAIN song[s], k \in DOMAIN song[Peer[s]] :
    LET q == Peer[s]
        x == song[s][i].sid IN
    Unlisted(s, i, k) =>
      /\ pc[q] = "manifest" /\ song[q][k].upd = song[s][i].upd =>
           \E j \in DOMAIN seen[q] : SameVersion(seen[q][j], song[q][k])
      /\ Pulling(q) /\ (\E e \in DOMAIN songTodo[q] : songTodo[q][e] = x) =>
           song[q][k].upd # song[s][i].upd
      /\ \A v \in got[q] : ~SameVersion(v, song[q][k])

VersionInv == \A s \in Site : /\ ManifestOK(s) /\ CopiesAgree(s)
                              /\ AnswerAgrees(s) /\ AnswersMet(s)
                              /\ AnswerReturned(s) /\ UnlistedApart(s)
                              /\ ~pruning[s]

\* The deployment: two instances that pull from each other.
TwoSites == \A s, t \in Site : t # s <=> t = Peer[s]

\* What the versions need of the state apart from VersionInv.
StateOK(s) ==
  /\ SidsUnique(song[s])
  /\ \A i \in DOMAIN song[s] : /\ song[s][i].sid \in Nat /\ song[s][i].upd \in Nat
                               /\ song[s][i].sid < clock /\ song[s][i].upd < clock
  /\ \A w \in got[s] : /\ w.sid \in Nat /\ w.upd \in Nat
                       /\ w.sid < clock /\ w.upd < clock
  /\ clock \in Nat

LEMMA StateIsOK ==
  ASSUME IInv, NEW s \in Site
  PROVE  StateOK(s)
<1>1. SidsUnique(song[s])
  BY DEF IInv, DbOK
<1>2. \A i \in DOMAIN song[s] : /\ song[s][i].sid \in Nat /\ song[s][i].upd \in Nat
                                /\ song[s][i].sid < clock /\ song[s][i].upd < clock
  BY Rows DEF SongRow
<1>3. \A w \in got[s] : /\ w.sid \in Nat /\ w.upd \in Nat
                        /\ w.sid < clock /\ w.upd < clock
  BY DEF IInv, TypeOK, CycleOK, WireSong
<1> QED BY <1>1, <1>2, <1>3 DEF StateOK, IInv, TypeOK

LEMMA PairUp ==
  ASSUME TwoSites, NEW s \in Site
  PROVE  /\ Peer[s] \in Site /\ Peer[Peer[s]] = s /\ Peer[s] # s
         /\ \A t \in Site : t = s \/ t = Peer[s]
BY PeerAssumption DEF TwoSites

VersionOK(s) == /\ ManifestOK(s) /\ CopiesAgree(s)
                /\ AnswerAgrees(s) /\ AnswersMet(s)
                /\ AnswerReturned(s) /\ UnlistedApart(s)

\* What a step does to t is nothing.
SameCycle(t) == /\ pc'[t] = pc[t] /\ seen'[t] = seen[t]
                /\ songTodo'[t] = songTodo[t] /\ peerIds'[t] = peerIds[t]
                /\ asked'[t] = asked[t] /\ got'[t] = got[t]

-----------------------------------------------------------------------------
(* Local writes and versions. *)

\* U is S after a local write at time `now': the rows it touched keep their
\* identity and carry that time, the rows it added are its own.
Stamped(S, U, now) ==
  /\ \A i \in DOMAIN S : /\ i \in DOMAIN U
                         /\ \/ U[i] = S[i]
                            \/ U[i].sid = S[i].sid /\ U[i].upd = now
  /\ \A i \in DOMAIN U : i \notin DOMAIN S => U[i].sid = now /\ U[i].upd = now

\* A local write makes a version of its own, so it can only end an agreement
\* that is about the version it replaces.
LEMMA StampKeepsVersions ==
  ASSUME TwoSites, NEW s \in Site, \A t \in Site : StateOK(t) /\ VersionOK(t),
         Stamped(song[s], song'[s], clock), song'[Peer[s]] = song[Peer[s]],
         \A t \in Site : SameCycle(t)
  PROVE  \A t \in Site : VersionOK(t)'
<1> DEFINE q == Peer[s]
<1>1. /\ q \in Site /\ Peer[q] = s /\ q # s
      /\ \A t \in Site : t = s \/ t = q
  BY PairUp
<1>2. /\ StateOK(s) /\ VersionOK(s) /\ StateOK(q) /\ VersionOK(q)
      /\ SameCycle(s) /\ SameCycle(q) /\ song'[q] = song[q]
  BY <1>1
<1> HIDE DEF q
<1>0. q = Peer[s]
  BY DEF q
<1>3. \A i \in DOMAIN song'[s] :
        \/ i \in DOMAIN song[s] /\ song'[s][i] = song[s][i]
        \/ /\ i \in DOMAIN song[s] /\ song'[s][i].sid = song[s][i].sid
           /\ song'[s][i].upd = clock
        \/ song'[s][i].sid = clock /\ song'[s][i].upd = clock
  BY DEF Stamped
<1>4. ASSUME NEW w, w.upd \in Nat, w.upd < clock, HeldAt(s, w)
      PROVE  \E i \in DOMAIN song'[s] : song'[s][i].sid = w.sid /\ song'[s][i].upd >= w.upd
  BY <1>2, <1>4 DEF HeldAt, Stamped, StateOK
<1>5. ManifestOK(s)' /\ ManifestOK(q)'
  BY <1>2 DEF VersionOK, ManifestOK, SameCycle, Pulling
<1>6. CopiesAgree(s)' /\ CopiesAgree(q)'
  BY <1>0, <1>1, <1>2, <1>3 DEF VersionOK, CopiesAgree, SameVersion, SameContent, StateOK
<1>7. AnswerAgrees(s)' /\ AnswerAgrees(q)'
  <2>1. AnswerAgrees(s)'
    BY <1>0, <1>2 DEF VersionOK, AnswerAgrees, SameVersion, SameCycle
  <2>2. AnswerAgrees(q)'
    BY <1>1, <1>2, <1>3 DEF VersionOK, AnswerAgrees, SameVersion, SameCycle, StateOK
  <2> QED BY <2>1, <2>2
<1>8. AnswersMet(s)' /\ AnswersMet(q)'
  <2>1. AnswersMet(s)'
    BY <1>0, <1>2, <1>4 DEF VersionOK, AnswersMet, SameVersion, SameCycle, StateOK, HeldAt
  <2>2. AnswersMet(q)'
    BY <1>1, <1>2 DEF VersionOK, AnswersMet, SameVersion, SameCycle, HeldAt
  <2> QED BY <2>1, <2>2
<1>9. AnswerReturned(s)' /\ AnswerReturned(q)'
  <2>1. AnswerReturned(s)'
    <3> SUFFICES ASSUME NEW w \in got[s], NEW i \in DOMAIN song'[s],
                        SameVersion(w, song'[s][i])
                 PROVE  HeldAt(q, w)'
      BY <1>0, <1>2 DEF AnswerReturned, SameCycle
    <3>1. i \in DOMAIN song[s] /\ song'[s][i] = song[s][i]
      BY <1>2, <1>3 DEF StateOK, SameVersion
    <3>2. HeldAt(q, w)
      BY <1>0, <1>2, <3>1 DEF VersionOK, AnswerReturned
    <3> QED BY <1>2, <3>2 DEF HeldAt
  <2>2. AnswerReturned(q)'
    <3> SUFFICES ASSUME NEW w \in got[q], NEW i \in DOMAIN song[q],
                        SameVersion(w, song[q][i])
                 PROVE  HeldAt(s, w)'
      BY <1>1, <1>2 DEF AnswerReturned, SameCycle
    <3>1. HeldAt(s, w)
      BY <1>1, <1>2 DEF VersionOK, AnswerReturned
    <3>2. w.upd \in Nat /\ w.upd < clock
      BY <1>2 DEF StateOK
    <3> QED BY <1>4, <3>1, <3>2 DEF HeldAt
  <2> QED BY <2>1, <2>2
<1>10. UnlistedApart(s)' /\ UnlistedApart(q)'
  <2>1. ASSUME NEW i \in DOMAIN song'[s], NEW k \in DOMAIN song[q],
               song'[s][i].sid = song[q][k].sid
        PROVE  /\ i \in DOMAIN song[s] /\ song'[s][i].sid = song[s][i].sid
               /\ \/ song'[s][i] = song[s][i]
                  \/ song'[s][i].upd = clock
    BY <1>2, <1>3, <2>1 DEF StateOK
  <2>2. UnlistedApart(s)'
    <3> SUFFICES ASSUME NEW i \in DOMAIN song'[s], NEW k \in DOMAIN song[q],
                        Unlisted(s, i, k)'
                 PROVE  /\ pc[q] = "manifest" /\ song[q][k].upd = song'[s][i].upd =>
                             \E j \in DOMAIN seen[q] : SameVersion(seen[q][j], song[q][k])
                        /\ Pulling(q) /\ (\E e \in DOMAIN songTodo[q] :
                                            songTodo[q][e] = song'[s][i].sid) =>
                             song[q][k].upd # song'[s][i].upd
                        /\ \A v \in got[q] : ~SameVersion(v, song[q][k])
      BY <1>0, <1>2 DEF UnlistedApart, SameCycle, Pulling, SameVersion
    <3>1. song'[s][i].sid = song[q][k].sid
      BY <1>0, <1>2 DEF Unlisted
    <3>2. /\ i \in DOMAIN song[s] /\ song'[s][i].sid = song[s][i].sid
          /\ song'[s][i] = song[s][i] \/ song'[s][i].upd = clock
      BY <2>1, <3>1
    <3>3. Unlisted(s, i, k)
      BY <1>0, <1>2, <3>2 DEF Unlisted, Pulling, SameCycle
    <3>4. song[q][k].upd \in Nat /\ song[q][k].upd < clock /\ clock \in Nat
      BY <1>2 DEF StateOK
    <3>5. /\ pc[q] = "manifest" /\ song[q][k].upd = song[s][i].upd =>
               \E j \in DOMAIN seen[q] : SameVersion(seen[q][j], song[q][k])
          /\ Pulling(q) /\ (\E e \in DOMAIN songTodo[q] :
                              songTodo[q][e] = song[s][i].sid) =>
               song[q][k].upd # song[s][i].upd
          /\ \A v \in got[q] : ~SameVersion(v, song[q][k])
      BY <1>0, <1>2, <3>2, <3>3 DEF VersionOK, UnlistedApart
    <3> QED BY <3>2, <3>4, <3>5
  <2>3. UnlistedApart(q)'
    <3> SUFFICES ASSUME NEW i \in DOMAIN song[q], NEW k \in DOMAIN song'[s],
                        Unlisted(q, i, k)'
                 PROVE  /\ pc[s] = "manifest" /\ song'[s][k].upd = song[q][i].upd =>
                             \E j \in DOMAIN seen[s] : SameVersion(seen[s][j], song'[s][k])
                        /\ Pulling(s) /\ (\E e \in DOMAIN songTodo[s] :
                                            songTodo[s][e] = song[q][i].sid) =>
                             song'[s][k].upd # song[q][i].upd
                        /\ \A v \in got[s] : ~SameVersion(v, song'[s][k])
      BY <1>1, <1>2 DEF UnlistedApart, SameCycle, Pulling, SameVersion
    <3>1. song'[s][k].sid = song[q][i].sid
      BY <1>1, <1>2 DEF Unlisted
    <3>2. /\ k \in DOMAIN song[s] /\ song'[s][k].sid = song[s][k].sid
          /\ song'[s][k] = song[s][k] \/ song'[s][k].upd = clock
      BY <2>1, <3>1
    <3>3. Unlisted(q, i, k)
      BY <1>1, <1>2, <3>2 DEF Unlisted, Pulling, SameCycle
    <3>4. /\ song[q][i].upd \in Nat /\ song[q][i].upd < clock /\ clock \in Nat
          /\ \A v \in got[s] : v.upd \in Nat /\ v.upd < clock
      BY <1>2 DEF StateOK
    <3>5. /\ pc[s] = "manifest" /\ song[s][k].upd = song[q][i].upd =>
               \E j \in DOMAIN seen[s] : SameVersion(seen[s][j], song[s][k])
          /\ Pulling(s) /\ (\E e \in DOMAIN songTodo[s] :
                              songTodo[s][e] = song[q][i].sid) =>
               song[s][k].upd # song[q][i].upd
          /\ \A v \in got[s] : ~SameVersion(v, song[s][k])
      BY <1>1, <1>2, <3>2, <3>3 DEF VersionOK, UnlistedApart
    <3> QED BY <3>2, <3>4, <3>5 DEF SameVersion
  <2> QED BY <2>2, <2>3
<1> QED BY <1>1, <1>5, <1>6, <1>7, <1>8, <1>9, <1>10 DEF VersionOK

-----------------------------------------------------------------------------
(* The cycle and versions. *)

\* A step that fetches nothing and writes nothing: the cycle of s goes on,
\* past some entries perhaps, or ends.
LEMMA CycleKeepsVersions ==
  ASSUME TwoSites, NEW s \in Site, \A t \in Site : VersionOK(t),
         \A t \in Site : song'[t] = song[t],
         \A t \in Site \ {s} : SameCycle(t),
         \/ got'[s] = {}
         \/ got'[s] = got[s] /\ asked'[s] = asked[s] /\ pc'[s] = pc[s]
            /\ songTodo'[s] = songTodo[s],
         \A e \in DOMAIN songTodo'[s] : e \in DOMAIN songTodo[s]
                                        /\ songTodo'[s][e] = songTodo[s][e],
         Pulling(s)' => Pulling(s) /\ peerIds'[s] = peerIds[s],
         pc'[s] = "manifest" => pc[s] = "manifest" /\ seen'[s] = seen[s]
  PROVE  \A t \in Site : VersionOK(t)'
<1> DEFINE q == Peer[s]
<1>1. /\ q \in Site /\ Peer[q] = s /\ q # s
      /\ \A t \in Site : t = s \/ t = q
  BY PairUp
<1>2. /\ VersionOK(s) /\ VersionOK(q) /\ SameCycle(q)
      /\ song'[s] = song[s] /\ song'[q] = song[q]
  BY <1>1
<1> HIDE DEF q
<1>0. q = Peer[s]
  BY DEF q
<1>3. ManifestOK(s)' /\ ManifestOK(q)'
  <2>1. ManifestOK(s)'
    BY <1>2 DEF VersionOK, ManifestOK, Pulling
  <2>2. ManifestOK(q)'
    BY <1>2 DEF VersionOK, ManifestOK, SameCycle, Pulling
  <2> QED BY <2>1, <2>2
<1>4. CopiesAgree(s)' /\ CopiesAgree(q)'
  BY <1>0, <1>1, <1>2 DEF VersionOK, CopiesAgree
<1>5. AnswerAgrees(s)' /\ AnswerAgrees(q)'
  BY <1>0, <1>1, <1>2 DEF VersionOK, AnswerAgrees, SameCycle
<1>6. AnswersMet(s)' /\ AnswersMet(q)'
  BY <1>0, <1>1, <1>2 DEF VersionOK, AnswersMet, SameCycle, HeldAt
<1>7. AnswerReturned(s)' /\ AnswerReturned(q)'
  BY <1>0, <1>1, <1>2 DEF VersionOK, AnswerReturned, SameCycle, HeldAt
<1>8. UnlistedApart(s)' /\ UnlistedApart(q)'
  <2>1. UnlistedApart(s)'
    BY <1>0, <1>1, <1>2 DEF VersionOK, UnlistedApart, Unlisted, SameCycle, Pulling
  <2>2. UnlistedApart(q)'
    BY <1>0, <1>1, <1>2 DEF VersionOK, UnlistedApart, Unlisted, SameCycle, Pulling
  <2> QED BY <2>1, <2>2
<1> QED BY <1>1, <1>3, <1>4, <1>5, <1>6, <1>7, <1>8 DEF VersionOK

\* The cycle of s reads its own clocks.
LEMMA ListKeepsVersions ==
  ASSUME TwoSites, NEW s \in Site, \A t \in Site : VersionOK(t),
         \A t \in Site : song'[t] = song[t],
         \A t \in Site \ {s} : SameCycle(t),
         pc[s] = "libraries", pc'[s] = "manifest", seen'[s] = song[s],
         songTodo'[s] = songTodo[s], got'[s] = got[s]
  PROVE  \A t \in Site : VersionOK(t)'
<1> DEFINE q == Peer[s]
<1>1. /\ q \in Site /\ Peer[q] = s /\ q # s
      /\ \A t \in Site : t = s \/ t = q
  BY PairUp
<1>2. /\ VersionOK(s) /\ VersionOK(q) /\ SameCycle(q)
      /\ song'[s] = song[s] /\ song'[q] = song[q]
  BY <1>1
<1> HIDE DEF q
<1>0. q = Peer[s]
  BY DEF q
<1>3. got[s] = {} /\ got'[s] = {}
  BY <1>2 DEF VersionOK, ManifestOK
<1>4. ManifestOK(s)' /\ ManifestOK(q)'
  BY <1>2, <1>3 DEF VersionOK, ManifestOK, Pulling, SameCycle
<1>5. CopiesAgree(s)' /\ CopiesAgree(q)'
  BY <1>0, <1>1, <1>2 DEF VersionOK, CopiesAgree
<1>6. AnswerAgrees(s)' /\ AnswerAgrees(q)'
  BY <1>0, <1>1, <1>2, <1>3 DEF VersionOK, AnswerAgrees, SameCycle
<1>7. AnswersMet(s)' /\ AnswersMet(q)'
  BY <1>0, <1>1, <1>2, <1>3 DEF VersionOK, AnswersMet, SameCycle, HeldAt
<1>8. AnswerReturned(s)' /\ AnswerReturned(q)'
  BY <1>0, <1>1, <1>2, <1>3 DEF VersionOK, AnswerReturned, SameCycle, HeldAt
<1>9. UnlistedApart(s)' /\ UnlistedApart(q)'
  BY <1>0, <1>1, <1>2, <1>3
     DEF VersionOK, UnlistedApart, Unlisted, SameCycle, SameVersion, Pulling
<1> QED BY <1>1, <1>4, <1>5, <1>6, <1>7, <1>8, <1>9 DEF VersionOK

\* The cycle of s takes from the manifest what passes the gate.
LEMMA ManifestKeepsVersions ==
  ASSUME TwoSites, NEW s \in Site, \A t \in Site : StateOK(t) /\ VersionOK(t),
         \A t \in Site : song'[t] = song[t],
         \A t \in Site \ {s} : SameCycle(t),
         pc[s] = "manifest", pc'[s] = "songs", got'[s] = got[s],
         \A e \in DOMAIN songTodo'[s] :
           /\ e \in DOMAIN song[Peer[s]]
           /\ songTodo'[s][e] = song[Peer[s]][e].sid
           /\ \A j \in DOMAIN seen[s] : seen[s][j].sid = song[Peer[s]][e].sid =>
                                          song[Peer[s]][e].upd > seen[s][j].upd,
         peerIds'[s] = {song[Peer[s]][i].sid : i \in DOMAIN song[Peer[s]]}
  PROVE  \A t \in Site : VersionOK(t)'
<1> DEFINE q == Peer[s]
<1>1. /\ q \in Site /\ Peer[q] = s /\ q # s
      /\ \A t \in Site : t = s \/ t = q
  BY PairUp
<1>2. /\ StateOK(s) /\ StateOK(q) /\ VersionOK(s) /\ VersionOK(q) /\ SameCycle(q)
      /\ song'[s] = song[s] /\ song'[q] = song[q]
  BY <1>1
<1>a. \A e \in DOMAIN songTodo'[s] :
           /\ e \in DOMAIN song[q]
           /\ songTodo'[s][e] = song[q][e].sid
           /\ \A j \in DOMAIN seen[s] : seen[s][j].sid = song[q][e].sid =>
                                          song[q][e].upd > seen[s][j].upd
  OBVIOUS
<1>b. peerIds'[s] = {song[q][i].sid : i \in DOMAIN song[q]}
  OBVIOUS
<1> HIDE DEF q
<1>0. q = Peer[s]
  BY DEF q
<1>3. got[s] = {} /\ got'[s] = {}
  BY <1>2 DEF VersionOK, ManifestOK
<1>4. ManifestOK(s)' /\ ManifestOK(q)'
  <2>1. ManifestOK(s)'
    BY <1>2, <1>3, <1>a, <1>b DEF ManifestOK, StateOK, SidsUnique
  <2>2. ManifestOK(q)'
    BY <1>2 DEF VersionOK, ManifestOK, Pulling, SameCycle
  <2> QED BY <2>1, <2>2
<1>5. CopiesAgree(s)' /\ CopiesAgree(q)'
  BY <1>0, <1>1, <1>2 DEF VersionOK, CopiesAgree
<1>6. AnswerAgrees(s)' /\ AnswerAgrees(q)'
  BY <1>0, <1>1, <1>2, <1>3 DEF VersionOK, AnswerAgrees, SameCycle
<1>7. AnswersMet(s)' /\ AnswersMet(q)'
  BY <1>0, <1>1, <1>2, <1>3 DEF VersionOK, AnswersMet, SameCycle, HeldAt
<1>8. AnswerReturned(s)' /\ AnswerReturned(q)'
  BY <1>0, <1>1, <1>2, <1>3 DEF VersionOK, AnswerReturned, SameCycle, HeldAt
<1>9. UnlistedApart(s)' /\ UnlistedApart(q)'
  <2>1. UnlistedApart(s)'
    BY <1>0, <1>2, <1>b DEF UnlistedApart, Unlisted
  <2>2. ASSUME NEW i \in DOMAIN song[q], NEW k \in DOMAIN song[s], Unlisted(q, i, k),
               NEW e \in DOMAIN songTodo'[s], songTodo'[s][e] = song[q][i].sid,
               song[s][k].upd = song[q][i].upd
        PROVE  FALSE
    <3>1. e = i
      BY <1>2, <1>a, <2>2 DEF StateOK, SidsUnique
    <3>2. song[s][k].sid = song[q][i].sid
      BY <1>1, <2>2 DEF Unlisted
    <3>3. PICK j \in DOMAIN seen[s] : SameVersion(seen[s][j], song[s][k])
      BY <1>1, <1>2, <2>2 DEF VersionOK, UnlistedApart
    <3>4. song[q][i].upd > song[q][i].upd
      BY <1>a, <2>2, <3>1, <3>2, <3>3 DEF SameVersion
    <3> QED BY <1>2, <3>4 DEF StateOK
  <2>3. UnlistedApart(q)'
    <3> SUFFICES ASSUME NEW i \in DOMAIN song[q], NEW k \in DOMAIN song[s],
                        Unlisted(q, i, k)
                 PROVE  ~\E e \in DOMAIN songTodo'[s] :
                           songTodo'[s][e] = song[q][i].sid /\ song[s][k].upd = song[q][i].upd
      BY <1>1, <1>2, <1>3
         DEF UnlistedApart, Unlisted, SameCycle, Pulling
    <3> QED BY <2>2
  <2> QED BY <2>1, <2>3
<1> QED BY <1>1, <1>4, <1>5, <1>6, <1>7, <1>8, <1>9 DEF VersionOK

\* The peer answers s with its row i.
LEMMA FetchKeepsVersions ==
  ASSUME TwoSites, NEW s \in Site, \A t \in Site : StateOK(t) /\ VersionOK(t),
         \A t \in Site : song'[t] = song[t],
         \A t \in Site \ {s} : SameCycle(t),
         pc[s] = "songs", pc'[s] = "slides",
         UNCHANGED <<seen, songTodo, peerIds>>,
         NEW i \in DOMAIN song[Peer[s]], NEW w, got'[s] = {w}, asked'[s] = i,
         SameVersion(w, song[Peer[s]][i]), w.name = song[Peer[s]][i].name,
         NEW e \in DOMAIN songTodo[s], IsFirst(e, songTodo[s]), songTodo[s][e] = w.sid
  PROVE  \A t \in Site : VersionOK(t)'
<1> DEFINE q == Peer[s]
<1>1. /\ q \in Site /\ Peer[q] = s /\ q # s
      /\ \A t \in Site : t = s \/ t = q
  BY PairUp
<1>2. /\ StateOK(s) /\ StateOK(q) /\ VersionOK(s) /\ VersionOK(q) /\ SameCycle(q)
      /\ song'[s] = song[s] /\ song'[q] = song[q]
      /\ i \in DOMAIN song[q] /\ w.sid = song[q][i].sid /\ w.upd = song[q][i].upd
      /\ w.name = song[q][i].name
  BY <1>1 DEF SameVersion
<1> HIDE DEF q
<1>0. q = Peer[s]
  BY DEF q
<1>3. ManifestOK(s)' /\ ManifestOK(q)'
  BY <1>2 DEF VersionOK, ManifestOK, Pulling, SameCycle
<1>4. CopiesAgree(s)' /\ CopiesAgree(q)'
  BY <1>0, <1>1, <1>2 DEF VersionOK, CopiesAgree
<1>5. AnswerAgrees(s)' /\ AnswerAgrees(q)'
  <2>1. AnswerAgrees(s)'
    BY <1>0, <1>2 DEF AnswerAgrees, SameVersion, StateOK, SidsUnique
  <2>2. AnswerAgrees(q)'
    BY <1>1, <1>2 DEF VersionOK, AnswerAgrees, SameCycle
  <2> QED BY <2>1, <2>2
<1>6. AnswersMet(s)' /\ AnswersMet(q)'
  <2>1. ASSUME NEW v \in got[q], SameVersion(w, v)
        PROVE  HeldAt(s, w)
    <3>1. SameVersion(v, song[q][i])
      BY <1>2, <2>1 DEF SameVersion
    <3>2. HeldAt(s, v)
      BY <1>1, <1>2, <3>1 DEF VersionOK, AnswerReturned
    <3> QED BY <2>1, <3>2 DEF HeldAt, SameVersion
  <2>2. ASSUME NEW v \in got[q], SameVersion(w, v)
        PROVE  HeldAt(q, v)
    <3>1. song[q][i].sid = v.sid /\ song[q][i].upd = v.upd
      BY <1>2, <2>2 DEF SameVersion
    <3>2. song[q][i].upd \in Nat
      BY <1>2 DEF StateOK
    <3> QED BY <1>2, <3>1, <3>2 DEF HeldAt
  <2> QED BY <1>0, <1>1, <1>2, <2>1, <2>2 DEF AnswersMet, SameCycle, SameVersion, HeldAt
<1>7. AnswerReturned(s)' /\ AnswerReturned(q)'
  <2>1. HeldAt(q, w)
    BY <1>2 DEF HeldAt, StateOK
  <2> QED BY <1>0, <1>1, <1>2, <2>1 DEF VersionOK, AnswerReturned, SameCycle, HeldAt
<1>8. UnlistedApart(s)' /\ UnlistedApart(q)'
  <2>1. UnlistedApart(s)'
    BY <1>0, <1>1, <1>2 DEF VersionOK, UnlistedApart, Unlisted, SameCycle, Pulling
  <2>2. ASSUME NEW j \in DOMAIN song[q], NEW k \in DOMAIN song[s], Unlisted(q, j, k)
        PROVE  ~SameVersion(w, song[s][k])
    <3> SUFFICES ASSUME SameVersion(w, song[s][k])
                 PROVE  FALSE
      OBVIOUS
    <3>1. song[s][k].sid = song[q][j].sid
      BY <1>1, <2>2 DEF Unlisted
    <3>2. j = i
      BY <1>2, <3>1 DEF SameVersion, StateOK, SidsUnique
    <3>3. song[s][k].upd # song[q][j].upd
      BY <1>1, <1>2, <2>2, <3>2 DEF VersionOK, UnlistedApart, Pulling
    <3> QED BY <1>2, <3>2, <3>3 DEF SameVersion
  <2>3. UnlistedApart(q)'
    BY <1>1, <1>2, <2>2 DEF VersionOK, UnlistedApart, Unlisted, SameCycle, Pulling
  <2> QED BY <2>1, <2>3
<1> QED BY <1>1, <1>3, <1>4, <1>5, <1>6, <1>7, <1>8 DEF VersionOK

\* The peer answers s with the slides of the row it asked for.
LEMMA SlidesKeepVersions ==
  ASSUME TwoSites, NEW s \in Site, \A t \in Site : VersionOK(t),
         \A t \in Site : song'[t] = song[t],
         \A t \in Site \ {s} : SameCycle(t),
         pc[s] = "slides", pc'[s] = "apply",
         UNCHANGED <<seen, songTodo, peerIds>>, NEW text,
         \A v \in got'[s] : \E w \in got[s] : v = [w EXCEPT !.text = text],
         got[s] \subseteq WireSong,
         asked[s] \in DOMAIN song[Peer[s]] => text = song[Peer[s]][asked[s]].text
  PROVE  \A t \in Site : VersionOK(t)'
<1> DEFINE q == Peer[s]
<1>1. /\ q \in Site /\ Peer[q] = s /\ q # s
      /\ \A t \in Site : t = s \/ t = q
  BY PairUp
<1>2. /\ VersionOK(s) /\ VersionOK(q) /\ SameCycle(q)
      /\ song'[s] = song[s] /\ song'[q] = song[q]
      /\ (asked[s] \in DOMAIN song[q] => text = song[q][asked[s]].text)
  BY <1>1
<1> HIDE DEF q
<1>0. q = Peer[s]
  BY DEF q
<1>3. \A v \in got'[s] : \E w \in got[s] :
        /\ v.sid = w.sid /\ v.upd = w.upd /\ v.name = w.name /\ v.text = text
        /\ v = [w EXCEPT !.text = text]
  BY DEF WireSong
<1>a. \A v \in got'[s] : \E w \in got[s] :
        v.sid = w.sid /\ v.upd = w.upd /\ v.name = w.name /\ v.text = text
  BY <1>3
<1>4. ManifestOK(s)' /\ ManifestOK(q)'
  <2>1. ManifestOK(s)'
    BY <1>2, <1>3 DEF VersionOK, ManifestOK, Pulling
  <2>2. ManifestOK(q)'
    BY <1>2 DEF VersionOK, ManifestOK, Pulling, SameCycle
  <2> QED BY <2>1, <2>2
<1>5. CopiesAgree(s)' /\ CopiesAgree(q)'
  BY <1>0, <1>1, <1>2 DEF VersionOK, CopiesAgree
<1>6. AnswerAgrees(s)' /\ AnswerAgrees(q)'
  <2>1. AnswerAgrees(s)'
    <3> SUFFICES ASSUME NEW v \in got'[s], NEW k \in DOMAIN song[q],
                        SameVersion(v, song[q][k])
                 PROVE  v.name = song[q][k].name /\ v.text = song[q][k].text
      BY <1>0, <1>2 DEF AnswerAgrees
    <3>1. PICK w \in got[s] : /\ v.sid = w.sid /\ v.upd = w.upd
                              /\ v.name = w.name /\ v.text = text
      BY <1>a
    <3>2. w.name = song[q][k].name /\ k = asked[s]
      BY <1>0, <1>2, <3>1 DEF VersionOK, AnswerAgrees, SameVersion
    <3> QED BY <1>2, <3>1, <3>2
  <2>2. AnswerAgrees(q)'
    BY <1>1, <1>2 DEF VersionOK, AnswerAgrees, SameCycle
  <2> QED BY <2>1, <2>2
<1>7. AnswersMet(s)' /\ AnswersMet(q)'
  <2>1. AnswersMet(s)'
    BY <1>0, <1>1, <1>2, <1>a DEF VersionOK, AnswersMet, SameCycle, HeldAt, SameVersion
  <2>2. AnswersMet(q)'
    BY <1>0, <1>1, <1>2, <1>a DEF VersionOK, AnswersMet, SameCycle, HeldAt, SameVersion
  <2> QED BY <2>1, <2>2
<1>8. AnswerReturned(s)' /\ AnswerReturned(q)'
  BY <1>0, <1>1, <1>2, <1>a DEF VersionOK, AnswerReturned, SameCycle, HeldAt, SameVersion
<1>9. UnlistedApart(s)' /\ UnlistedApart(q)'
  <2>1. UnlistedApart(s)'
    BY <1>0, <1>1, <1>2 DEF VersionOK, UnlistedApart, Unlisted, SameCycle, Pulling
  <2>2. UnlistedApart(q)'
    BY <1>1, <1>2, <1>a
       DEF VersionOK, UnlistedApart, Unlisted, SameCycle, SameVersion, Pulling
  <2> QED BY <2>1, <2>2
<1> QED BY <1>1, <1>4, <1>5, <1>6, <1>7, <1>8, <1>9 DEF VersionOK

\* s writes the answer w over its row i, or as its row i: what the row was
\* before is an older version of the song, or a song the manifest did not list.
LEMMA WriteKeepsVersions ==
  ASSUME TwoSites, NEW s \in Site, \A t \in Site : StateOK(t) /\ VersionOK(t),
         song'[Peer[s]] = song[Peer[s]], \A t \in Site \ {s} : SameCycle(t),
         pc[s] = "apply", pc'[s] = "songs", got'[s] = {},
         UNCHANGED <<seen, peerIds>>,
         \A e \in DOMAIN songTodo'[s] :
           /\ e \in DOMAIN songTodo[s] /\ songTodo'[s][e] = songTodo[s][e]
           /\ ~IsFirst(e, songTodo[s]),
         NEW w \in got[s], NEW i,
         i \in DOMAIN song'[s], SameVersion(song'[s][i], w),
         SameContent(song'[s][i], w),
         \A k \in DOMAIN song'[s] : k # i => k \in DOMAIN song[s] /\ song'[s][k] = song[s][k],
         \A k \in DOMAIN song[s] : k \in DOMAIN song'[s],
         \A k \in DOMAIN song[s] : song[s][k].sid = w.sid => k = i,
         i \in DOMAIN song[s] => /\ song[s][i].upd < w.upd
                                 /\ \/ song[s][i].sid = w.sid
                                    \/ song[s][i].sid \notin peerIds[s]
  PROVE  \A t \in Site : VersionOK(t)'
<1> DEFINE q == Peer[s]
<1>1. /\ q \in Site /\ Peer[q] = s /\ q # s
      /\ \A t \in Site : t = s \/ t = q
  BY PairUp
<1>2. /\ StateOK(s) /\ StateOK(q) /\ VersionOK(s) /\ VersionOK(q) /\ SameCycle(q)
      /\ song'[q] = song[q]
  BY <1>1
<1> HIDE DEF q
<1>0. q = Peer[s]
  BY DEF q
<1>3. \A k \in DOMAIN song'[s] :
        \/ k = i /\ song'[s][k].sid = w.sid /\ song'[s][k].upd = w.upd
           /\ song'[s][k].name = w.name /\ song'[s][k].text = w.text
        \/ k \in DOMAIN song[s] /\ song'[s][k] = song[s][k] /\ k # i
  BY DEF SameVersion, SameContent
<1>4. ~HeldAt(s, w)
  BY <1>2 DEF HeldAt, StateOK
<1>5. w.sid \in peerIds[s] /\ \A e \in DOMAIN songTodo'[s] : songTodo'[s][e] # w.sid
  BY <1>2 DEF VersionOK, ManifestOK, Pulling
<1>6. ManifestOK(s)' /\ ManifestOK(q)'
  <2>1. ManifestOK(s)'
    BY <1>2 DEF VersionOK, ManifestOK, Pulling
  <2>2. ManifestOK(q)'
    BY <1>2 DEF VersionOK, ManifestOK, Pulling, SameCycle
  <2> QED BY <2>1, <2>2
<1>7. CopiesAgree(s)' /\ CopiesAgree(q)'
  <2>1. ASSUME NEW k \in DOMAIN song'[s], NEW j \in DOMAIN song[q],
               song'[s][k].sid = song[q][j].sid, song'[s][k].upd = song[q][j].upd
        PROVE  /\ song'[s][k].name = song[q][j].name
               /\ song'[s][k].text = song[q][j].text
    <3>1. CASE k = i
      BY <1>0, <1>2, <1>3, <2>1, <3>1 DEF VersionOK, AnswerAgrees, SameVersion
    <3>2. CASE k # i
      BY <1>0, <1>2, <1>3, <2>1, <3>2 DEF VersionOK, CopiesAgree, SameVersion, SameContent
    <3> QED BY <3>1, <3>2
  <2> QED BY <1>0, <1>1, <1>2, <2>1 DEF CopiesAgree, SameVersion, SameContent
<1>8. AnswerAgrees(s)' /\ AnswerAgrees(q)'
  <2>1. ASSUME NEW v \in got[q], SameVersion(v, w)
        PROVE  FALSE
    BY <1>0, <1>2, <1>4, <2>1 DEF VersionOK, AnswersMet, SameVersion
  <2>2. AnswerAgrees(q)'
    BY <1>1, <1>2, <1>3, <2>1 DEF VersionOK, AnswerAgrees, SameCycle, SameVersion
  <2> QED BY <2>2 DEF AnswerAgrees
<1>9. AnswersMet(s)' /\ AnswersMet(q)'
  BY <1>1 DEF AnswersMet
<1>10. AnswerReturned(s)' /\ AnswerReturned(q)'
  <2> SUFFICES ASSUME NEW v \in got[q], NEW j \in DOMAIN song[q],
                      SameVersion(v, song[q][j])
               PROVE  \E k \in DOMAIN song'[s] : /\ song'[s][k].sid = v.sid
                                                 /\ song'[s][k].upd >= v.upd
    BY <1>1, <1>2 DEF AnswerReturned, SameCycle, HeldAt
  <2>1. PICK k \in DOMAIN song[s] : song[s][k].sid = v.sid /\ song[s][k].upd >= v.upd
    BY <1>1, <1>2 DEF VersionOK, AnswerReturned, HeldAt
  <2>2. CASE k # i
    BY <2>1, <2>2
  <2>3. CASE k = i /\ song[s][i].sid = w.sid
    BY <1>2, <2>1, <2>3 DEF StateOK, SameVersion
  <2>4. CASE k = i /\ song[s][i].sid \notin peerIds[s]
    <3>1. Unlisted(s, i, j)
      BY <1>0, <2>1, <2>4 DEF Unlisted, Pulling, SameVersion
    <3> QED BY <1>0, <1>2, <2>1, <2>4, <3>1 DEF VersionOK, UnlistedApart
  <2> QED BY <2>1, <2>2, <2>3, <2>4
<1>11. UnlistedApart(s)' /\ UnlistedApart(q)'
  <2>1. UnlistedApart(s)'
    <3> SUFFICES ASSUME NEW k \in DOMAIN song'[s], NEW j \in DOMAIN song[q],
                        song'[s][k].sid \notin peerIds[s],
                        song[q][j].sid = song'[s][k].sid
                 PROVE  /\ k \in DOMAIN song[s] /\ song'[s][k] = song[s][k]
                        /\ Unlisted(s, k, j)
      BY <1>0, <1>2 DEF VersionOK, UnlistedApart, Unlisted, SameCycle, Pulling
    <3>1. k # i
      BY <1>3, <1>5
    <3>2. k \in DOMAIN song[s] /\ song'[s][k] = song[s][k]
      BY <1>3, <3>1
    <3> QED BY <1>0, <3>2 DEF Unlisted, Pulling
  <2>2. UnlistedApart(q)'
    <3> SUFFICES ASSUME NEW j \in DOMAIN song[q], NEW k \in DOMAIN song'[s],
                        Pulling(q), song[q][j].sid \notin peerIds[q],
                        song'[s][k].sid = song[q][j].sid,
                        \E e \in DOMAIN songTodo'[s] : songTodo'[s][e] = song[q][j].sid
                 PROVE  song'[s][k].upd # song[q][j].upd
      BY <1>1, <1>2 DEF UnlistedApart, Unlisted, SameCycle, Pulling
    <3>1. k # i
      BY <1>3, <1>5
    <3>2. k \in DOMAIN song[s] /\ song'[s][k] = song[s][k]
      BY <1>3, <3>1
    <3>3. Unlisted(q, j, k)
      BY <1>1, <3>2 DEF Unlisted
    <3> QED BY <1>1, <1>2, <3>2, <3>3 DEF VersionOK, UnlistedApart, Pulling
  <2> QED BY <2>1, <2>2
<1> QED BY <1>1, <1>6, <1>7, <1>8, <1>9, <1>10, <1>11 DEF VersionOK

-----------------------------------------------------------------------------
(* Every step is one of those. *)

\* A local operation stamps what it writes, as long as nothing is pruned.
LEMMA LocalStepStamps ==
  ASSUME IInv, NEW s \in Site, LocalStep(s), "prune" \notin Ops, ~pruning[s]
  PROVE  /\ Stamped(song[s], song'[s], clock)
         /\ \A t \in Site \ {s} : song'[t] = song[t]
         /\ UNCHANGED <<cycle, pruning>>
<1>1. DOMAIN song = Site
  BY DEF IInv, TypeOK, Tables
<1>2. ASSUME NEW i, NEW r, SetSong(s, Put(song[s], i, r)), r.upd = clock,
             IF i \in DOMAIN song[s] THEN r.sid = song[s][i].sid ELSE r.sid = clock
      PROVE  /\ Stamped(song[s], song'[s], clock)
             /\ \A t \in Site \ {s} : song'[t] = song[t]
  <2>1. song'[s] = Put(song[s], i, r) /\ \A t \in Site \ {s} : song'[t] = song[t]
    BY <1>1, <1>2 DEF SetSong
  <2>2. /\ DOMAIN song'[s] = DOMAIN song[s] \cup {i} /\ song'[s][i] = r
        /\ \A k \in DOMAIN song[s] : k # i => song'[s][k] = song[s][k]
    BY <2>1 DEF Put
  <2>3. Stamped(song[s], song'[s], clock)
    BY <1>2, <2>2 DEF Stamped
  <2> QED BY <2>1, <2>3
<1>3. ASSUME UNCHANGED song
      PROVE  /\ Stamped(song[s], song'[s], clock)
             /\ \A t \in Site \ {s} : song'[t] = song[t]
  BY <1>3 DEF Stamped
<1>4. \A i \in DOMAIN song[s] : song[s][i] \in SongRow
  BY Rows
<1>5. ASSUME NEW b \in LibBase, CreateLibrary(s, b)
      PROVE  UNCHANGED <<song, cycle, pruning>>
  BY <1>5 DEF CreateLibrary, Operate
<1>6. ASSUME NEW l \in DOMAIN lib[s], NEW b \in LibBase, RenameLibrary(s, l, b)
      PROVE  UNCHANGED <<song, cycle, pruning>>
  BY <1>6 DEF RenameLibrary, Operate
<1>7. ASSUME NEW l \in DOMAIN lib[s], DeleteLibrary(s, l)
      PROVE  /\ Stamped(song[s], song'[s], clock)
             /\ \A t \in Site \ {s} : song'[t] = song[t]
             /\ UNCHANGED <<cycle, pruning>>
  <2> DEFINE U == TrashCascade(s, l)
  <2>1. /\ song'[s] = U /\ \A t \in Site \ {s} : song'[t] = song[t]
        /\ UNCHANGED <<cycle, pruning>>
    BY <1>1, <1>7 DEF DeleteLibrary, SetSong, Operate
  <2>2. DOMAIN U = DOMAIN song[s]
    BY DEF TrashCascade
  <2>3. \A i \in DOMAIN song[s] : \/ U[i] = song[s][i]
                                  \/ U[i].sid = song[s][i].sid /\ U[i].upd = clock
    BY <1>4 DEF TrashCascade, SongRow
  <2> HIDE DEF U
  <2> QED BY <2>1, <2>2, <2>3 DEF Stamped
<1>8. ASSUME NEW l \in DOMAIN lib[s], RestoreLibrary(s, l)
      PROVE  /\ Stamped(song[s], song'[s], clock)
             /\ \A t \in Site \ {s} : song'[t] = song[t]
             /\ UNCHANGED <<cycle, pruning>>
  <2> DEFINE U == [i \in DOMAIN song[s] |->
                     IF i \in Cascaded(s, l)
                     THEN [song[s][i] EXCEPT !.del = NULL, !.upd = clock]
                     ELSE song[s][i]]
  <2>1. /\ song'[s] = U /\ \A t \in Site \ {s} : song'[t] = song[t]
        /\ UNCHANGED <<cycle, pruning>>
    BY <1>1, <1>8 DEF RestoreLibrary, SetSong, Operate
  <2>2. DOMAIN U = DOMAIN song[s]
    OBVIOUS
  <2>3. \A i \in DOMAIN song[s] : \/ U[i] = song[s][i]
                                  \/ U[i].sid = song[s][i].sid /\ U[i].upd = clock
    BY <1>4 DEF SongRow
  <2> HIDE DEF U
  <2> QED BY <2>1, <2>2, <2>3 DEF Stamped
<1>9. ASSUME NEW l \in DOMAIN lib[s], NEW n \in SongName, CreateSong(s, l, n)
      PROVE  /\ Stamped(song[s], song'[s], clock)
             /\ \A t \in Site \ {s} : song'[t] = song[t]
             /\ UNCHANGED <<cycle, pruning>>
  <2> DEFINE r == [sid |-> clock, lib |-> l, name |-> n, text |-> clock,
                   upd |-> clock, del |-> NULL]
  <2>1. PICK i \in Id : IsNext(i, song[s]) /\ SetSong(s, Put(song[s], i, r))
    BY <1>9 DEF CreateSong
  <2>2. i \notin DOMAIN song[s] /\ r.sid = clock /\ r.upd = clock
    BY <2>1, NextIsNew
  <2> HIDE DEF r
  <2> QED BY <1>2, <1>9, <2>1, <2>2 DEF CreateSong, Operate
<1>10. ASSUME NEW i \in DOMAIN song[s], NEW l \in DOMAIN lib[s], CopySong(s, i, l)
       PROVE  /\ Stamped(song[s], song'[s], clock)
              /\ \A t \in Site \ {s} : song'[t] = song[t]
              /\ UNCHANGED <<cycle, pruning>>
  <2> DEFINE r == [song[s][i] EXCEPT !.sid = clock, !.lib = l, !.upd = clock]
  <2>1. PICK k \in Id : IsNext(k, song[s]) /\ SetSong(s, Put(song[s], k, r))
    BY <1>10 DEF CopySong
  <2>2. k \notin DOMAIN song[s] /\ r.sid = clock /\ r.upd = clock
    BY <1>4, <2>1, NextIsNew DEF SongRow
  <2> HIDE DEF r
  <2> QED BY <1>2, <1>10, <2>1, <2>2 DEF CopySong, Operate
<1>11. ASSUME NEW i \in DOMAIN song[s], NEW n \in SongName, RenameSong(s, i, n)
       PROVE  /\ Stamped(song[s], song'[s], clock)
              /\ \A t \in Site \ {s} : song'[t] = song[t]
              /\ UNCHANGED <<cycle, pruning>>
  <2> DEFINE r == [song[s][i] EXCEPT !.name = n, !.upd = clock]
  <2>1. r.sid = song[s][i].sid /\ r.upd = clock
    BY <1>4 DEF SongRow
  <2>2. SetSong(s, Put(song[s], i, r)) /\ UNCHANGED <<cycle, pruning>>
    BY <1>11 DEF RenameSong, Operate
  <2> HIDE DEF r
  <2> QED BY <1>2, <2>1, <2>2
<1>12. ASSUME NEW i \in DOMAIN song[s], EditSong(s, i)
       PROVE  /\ Stamped(song[s], song'[s], clock)
              /\ \A t \in Site \ {s} : song'[t] = song[t]
              /\ UNCHANGED <<cycle, pruning>>
  <2> DEFINE r == [song[s][i] EXCEPT !.text = clock, !.upd = clock]
  <2>1. r.sid = song[s][i].sid /\ r.upd = clock
    BY <1>4 DEF SongRow
  <2>2. SetSong(s, Put(song[s], i, r)) /\ UNCHANGED <<cycle, pruning>>
    BY <1>12 DEF EditSong, Operate
  <2> HIDE DEF r
  <2> QED BY <1>2, <2>1, <2>2
<1>13. ASSUME NEW i \in DOMAIN song[s], DeleteSong(s, i)
       PROVE  /\ Stamped(song[s], song'[s], clock)
              /\ \A t \in Site \ {s} : song'[t] = song[t]
              /\ UNCHANGED <<cycle, pruning>>
  <2> DEFINE r == [song[s][i] EXCEPT !.del = clock, !.upd = clock]
  <2>1. r.sid = song[s][i].sid /\ r.upd = clock
    BY <1>4 DEF SongRow
  <2>2. SetSong(s, Put(song[s], i, r)) /\ UNCHANGED <<cycle, pruning>>
    BY <1>13 DEF DeleteSong, Operate
  <2> HIDE DEF r
  <2> QED BY <1>2, <2>1, <2>2
<1>14. ASSUME NEW i \in DOMAIN song[s], RestoreSong(s, i)
       PROVE  /\ Stamped(song[s], song'[s], clock)
              /\ \A t \in Site \ {s} : song'[t] = song[t]
              /\ UNCHANGED <<cycle, pruning>>
  <2> DEFINE r == [song[s][i] EXCEPT !.del = NULL, !.upd = clock]
  <2>1. r.sid = song[s][i].sid /\ r.upd = clock
    BY <1>4 DEF SongRow
  <2>2. SetSong(s, Put(song[s], i, r)) /\ UNCHANGED <<cycle, pruning>>
    BY <1>14 DEF RestoreSong, Operate
  <2> HIDE DEF r
  <2> QED BY <1>2, <2>1, <2>2
<1>15. ASSUME NEW I \in SUBSET DOMAIN song[s], ReplacePlaylist(s, I)
       PROVE  UNCHANGED <<song, cycle, pruning>>
  BY <1>15 DEF ReplacePlaylist
<1>16. ~PruneSongs(s) /\ ~PruneLibraries(s)
  BY DEF PruneSongs, PruneLibraries
<1> QED BY <1>3, <1>5, <1>6, <1>7, <1>8, <1>9, <1>10, <1>11, <1>12, <1>13, <1>14,
           <1>15, <1>16 DEF LocalStep

\* An entry is passed over.
LEMMA PassOverKeepsVersions ==
  ASSUME TwoSites, IInv, \A t \in Site : VersionOK(t), NEW s \in Site,
         NEW e, NextEntry(s, e), UNCHANGED <<song, pc, seen, peerIds, asked, got>>,
         songTodo' = [songTodo EXCEPT ![s] = Without(@, {e})]
  PROVE  \A t \in Site : VersionOK(t)'
<1>1. IsTable(songTodo[s], Nat) /\ DOMAIN songTodo = Site
  BY DEF IInv, TypeOK, Tables
<1>2. /\ songTodo'[s] = Without(songTodo[s], {e})
      /\ \A t \in Site \ {s} : songTodo'[t] = songTodo[t]
  BY <1>1
<1>3. \A f \in DOMAIN songTodo'[s] : f \in DOMAIN songTodo[s]
                                     /\ songTodo'[s][f] = songTodo[s][f]
  BY <1>2 DEF Without, Restrict
<1>4. got'[s] = {}
  BY DEF VersionOK, ManifestOK, NextEntry
<1>5. /\ Pulling(s)' => Pulling(s) /\ peerIds'[s] = peerIds[s]
      /\ pc'[s] # "manifest"
  BY DEF Pulling, NextEntry
<1>6. \A t \in Site \ {s} : SameCycle(t)
  BY <1>2 DEF SameCycle
<1> QED BY <1>3, <1>4, <1>5, <1>6, CycleKeepsVersions

\* A cycle is over.
LEMMA EndKeepsVersions ==
  ASSUME TwoSites, IInv, \A t \in Site : VersionOK(t), NEW s \in Site,
         UNCHANGED song, EmptyCycle(s), pc' = [pc EXCEPT ![s] = "idle"]
  PROVE  \A t \in Site : VersionOK(t)'
<1>1. /\ got'[s] = {} /\ songTodo'[s] = EmptyTable /\ pc'[s] = "idle"
      /\ \A t \in Site \ {s} : SameCycle(t)
  BY DEF EmptyCycle, IInv, TypeOK, Tables, SameCycle
<1>2. DOMAIN songTodo'[s] = {}
  BY <1>1 DEF EmptyTable
<1>3. ~Pulling(s)'
  BY <1>1 DEF Pulling
<1> QED BY <1>1, <1>2, <1>3, CycleKeepsVersions

VInv == IInv /\ VersionInv

\* What an answer becomes: nothing, or a row of s that was older or unlisted.
LEMMA ApplySongKeepsVersions ==
  ASSUME TwoSites, VInv, NEW s \in Site, ApplySong(s)
  PROVE  \A t \in Site : VersionOK(t)'
<1>1. PICK w \in got[s] :
        \/ \E i \in DOMAIN song[s] : UpdateSong(s, w, i)
        \/ \E i \in DOMAIN song[s] : AdoptSong(s, w, i)
        \/ \E i \in Id : ImportSong(s, w, i)
        \/ SkipSong(s, w)
        \/ RefuseSong(s, w)
  BY DEF ApplySong
<1>2. /\ \A t \in Site : StateOK(t) /\ VersionOK(t)
      /\ DOMAIN song = Site /\ Tables(songTodo, Nat) /\ pc \in [Site -> StepName]
      /\ got \in [Site -> SUBSET WireSong] /\ w \in WireSong
  BY StateIsOK DEF VInv, VersionInv, VersionOK, IInv, TypeOK, Tables
<1>3. /\ \A t \in Site \ {s} : SameCycle(t)
      /\ pc[s] = "apply" /\ pc'[s] = "songs" /\ got'[s] = {}
      /\ UNCHANGED <<seen, peerIds, asked>>
      /\ \A e \in DOMAIN songTodo'[s] :
           /\ e \in DOMAIN songTodo[s] /\ songTodo'[s][e] = songTodo[s][e]
           /\ ~IsFirst(e, songTodo[s])
  <2> DEFINE first == {e \in DOMAIN songTodo[s] : IsFirst(e, songTodo[s])}
  <2>1. songTodo' = [songTodo EXCEPT ![s] = Without(songTodo[s], first)]
    BY DEF ApplySong
  <2>2. IsTable(songTodo[s], Nat)
    BY <1>2 DEF Tables
  <2>3. /\ DOMAIN Without(songTodo[s], first) = DOMAIN songTodo[s] \ first
        /\ \A k \in DOMAIN songTodo[s] \ first :
             Without(songTodo[s], first)[k] = songTodo[s][k]
    BY DEF Without, Restrict
  <2>4. /\ songTodo'[s] = Without(songTodo[s], first)
        /\ \A t \in Site \ {s} : songTodo'[t] = songTodo[t]
    BY <1>2, <2>1 DEF Tables
  <2>5. \A e \in DOMAIN songTodo'[s] :
           /\ e \in DOMAIN songTodo[s] /\ songTodo'[s][e] = songTodo[s][e]
           /\ ~IsFirst(e, songTodo[s])
    BY <2>3, <2>4
  <2> QED BY <1>2, <2>4, <2>5 DEF ApplySong, SameCycle, Goto, Tables
<1>4. ASSUME NEW i \in Id, NEW p, WriteSong(s, i, w, p),
             BySid(song[s], w.sid) \subseteq {i},
             i \in DOMAIN song[s] => /\ w.upd > song[s][i].upd
                                     /\ \/ song[s][i].sid = w.sid
                                        \/ song[s][i].sid \notin peerIds[s]
      PROVE  \A t \in Site : VersionOK(t)'
  <2> DEFINE r == SyncedRow(w, p)
  <2>1. SameVersion(r, w) /\ SameContent(r, w)
    BY DEF SyncedRow, SameVersion, SameContent
  <2>2. song'[s] = Put(song[s], i, r) /\ \A t \in Site \ {s} : song'[t] = song[t]
    BY <1>2, <1>4 DEF WriteSong, SetSong
  <2> HIDE DEF r
  <2>a. /\ DOMAIN song'[s] = DOMAIN song[s] \cup {i} /\ song'[s][i] = r
        /\ \A k \in DOMAIN song[s] : k # i => song'[s][k] = song[s][k]
    BY <2>2 DEF Put
  <2>3. /\ i \in DOMAIN song'[s] /\ song'[s][i] = r
        /\ \A k \in DOMAIN song'[s] : k # i => k \in DOMAIN song[s] /\ song'[s][k] = song[s][k]
        /\ \A k \in DOMAIN song[s] : k \in DOMAIN song'[s]
    BY <2>a
  <2>4. \A k \in DOMAIN song[s] : song[s][k].sid = w.sid => k = i
    BY <1>4 DEF BySid
  <2>5. song'[Peer[s]] = song[Peer[s]]
    BY <2>2, PairUp
  <2>6. i \in DOMAIN song[s] => /\ song[s][i].upd < w.upd
                                /\ \/ song[s][i].sid = w.sid
                                   \/ song[s][i].sid \notin peerIds[s]
    BY <1>2, <1>4 DEF StateOK, WireSong
  <2> QED BY <1>2, <1>3, <2>1, <2>3, <2>4, <2>5, <2>6, WriteKeepsVersions
<1>5. ASSUME NEW i \in DOMAIN song[s], UpdateSong(s, w, i)
      PROVE  \A t \in Site : VersionOK(t)'
  <2>1. PICK new \in Id : WriteSong(s, i, w, PlaceKnown(s, w, i, new))
    BY <1>5 DEF UpdateSong
  <2>2. song[s][i].sid = w.sid /\ w.upd > song[s][i].upd /\ i \in Id
    BY <1>5, Rows DEF UpdateSong, BySid, VInv
  <2>3. BySid(song[s], w.sid) \subseteq {i}
    BY <1>2, <2>2 DEF BySid, StateOK, SidsUnique
  <2> QED BY <1>4, <2>1, <2>2, <2>3
<1>6. ASSUME NEW i \in DOMAIN song[s], AdoptSong(s, w, i)
      PROVE  \A t \in Site : VersionOK(t)'
  <2>1. /\ BySid(song[s], w.sid) \subseteq {i} /\ w.upd > song[s][i].upd
        /\ WriteSong(s, i, w, Placement(lib[s], song[s][i].lib, NULL, FALSE))
    BY <1>6 DEF AdoptSong
  <2>2. song[s][i].sid \notin peerIds[s]
    BY <1>6 DEF AdoptSong, Adoptable
  <2>3. i \in Id
    BY Rows DEF VInv
  <2> QED BY <1>4, <2>1, <2>2, <2>3
<1>7. ASSUME NEW i \in Id, ImportSong(s, w, i)
      PROVE  \A t \in Site : VersionOK(t)'
  <2>1. PICK new \in Id : WriteSong(s, i, w, EnsureLibrary(lib[s], w, new, clock))
    BY <1>7 DEF ImportSong
  <2>2. BySid(song[s], w.sid) \subseteq {i} /\ i \notin DOMAIN song[s]
    BY <1>7, NextIsNew DEF ImportSong
  <2> QED BY <1>4, <2>1, <2>2
<1>8. ASSUME SkipSong(s, w) \/ RefuseSong(s, w)
      PROVE  \A t \in Site : VersionOK(t)'
  <2>1. song' = song
    BY <1>8 DEF SkipSong, RefuseSong, db
  <2>2. Pulling(s) /\ peerIds'[s] = peerIds[s] /\ pc'[s] # "manifest"
    BY <1>3 DEF Pulling
  <2> QED BY <1>2, <1>3, <2>1, <2>2, CycleKeepsVersions
<1> QED BY <1>1, <1>5, <1>6, <1>7, <1>8

LEMMA CycleStepKeepsVersions ==
  ASSUME TwoSites, VInv, NEW s \in Site, CycleStep(s)
  PROVE  \A t \in Site : VersionOK(t)'
<1>1. /\ \A t \in Site : StateOK(t) /\ VersionOK(t)
      /\ Tables(song, SongRow) /\ Tables(songTodo, Nat) /\ Tables(seen, SongRow)
      /\ pc \in [Site -> StepName] /\ got \in [Site -> SUBSET WireSong]
      /\ peerIds \in [Site -> SUBSET Nat] /\ asked \in [Site -> Id \cup {NULL}]
  BY StateIsOK DEF VInv, VersionInv, VersionOK, IInv, TypeOK
<1>2. CASE FetchLibraries(s) \/ ApplyLibrary(s)
  <2>1. /\ UNCHANGED <<song, seen, songTodo, peerIds, asked, got>>
        /\ \A t \in Site \ {s} : SameCycle(t)
        /\ \/ pc'[s] = pc[s]
           \/ got[s] = {} /\ pc'[s] = "libraries"
    BY <1>1, <1>2 DEF FetchLibraries, ApplyLibrary, TakeLibrary, Goto, db, SameCycle,
       Idle, VersionOK, ManifestOK
  <2>2. /\ Pulling(s)' => Pulling(s) /\ peerIds'[s] = peerIds[s]
        /\ pc'[s] = "manifest" => pc[s] = "manifest" /\ seen'[s] = seen[s]
    BY <2>1 DEF Pulling
  <2> QED BY <1>1, <2>1, <2>2, CycleKeepsVersions
<1>3. CASE ListSongs(s)
  <2>1. /\ UNCHANGED <<song, songTodo, got>> /\ \A t \in Site \ {s} : SameCycle(t)
        /\ pc[s] = "libraries" /\ pc'[s] = "manifest" /\ seen'[s] = song[s]
    BY <1>1, <1>3 DEF ListSongs, Goto, db, SameCycle, Tables
  <2> QED BY <1>1, <2>1, ListKeepsVersions
<1>4. CASE FetchManifest(s)
  <2> DEFINE S == song[Peer[s]]
             newer == {i \in DOMAIN S :
                         ShouldApply(S[i].upd, S[i].del,
                                     UpdOf(seen[s], BySid(seen[s], S[i].sid)), clock)}
  <2>1. \A e \in newer : \A j \in DOMAIN seen[s] : seen[s][j].sid = S[e].sid =>
                                                     S[e].upd > seen[s][j].upd
    BY DEF ShouldApply, UpdOf, BySid
  <2>2. songTodo' = [songTodo EXCEPT ![s] = [i \in newer |-> S[i].sid]]
        /\ peerIds' = [peerIds EXCEPT ![s] = {S[i].sid : i \in DOMAIN S}]
    BY <1>4 DEF FetchManifest
  <2>3. /\ songTodo'[s] = [i \in newer |-> S[i].sid]
        /\ peerIds'[s] = {S[i].sid : i \in DOMAIN S}
    BY <1>1, <2>2 DEF Tables
  <2>4. \A e \in DOMAIN songTodo'[s] :
           /\ e \in DOMAIN S
           /\ songTodo'[s][e] = S[e].sid
           /\ \A j \in DOMAIN seen[s] : seen[s][j].sid = S[e].sid =>
                                          S[e].upd > seen[s][j].upd
    BY <2>1, <2>3
  <2>5. /\ UNCHANGED <<song, asked, got>> /\ \A t \in Site \ {s} : SameCycle(t)
        /\ pc[s] = "manifest" /\ pc'[s] = "songs"
    BY <1>1, <1>4, <2>2 DEF FetchManifest, Goto, db, SameCycle, Tables
  <2> QED BY <1>1, <2>3, <2>4, <2>5, ManifestKeepsVersions
<1>5. ASSUME NEW e \in DOMAIN songTodo[s], FetchSong(s, e)
      PROVE  \A t \in Site : VersionOK(t)'
  <2>1. PICK i \in BySid(song[Peer[s]], songTodo[s][e]) :
          /\ asked' = [asked EXCEPT ![s] = i]
          /\ got' = [got EXCEPT ![s] = {Wire(lib[Peer[s]], song[Peer[s]], i)}]
    BY <1>5 DEF FetchSong
  <2> DEFINE w == Wire(lib[Peer[s]], song[Peer[s]], i)
  <2>2. /\ SameVersion(w, song[Peer[s]][i]) /\ w.name = song[Peer[s]][i].name
        /\ i \in DOMAIN song[Peer[s]] /\ songTodo[s][e] = w.sid
    BY <2>1 DEF Wire, SameVersion, BySid
  <2>3. got' = [got EXCEPT ![s] = {w}]
    BY <2>1
  <2> HIDE DEF w
  <2>4. /\ UNCHANGED <<song, seen, songTodo, peerIds>>
        /\ \A t \in Site \ {s} : SameCycle(t)
        /\ pc[s] = "songs" /\ pc'[s] = "slides" /\ IsFirst(e, songTodo[s])
        /\ got'[s] = {w} /\ asked'[s] = i
    BY <1>1, <1>5, <2>1, <2>3 DEF FetchSong, NextEntry, Goto, db, SameCycle, Tables
  <2> QED BY <1>1, <2>2, <2>4, FetchKeepsVersions
<1>6. CASE FetchSlides(s)
  <2> DEFINE T == song[Peer[s]]
             text == IF asked[s] \in DOMAIN T THEN T[asked[s]].text ELSE NULL
  <2>1. got' = [got EXCEPT ![s] = {[w EXCEPT !.text = text] : w \in got[s]}]
    BY <1>6 DEF FetchSlides
  <2>2. asked[s] \in DOMAIN T => text = T[asked[s]].text
    OBVIOUS
  <2> HIDE DEF text
  <2>3. /\ UNCHANGED <<song, seen, songTodo, peerIds>>
        /\ \A t \in Site \ {s} : SameCycle(t)
        /\ pc[s] = "slides" /\ pc'[s] = "apply"
    BY <1>1, <1>6, <2>1 DEF FetchSlides, Goto, db, SameCycle, Tables
  <2>4. \A v \in got'[s] : \E w \in got[s] : v = [w EXCEPT !.text = text]
    BY <1>1, <2>1
  <2>5. got[s] \subseteq WireSong
    BY <1>1
  <2> QED BY <1>1, <2>2, <2>3, <2>4, <2>5, SlidesKeepVersions
<1>7. CASE ApplySong(s)
  BY <1>7, ApplySongKeepsVersions
<1>8. ASSUME NEW e \in DOMAIN songTodo[s], MissSong(s, e)
      PROVE  \A t \in Site : VersionOK(t)'
  BY <1>1, <1>8, PassOverKeepsVersions DEF MissSong, PassOver, db, VInv
<1>9. CASE SongsDone(s)
  BY <1>1, <1>9, EndKeepsVersions DEF SongsDone, Goto, db, VInv
<1> QED BY <1>2, <1>3, <1>4, <1>5, <1>6, <1>7, <1>8, <1>9 DEF CycleStep

LEMMA FailureStepKeepsVersions ==
  ASSUME TwoSites, VInv, NEW s \in Site, FailureStep(s)
  PROVE  \A t \in Site : VersionOK(t)'
<1>1. /\ IInv /\ \A t \in Site : VersionOK(t)
      /\ DOMAIN pc = Site
  BY DEF VInv, VersionInv, VersionOK, IInv, TypeOK
<1>2. CASE MissLibraries(s)
  <2>1. /\ UNCHANGED <<song, seen, songTodo, peerIds, asked, got>>
        /\ pc'[s] = "libraries" /\ got[s] = {}
        /\ \A t \in Site \ {s} : SameCycle(t)
    BY <1>1, <1>2 DEF MissLibraries, Goto, db, SameCycle, Idle, VersionOK, ManifestOK
  <2>2. ~Pulling(s)'
    BY <2>1 DEF Pulling
  <2> QED BY <1>1, <2>1, <2>2, CycleKeepsVersions
<1>3. CASE MissManifest(s) \/ Crash(s)
  BY <1>1, <1>3, EndKeepsVersions DEF MissManifest, Crash, Goto, db
<1>4. ASSUME NEW e \in DOMAIN songTodo[s], FailSong(s, e)
      PROVE  \A t \in Site : VersionOK(t)'
  BY <1>1, <1>4, PassOverKeepsVersions DEF FailSong, PassOver, db
<1>5. ASSUME NEW e \in DOMAIN songTodo[s], LoseSong(s, e)
      PROVE  \A t \in Site : VersionOK(t)'
  <2>1. CASE streak[s] + 1 < Breaker
    BY <1>1, <1>5, <2>1, PassOverKeepsVersions DEF LoseSong, db
  <2>2. CASE ~(streak[s] + 1 < Breaker)
    BY <1>1, <1>5, <2>2, EndKeepsVersions DEF LoseSong, Goto, db
  <2> QED BY <2>1, <2>2
<1> QED BY <1>2, <1>3, <1>4, <1>5 DEF FailureStep

LEMMA NextKeepsVersions ==
  ASSUME TwoSites, "prune" \notin Ops, VInv, [Next]_vars
  PROVE  VersionInv'
<1>1. /\ IInv /\ \A t \in Site : StateOK(t) /\ VersionOK(t) /\ ~pruning[t]
      /\ pruning \in [Site -> BOOLEAN]
  BY StateIsOK DEF VInv, VersionInv, VersionOK, IInv, TypeOK
<1>2. \A t \in Site : VersionOK(t)'
  <2>1. ASSUME NEW s \in Site, LocalStep(s)
        PROVE  \A t \in Site : VersionOK(t)'
    <3>1. /\ Stamped(song[s], song'[s], clock)
          /\ \A t \in Site \ {s} : song'[t] = song[t]
          /\ UNCHANGED cycle
      BY <1>1, <2>1, LocalStepStamps
    <3>2. song'[Peer[s]] = song[Peer[s]] /\ \A t \in Site : SameCycle(t)
      BY <3>1, PairUp DEF cycle, SameCycle
    <3> QED BY <1>1, <3>1, <3>2, StampKeepsVersions
  <2>2. CASE Elapse \/ UNCHANGED vars
    <3>1. UNCHANGED <<song, pc, seen, songTodo, peerIds, asked, got>>
      BY <2>2 DEF Elapse, vars, db, cycle
    <3> SUFFICES ASSUME NEW t \in Site
                 PROVE  VersionOK(t)'
      OBVIOUS
    <3>2. VersionOK(t)
      BY <1>1
    <3>3. /\ ManifestOK(t)' /\ CopiesAgree(t)' /\ AnswerAgrees(t)'
          /\ AnswersMet(t)' /\ AnswerReturned(t)'
      BY <3>1, <3>2 DEF VersionOK, ManifestOK, CopiesAgree, AnswerAgrees,
         AnswersMet, AnswerReturned, Pulling, HeldAt
    <3>4. UnlistedApart(t)'
      BY <3>1, <3>2 DEF VersionOK, UnlistedApart, Unlisted, Pulling
    <3> QED BY <3>3, <3>4 DEF VersionOK
  <2> QED BY <2>1, <2>2, CycleStepKeepsVersions, FailureStepKeepsVersions DEF Next
<1>3. \A t \in Site : ~pruning'[t]
  <2>1. ASSUME NEW s \in Site, LocalStep(s)
        PROVE  UNCHANGED pruning
    BY <1>1, <2>1, LocalStepStamps
  <2>2. ASSUME NEW s \in Site, CycleStep(s)
        PROVE  UNCHANGED pruning
    BY <2>2 DEF CycleStep, FetchLibraries, ApplyLibrary, TakeLibrary, ListSongs,
       FetchManifest, FetchSong, MissSong, PassOver, FetchSlides, ApplySong, SongsDone
  <2>3. ASSUME NEW s \in Site, FailureStep(s), ~Crash(s)
        PROVE  UNCHANGED pruning
    BY <2>3 DEF FailureStep, MissLibraries, MissManifest, FailSong, PassOver, LoseSong
  <2>4. ASSUME NEW s \in Site, Crash(s)
        PROVE  pruning' = [pruning EXCEPT ![s] = FALSE]
    BY <2>4 DEF Crash
  <2>5. CASE Elapse \/ UNCHANGED vars
    BY <1>1, <2>5 DEF Elapse, vars
  <2> QED BY <1>1, <2>1, <2>2, <2>3, <2>4, <2>5 DEF Next
<1> QED BY <1>2, <1>3 DEF VersionInv, VersionOK

LEMMA InitVersions == Init => VersionInv
BY DEF Init, VersionInv, ManifestOK, CopiesAgree, AnswerAgrees, AnswersMet,
   AnswerReturned, UnlistedApart, Unlisted, Pulling, EmptyTable

\* Two instances that pull from each other never store one version of a song
\* with two contents, whatever is edited, copied, adopted, lost or restarted
\* while the slides of an answer are read in a query of their own.  Nothing is
\* pruned meanwhile: trash is kept for days, and a cycle takes seconds.
THEOREM OneVersionOneContent ==
  ASSUME TwoSites, "prune" \notin Ops
  PROVE  Spec => []SameClockSameContent
<1>1. Init => VInv
  BY InitIInv, InitVersions DEF VInv
<1>2. VInv /\ [Next]_vars => VInv'
  BY StepIInv, NextKeepsVersions DEF VInv
<1>3. VInv => SameClockSameContent
  <2> SUFFICES ASSUME VInv, NEW s \in Site, NEW t \in Site
               PROVE  /\ \A i \in DOMAIN song[s], k \in DOMAIN song[t] :
                           SameVersion(song[s][i], song[t][k])
                             => SameContent(song[s][i], song[t][k])
                      /\ pc[s] = "apply" =>
                           \A w \in got[s], k \in DOMAIN song[Peer[s]] :
                             SameVersion(w, song[Peer[s]][k])
                               => SameContent(w, song[Peer[s]][k])
    BY DEF SameClockSameContent
  <2>1. StateOK(s) /\ CopiesAgree(s) /\ AnswerAgrees(s)
    BY StateIsOK DEF VInv, VersionInv
  <2>2. CASE t = s
    BY <2>1, <2>2 DEF StateOK, SidsUnique, AnswerAgrees, SameVersion, SameContent
  <2>3. CASE t # s
    <3>1. t = Peer[s]
      BY <2>3 DEF TwoSites
    <3> QED BY <2>1, <3>1 DEF CopiesAgree, AnswerAgrees, SameVersion, SameContent
  <2> QED BY <2>2, <2>3
<1> QED BY <1>1, <1>2, <1>3, PTL DEF Spec

-----------------------------------------------------------------------------
(* Settled sites agree. *)

\* Libraries are being created; elsewhere the sites share them from the start.
Creating == "create_library" \in Ops

\* What a song keeps wherever it goes: the name of its library while libraries
\* of one name may still take each other's identity, else that identity.
FileKey(x, n) == IF Creating THEN n ELSE x

Fact(x, n) == [sid |-> x, name |-> n]
Version(r, k) == [sid |-> r.sid, upd |-> r.upd, name |-> r.name, del |-> r.del,
                  key |-> k]
SongKey(s, i) == FileKey(lib[s][song[s][i].lib].sid, lib[s][song[s][i].lib].name)
WireKey(w) == FileKey(w.libSid, w.libName)

\* The library rows of site s, what it knows of libraries, and its versions of
\* songs, with those its cycle carries.
LibRows(s) == {lib[s][i] : i \in DOMAIN lib[s]}
                \cup {libTodo[s][e] : e \in DOMAIN libTodo[s]}
LibFacts(s) == {Fact(a.sid, a.name) : a \in LibRows(s)}
                 \cup {Fact(w.libSid, w.libName) : w \in got[s]}
Versions(s) == {Version(song[s][i], SongKey(s, i)) : i \in DOMAIN song[s]}
                 \cup {Version(w, WireKey(w)) : w \in got[s]}

AllRows == UNION {LibRows(s) : s \in Site}
AllFacts == UNION {LibFacts(s) : s \in Site}
AllVersions == UNION {Versions(s) : s \in Site}

Earlier == 0 .. clock - 1

RowsApart ==
  \A a, b \in AllRows : /\ a.del = NULL /\ a.sid \in Earlier /\ a.upd \in Earlier
                        /\ a.upd = b.upd => a = b
                        /\ Creating /\ a.sid = b.sid => a = b
FactsApart ==
  IF Creating THEN \A f, g \in AllFacts : f.sid \in Earlier /\ (f.sid = g.sid => f = g)
              ELSE \A f \in AllFacts, t \in Site : BySid(lib[t], f.sid) # {}
VersionsApart ==
  \A u, v \in AllVersions : /\ u.sid \in Earlier /\ u.upd \in Earlier
                            /\ u.upd = v.upd => u = v
                            /\ u.sid = v.sid => u.key = v.key
                            /\ Creating => u.del = NULL
FilingInv == /\ \A s \in Site : LiveNamesUnique(lib[s])
             /\ RowsApart /\ FactsApart /\ VersionsApart

LEMMA HeldHere ==
  ASSUME NEW t \in Site
  PROVE  /\ \A i \in DOMAIN lib[t] : /\ lib[t][i] \in AllRows
                                     /\ Fact(lib[t][i].sid, lib[t][i].name) \in AllFacts
         /\ \A e \in DOMAIN libTodo[t] : libTodo[t][e] \in AllRows
         /\ \A w \in got[t] : /\ Fact(w.libSid, w.libName) \in AllFacts
                              /\ Version(w, WireKey(w)) \in AllVersions
         /\ \A i \in DOMAIN song[t] : Version(song[t][i], SongKey(t, i)) \in AllVersions
<1>1. LibRows(t) \subseteq AllRows /\ LibFacts(t) \subseteq AllFacts
      /\ Versions(t) \subseteq AllVersions
  BY DEF AllRows, AllFacts, AllVersions
<1>2. \A i \in DOMAIN lib[t] : lib[t][i] \in LibRows(t)
  BY DEF LibRows
<1>3. \A e \in DOMAIN libTodo[t] : libTodo[t][e] \in LibRows(t)
  BY DEF LibRows
<1>4. \A a \in LibRows(t) : Fact(a.sid, a.name) \in LibFacts(t)
  BY DEF LibFacts
<1>5. \A w \in got[t] : /\ Fact(w.libSid, w.libName) \in LibFacts(t)
                        /\ Version(w, WireKey(w)) \in Versions(t)
  BY DEF LibFacts, Versions
<1>6. \A i \in DOMAIN song[t] : Version(song[t][i], SongKey(t, i)) \in Versions(t)
  BY DEF Versions
<1> QED BY <1>1, <1>2, <1>3, <1>4, <1>5, <1>6

\* What a step may add: one library row and one song version, both stamped
\* with the present.
NewRow(NR) ==
  /\ \A a, b \in NR : a = b
  /\ \A a \in NR : /\ a.del = NULL /\ a.upd = clock /\ clock < clock'
                   /\ IF Creating THEN a.sid = clock
                      ELSE a.sid \in Earlier /\ \A t \in Site : BySid(lib[t], a.sid) # {}
NewVersion(NV) ==
  /\ \A u, v \in NV : u = v
  /\ \A v \in NV : /\ v.upd = clock /\ clock < clock'
                   /\ \/ v.sid = clock
                      \/ \E u \in AllVersions : u.sid = v.sid /\ u.key = v.key
                   /\ Creating => v.del = NULL

LEMMA FilingKept ==
  ASSUME FilingInv, clock \in Nat, clock' \in Nat, clock <= clock',
         \A s \in Site : LiveNamesUnique(lib'[s]),
         NEW NR, NewRow(NR), NEW NV, NewVersion(NV),
         AllRows' \subseteq AllRows \cup NR,
         AllFacts' \subseteq AllFacts \cup {Fact(a.sid, a.name) : a \in NR},
         AllVersions' \subseteq AllVersions \cup NV,
         ~Creating => \A t \in Site : \A i \in DOMAIN lib[t] :
           \E k \in DOMAIN lib'[t] : lib'[t][k].sid = lib[t][i].sid
  PROVE  FilingInv'
<1>0. Earlier \subseteq Earlier' /\ clock \notin Earlier
      /\ (clock < clock' => clock \in Earlier')
  <2>1. \A n : n \in Earlier <=> n \in Nat /\ n < clock
    BY DEF Earlier
  <2>2. \A n : n \in Earlier' <=> n \in Nat /\ n < clock'
    BY DEF Earlier
  <2> QED BY <2>1, <2>2
<1>1. RowsApart'
  <2> SUFFICES ASSUME NEW a \in AllRows', NEW b \in AllRows'
               PROVE  /\ a.del = NULL /\ a.sid \in Earlier' /\ a.upd \in Earlier'
                      /\ a.upd = b.upd => a = b
                      /\ Creating /\ a.sid = b.sid => a = b
    BY DEF RowsApart, Creating
  <2>1. CASE a \in AllRows /\ b \in AllRows
    BY <1>0, <2>1 DEF FilingInv, RowsApart
  <2>2. CASE a \in AllRows /\ b \in NR
    <3>1. a.del = NULL /\ a.sid \in Earlier /\ a.upd \in Earlier
      BY <2>2 DEF FilingInv, RowsApart
    <3>2. b.upd = clock /\ (Creating => b.sid = clock)
      BY <2>2 DEF NewRow
    <3> QED BY <1>0, <3>1, <3>2
  <2>3. CASE a \in NR /\ b \in AllRows
    <3>1. b.del = NULL /\ b.sid \in Earlier /\ b.upd \in Earlier
      BY <2>3 DEF FilingInv, RowsApart
    <3>2. a.upd = clock /\ clock < clock' /\ a.del = NULL
          /\ (IF Creating THEN a.sid = clock ELSE a.sid \in Earlier)
      BY <2>3 DEF NewRow
    <3> QED BY <1>0, <3>1, <3>2
  <2>4. CASE a \in NR /\ b \in NR
    BY <1>0, <2>4 DEF NewRow
  <2> QED BY <2>1, <2>2, <2>3, <2>4
<1>2. FactsApart'
  <2>1. CASE Creating
    <3> SUFFICES ASSUME NEW f \in AllFacts', NEW g \in AllFacts'
                 PROVE  f.sid \in Earlier' /\ (f.sid = g.sid => f = g)
      BY <2>1 DEF FactsApart, Creating
    <3>1. \A a \in NR : a.sid = clock /\ clock < clock'
      BY <2>1 DEF NewRow
    <3>2. \A h \in AllFacts : h.sid \in Earlier
      BY <2>1 DEF FilingInv, FactsApart
    <3>3. \A h, k \in AllFacts : h.sid = k.sid => h = k
      BY <2>1 DEF FilingInv, FactsApart
    <3>4. \A a \in NR : Fact(a.sid, a.name).sid = a.sid
      BY DEF Fact
    <3>5. \A a, b \in NR : a = b
      BY DEF NewRow
    <3> QED BY <1>0, <3>1, <3>2, <3>3, <3>4, <3>5
  <2>2. CASE ~Creating
    <3> SUFFICES ASSUME NEW f \in AllFacts', NEW t \in Site
                 PROVE  BySid(lib'[t], f.sid) # {}
      BY <2>2 DEF FactsApart, Creating
    <3>1. BySid(lib[t], f.sid) # {}
      <4>1. CASE f \in AllFacts
        BY <2>2, <4>1 DEF FilingInv, FactsApart
      <4>2. ASSUME NEW a \in NR, f = Fact(a.sid, a.name)
            PROVE  BySid(lib[t], f.sid) # {}
        BY <2>2, <4>2 DEF NewRow, Fact
      <4> QED BY <4>1, <4>2
    <3>2. PICK i \in DOMAIN lib[t] : lib[t][i].sid = f.sid
      BY <3>1 DEF BySid
    <3>3. PICK k \in DOMAIN lib'[t] : lib'[t][k].sid = lib[t][i].sid
      BY <2>2
    <3> QED BY <3>2, <3>3 DEF BySid
  <2> QED BY <2>1, <2>2
<1>3. VersionsApart'
  <2>1. \A v \in NV : /\ v.upd = clock /\ clock < clock' /\ (Creating => v.del = NULL)
                      /\ v.sid \in Earlier'
                      /\ \/ v.sid = clock
                         \/ \E u \in AllVersions : u.sid = v.sid /\ u.key = v.key
    <3>1. \A u \in AllVersions : u.sid \in Earlier
      BY DEF FilingInv, VersionsApart
    <3> QED BY <1>0, <3>1 DEF NewVersion
  <2>2. \A u, v \in AllVersions : /\ u.sid \in Earlier /\ u.upd \in Earlier
                                  /\ u.upd = v.upd => u = v
                                  /\ u.sid = v.sid => u.key = v.key
                                  /\ Creating => u.del = NULL
    BY DEF FilingInv, VersionsApart
  <2>3. \A u, v \in NV : u = v
    BY DEF NewVersion
  <2> SUFFICES ASSUME NEW u \in AllVersions', NEW v \in AllVersions'
               PROVE  /\ u.sid \in Earlier' /\ u.upd \in Earlier'
                      /\ u.upd = v.upd => u = v
                      /\ u.sid = v.sid => u.key = v.key
                      /\ Creating => u.del = NULL
    BY DEF VersionsApart, Creating
  <2>4. u.sid \in Earlier' /\ u.upd \in Earlier' /\ (Creating => u.del = NULL)
    BY <1>0, <2>1, <2>2
  <2>5. u.upd = v.upd => u = v
    BY <1>0, <2>1, <2>2, <2>3
  <2>6. ASSUME u.sid = v.sid
        PROVE  u.key = v.key
    <3>1. CASE u \in AllVersions /\ v \in AllVersions
      BY <2>2, <2>6, <3>1
    <3>2. CASE u \in AllVersions /\ v \in NV
      <4>1. v.sid # clock
        BY <1>0, <2>2, <2>6, <3>2
      <4>2. PICK x \in AllVersions : x.sid = v.sid /\ x.key = v.key
        BY <2>1, <3>2, <4>1
      <4> QED BY <2>2, <2>6, <3>2, <4>2
    <3>3. CASE u \in NV /\ v \in AllVersions
      <4>1. u.sid # clock
        BY <1>0, <2>2, <2>6, <3>3
      <4>2. PICK x \in AllVersions : x.sid = u.sid /\ x.key = u.key
        BY <2>1, <3>3, <4>1
      <4> QED BY <2>2, <2>6, <3>3, <4>2
    <3>4. CASE u \in NV /\ v \in NV
      BY <2>3, <3>4
    <3> QED BY <3>1, <3>2, <3>3, <3>4
  <2> QED BY <2>4, <2>5, <2>6
<1> QED BY <1>1, <1>2, <1>3 DEF FilingInv

\* A step of site s: what it leaves at s, and what its cycle carries, was known
\* or is among the library rows NR and the versions NV that it adds.
LEMMA SiteHolds ==
  ASSUME NEW s \in Site,
         \A t \in Site \ {s} : /\ lib'[t] = lib[t] /\ song'[t] = song[t]
                               /\ libTodo'[t] = libTodo[t] /\ got'[t] = got[t],
         NEW NR, NEW NV,
         \A i \in DOMAIN lib'[s] : lib'[s][i] \in AllRows \cup NR,
         \A e \in DOMAIN libTodo'[s] : libTodo'[s][e] \in AllRows,
         \A w \in got'[s] : /\ Fact(w.libSid, w.libName) \in AllFacts
                            /\ Version(w, WireKey(w)) \in AllVersions,
         \A i \in DOMAIN song'[s] : Version(song'[s][i], SongKey(s, i)') \in AllVersions \cup NV
  PROVE  /\ AllRows' \subseteq AllRows \cup NR
         /\ AllFacts' \subseteq AllFacts \cup {Fact(a.sid, a.name) : a \in NR}
         /\ AllVersions' \subseteq AllVersions \cup NV
<1>1. ASSUME NEW t \in Site \ {s}
      PROVE  /\ LibRows(t)' = LibRows(t) /\ LibFacts(t)' = LibFacts(t)
             /\ Versions(t)' = Versions(t)
  <2>1. /\ lib'[t] = lib[t] /\ song'[t] = song[t]
        /\ libTodo'[t] = libTodo[t] /\ got'[t] = got[t]
    OBVIOUS
  <2>2. LibRows(t)' = LibRows(t)
    BY <2>1 DEF LibRows
  <2>3. LibFacts(t)' = LibFacts(t)
    BY <2>1, <2>2 DEF LibFacts
  <2>4. Versions(t)' = Versions(t)
    BY <2>1 DEF Versions, SongKey
  <2> QED BY <2>2, <2>3, <2>4
<1>2. AllRows' \subseteq AllRows \cup NR
  <2>1. \A a \in LibRows(s)' : a \in AllRows \cup NR
    BY DEF LibRows
  <2> QED BY <1>1, <2>1 DEF AllRows
<1>3. AllFacts' \subseteq AllFacts \cup {Fact(a.sid, a.name) : a \in NR}
  <2>1. \A a \in AllRows : Fact(a.sid, a.name) \in AllFacts
    BY DEF AllRows, AllFacts, LibFacts
  <2>2. \A f \in LibFacts(s)' : f \in AllFacts \cup {Fact(a.sid, a.name) : a \in NR}
    <3> SUFFICES ASSUME NEW f \in LibFacts(s)'
                 PROVE  f \in AllFacts \cup {Fact(a.sid, a.name) : a \in NR}
      OBVIOUS
    <3>1. ASSUME NEW a \in LibRows(s)', f = Fact(a.sid, a.name)
          PROVE  f \in AllFacts \cup {Fact(b.sid, b.name) : b \in NR}
      <4>1. a \in AllRows \cup NR
        BY DEF LibRows
      <4> QED BY <2>1, <3>1, <4>1
    <3>2. ASSUME NEW w \in got'[s], f = Fact(w.libSid, w.libName)
          PROVE  f \in AllFacts
      BY <3>2
    <3> QED BY <3>1, <3>2 DEF LibFacts
  <2> QED BY <1>1, <2>2 DEF AllFacts
<1>4. AllVersions' \subseteq AllVersions \cup NV
  <2>1. \A v \in Versions(s)' : v \in AllVersions \cup NV
    BY DEF Versions
  <2> QED BY <1>1, <2>1 DEF AllVersions
<1> QED BY <1>2, <1>3, <1>4

\* Such a step adds one row and one version, which it stamps.
LEMMA SiteFiles ==
  ASSUME FilingInv, clock \in Nat, clock' \in Nat, clock <= clock', NEW s \in Site,
         \A t \in Site \ {s} : /\ lib'[t] = lib[t] /\ song'[t] = song[t]
                               /\ libTodo'[t] = libTodo[t] /\ got'[t] = got[t],
         NEW NR, NewRow(NR), NEW NV, NewVersion(NV),
         LiveNamesUnique(lib'[s]),
         \A i \in DOMAIN lib'[s] : lib'[s][i] \in AllRows \cup NR,
         \A e \in DOMAIN libTodo'[s] : libTodo'[s][e] \in AllRows,
         \A w \in got'[s] : /\ Fact(w.libSid, w.libName) \in AllFacts
                            /\ Version(w, WireKey(w)) \in AllVersions,
         \A i \in DOMAIN song'[s] : Version(song'[s][i], SongKey(s, i)') \in AllVersions \cup NV,
         ~Creating => \A i \in DOMAIN lib[s] :
           \E k \in DOMAIN lib'[s] : lib'[s][k].sid = lib[s][i].sid
  PROVE  FilingInv'
<1>1. /\ AllRows' \subseteq AllRows \cup NR
      /\ AllFacts' \subseteq AllFacts \cup {Fact(a.sid, a.name) : a \in NR}
      /\ AllVersions' \subseteq AllVersions \cup NV
  BY SiteHolds
<1>2. \A t \in Site : LiveNamesUnique(lib'[t])
  BY DEF FilingInv
<1>3. ~Creating => \A t \in Site : \A i \in DOMAIN lib[t] :
                     \E k \in DOMAIN lib'[t] : lib'[t][k].sid = lib[t][i].sid
  OBVIOUS
<1> QED BY <1>1, <1>2, <1>3, FilingKept

\* A step that writes no library and no song, and after which nothing is
\* carried that was not known.
Quiet == /\ UNCHANGED <<lib, song>> /\ clock' \in Nat /\ clock <= clock'
         /\ AllRows' \subseteq AllRows /\ AllFacts' \subseteq AllFacts
         /\ AllVersions' \subseteq AllVersions

LEMMA QuietFiles ==
  ASSUME FilingInv, clock \in Nat, Quiet
  PROVE  FilingInv'
<1>1. NewRow({}) /\ NewVersion({})
  BY DEF NewRow, NewVersion
<1>2. /\ AllRows' \subseteq AllRows \cup {}
      /\ AllFacts' \subseteq AllFacts \cup {Fact(a.sid, a.name) : a \in {}}
      /\ AllVersions' \subseteq AllVersions \cup {}
  BY DEF Quiet
<1>3. /\ \A s \in Site : LiveNamesUnique(lib'[s])
      /\ clock' \in Nat /\ clock <= clock'
  BY DEF Quiet, FilingInv
<1>4. ~Creating => \A t \in Site : \A i \in DOMAIN lib[t] :
        \E k \in DOMAIN lib'[t] : lib'[t][k].sid = lib[t][i].sid
  BY DEF Quiet
<1> QED BY <1>1, <1>2, <1>3, <1>4, FilingKept

\* A step of the cycle of s that writes no library and no song.
LEMMA QuietHolds ==
  ASSUME clock' \in Nat, clock <= clock', UNCHANGED <<lib, song>>,
         NEW s \in Site,
         \A t \in Site \ {s} : libTodo'[t] = libTodo[t] /\ got'[t] = got[t],
         \A e \in DOMAIN libTodo'[s] : libTodo'[s][e] \in AllRows,
         \A w \in got'[s] : /\ Fact(w.libSid, w.libName) \in AllFacts
                            /\ Version(w, WireKey(w)) \in AllVersions
  PROVE  Quiet
<1>1. \A i \in DOMAIN lib'[s] : lib'[s][i] \in AllRows \cup {}
  BY HeldHere
<1>2. \A i \in DOMAIN song'[s] : Version(song'[s][i], SongKey(s, i)') \in AllVersions \cup {}
  BY HeldHere DEF SongKey, FileKey, Creating
<1>3. /\ AllRows' \subseteq AllRows \cup {}
      /\ AllFacts' \subseteq AllFacts \cup {Fact(a.sid, a.name) : a \in {}}
      /\ AllVersions' \subseteq AllVersions \cup {}
  BY <1>1, <1>2, SiteHolds
<1> QED BY <1>3 DEF Quiet

\* A step after which the cycle of s carries no more than before.
LEMMA CarriedHolds ==
  ASSUME clock' \in Nat, clock <= clock', UNCHANGED <<lib, song>>,
         NEW s \in Site,
         \A t \in Site \ {s} : libTodo'[t] = libTodo[t] /\ got'[t] = got[t],
         \/ libTodo'[s] = libTodo[s]
         \/ libTodo'[s] = EmptyTable
         \/ \E I : libTodo'[s] = Without(libTodo[s], I),
         got'[s] \subseteq got[s]
  PROVE  Quiet
<1>1. \A e \in DOMAIN libTodo'[s] : e \in DOMAIN libTodo[s]
                                      /\ libTodo'[s][e] = libTodo[s][e]
  BY DEF EmptyTable, Without, Restrict
<1>2. \A e \in DOMAIN libTodo'[s] : libTodo'[s][e] \in AllRows
  BY <1>1, HeldHere
<1>3. \A w \in got'[s] : /\ Fact(w.libSid, w.libName) \in AllFacts
                         /\ Version(w, WireKey(w)) \in AllVersions
  BY HeldHere
<1> QED BY <1>2, <1>3, QuietHolds

\* An answer tells of a library and a version its site holds.
LEMMA WireHeld ==
  ASSUME NEW t \in Site, NEW i \in DOMAIN song[t], song[t][i].lib \in DOMAIN lib[t]
  PROVE  LET w == Wire(lib[t], song[t], i)
         IN  /\ Fact(w.libSid, w.libName) \in AllFacts
             /\ Version(w, WireKey(w)) \in AllVersions
<1> DEFINE w == Wire(lib[t], song[t], i)
           l == lib[t][song[t][i].lib]
<1>1. w.libSid = l.sid /\ w.libName = l.name
  BY DEF Wire
<1>2. Fact(l.sid, l.name) \in AllFacts
  BY HeldHere
<1>3. Version(w, WireKey(w)) = Version(song[t][i], SongKey(t, i))
  BY <1>1 DEF Version, WireKey, SongKey, Wire
<1>4. Version(song[t][i], SongKey(t, i)) \in AllVersions
  BY HeldHere
<1> QED BY <1>1, <1>2, <1>3, <1>4

LEMMA CycleStepHolds ==
  ASSUME IInv, NEW s \in Site, CycleStep(s), ~ApplyLibrary(s), ~ApplySong(s)
  PROVE  Quiet
<1>0. /\ clock \in Nat /\ DOMAIN got = Site /\ DOMAIN libTodo = Site
      /\ got \in [Site -> SUBSET WireSong]
      /\ Peer[s] \in Site
  BY PeerAssumption DEF IInv, TypeOK, Tables
<1>1. UNCHANGED <<clock, lib, song>> /\ clock' \in Nat /\ clock <= clock'
  <2>1. UNCHANGED <<clock, lib, song>>
    BY DEF CycleStep, FetchLibraries, ListSongs, FetchManifest,
       FetchSong, MissSong, PassOver, FetchSlides, SongsDone, db
  <2> QED BY <1>0, <2>1
<1>2. CASE FetchLibraries(s)
  <2>1. /\ libTodo'[s] = lib[Peer[s]] /\ got' = got
        /\ \A t \in Site \ {s} : libTodo'[t] = libTodo[t]
    BY <1>0, <1>2 DEF FetchLibraries
  <2>2. \A e \in DOMAIN libTodo'[s] : libTodo'[s][e] \in AllRows
    BY <1>0, <2>1, HeldHere
  <2>3. \A w \in got'[s] : /\ Fact(w.libSid, w.libName) \in AllFacts
                           /\ Version(w, WireKey(w)) \in AllVersions
    BY <2>1, HeldHere
  <2> QED BY <1>1, <2>1, <2>2, <2>3, QuietHolds
<1>3. CASE ListSongs(s) \/ FetchManifest(s) \/ \E e \in DOMAIN songTodo[s] : MissSong(s, e)
  <2>1. libTodo' = libTodo /\ got' = got
    BY <1>3 DEF ListSongs, FetchManifest, MissSong, PassOver
  <2> QED BY <1>1, <2>1, CarriedHolds
<1>4. CASE SongsDone(s)
  <2>1. EmptyCycle(s)
    BY <1>4 DEF SongsDone
  <2>2. /\ libTodo'[s] = EmptyTable /\ got'[s] = {}
        /\ \A t \in Site \ {s} : libTodo'[t] = libTodo[t] /\ got'[t] = got[t]
    BY <1>0, <2>1 DEF EmptyCycle
  <2> QED BY <1>1, <2>2, CarriedHolds
<1>5. ASSUME NEW e \in DOMAIN songTodo[s], FetchSong(s, e)
      PROVE  Quiet
  <2>1. PICK i \in BySid(song[Peer[s]], songTodo[s][e]) :
          got' = [got EXCEPT ![s] = {Wire(lib[Peer[s]], song[Peer[s]], i)}]
    BY <1>5 DEF FetchSong
  <2> DEFINE w == Wire(lib[Peer[s]], song[Peer[s]], i)
  <2>2. i \in DOMAIN song[Peer[s]] /\ song[Peer[s]][i].lib \in DOMAIN lib[Peer[s]]
    BY <1>0 DEF BySid, IInv, DbOK
  <2>3. Fact(w.libSid, w.libName) \in AllFacts /\ Version(w, WireKey(w)) \in AllVersions
    BY <1>0, <2>2, WireHeld
  <2>4. /\ libTodo' = libTodo /\ got'[s] = {w}
        /\ \A t \in Site \ {s} : got'[t] = got[t]
    BY <1>0, <1>5, <2>1 DEF FetchSong
  <2> HIDE DEF w
  <2>5. \A e1 \in DOMAIN libTodo'[s] : libTodo'[s][e1] \in AllRows
    BY <2>4, HeldHere
  <2> QED BY <1>1, <2>3, <2>4, <2>5, QuietHolds
<1>6. CASE FetchSlides(s)
  <2> DEFINE T == song[Peer[s]]
             text == IF asked[s] \in DOMAIN T THEN T[asked[s]].text ELSE NULL
  <2>1. got' = [got EXCEPT ![s] = {[w EXCEPT !.text = text] : w \in got[s]}]
        /\ libTodo' = libTodo
    BY <1>6 DEF FetchSlides
  <2> HIDE DEF text
  <2>2. /\ got'[s] = {[w EXCEPT !.text = text] : w \in got[s]}
        /\ \A t \in Site \ {s} : got'[t] = got[t]
    BY <1>0, <2>1
  <2>3. ASSUME NEW v \in got'[s]
        PROVE  /\ Fact(v.libSid, v.libName) \in AllFacts
               /\ Version(v, WireKey(v)) \in AllVersions
    <3>1. PICK w \in got[s] : v = [w EXCEPT !.text = text]
      BY <2>2
    <3>2. w \in WireSong
      BY <1>0
    <3>3. /\ v.sid = w.sid /\ v.upd = w.upd /\ v.name = w.name /\ v.del = w.del
          /\ v.libSid = w.libSid /\ v.libName = w.libName
      BY <3>1, <3>2 DEF WireSong
    <3>4. Version(v, WireKey(v)) = Version(w, WireKey(w))
      BY <3>3 DEF Version, WireKey
    <3> QED BY <3>3, <3>4, HeldHere
  <2>4. \A e \in DOMAIN libTodo'[s] : libTodo'[s][e] \in AllRows
    BY <2>1, HeldHere
  <2> QED BY <1>1, <2>1, <2>2, <2>3, <2>4, QuietHolds
<1> QED BY <1>2, <1>3, <1>4, <1>5, <1>6 DEF CycleStep

LEMMA FailureStepHolds ==
  ASSUME IInv, NEW s \in Site, FailureStep(s)
  PROVE  Quiet
<1>1. UNCHANGED <<clock, lib, song>> /\ clock' \in Nat /\ clock <= clock'
  <2>1. UNCHANGED <<clock, lib, song>>
    BY DEF FailureStep, MissLibraries, MissManifest, FailSong, PassOver, LoseSong,
       Crash, db
  <2> QED BY <2>1 DEF IInv, TypeOK
<1>2. \/ UNCHANGED <<libTodo, got>>
      \/ EmptyCycle(s)
  BY DEF FailureStep, MissLibraries, MissManifest, FailSong, PassOver, LoseSong, Crash
<1>3. /\ \A t \in Site \ {s} : libTodo'[t] = libTodo[t] /\ got'[t] = got[t]
      /\ libTodo'[s] = libTodo[s] \/ libTodo'[s] = EmptyTable
      /\ got'[s] \subseteq got[s]
  BY <1>2 DEF EmptyCycle, IInv, TypeOK, Tables
<1> QED BY <1>1, <1>3, CarriedHolds

\* The operations under which settled sites agree: no library is deleted and
\* nothing is pruned, and while libraries are being created none is renamed
\* and no song is trashed.
SteadyOps == /\ "delete_library" \notin Ops /\ "prune" \notin Ops
             /\ Creating => "rename_library" \notin Ops /\ "delete_presentation" \notin Ops

\* A time-stamped write of one song of s.
LEMMA StampedSongFiles ==
  ASSUME FilingInv, IInv, NEW s \in Site, clock' = clock + 1,
         UNCHANGED <<lib, libTodo, got>>,
         NEW i, NEW r, SetSong(s, Put(song[s], i, r)), r.upd = clock,
         \/ r.sid = clock
         \/ \E k \in DOMAIN song[s] : song[s][k].sid = r.sid /\ song[s][k].lib = r.lib,
         Creating => r.del = NULL
  PROVE  FilingInv'
<1> DEFINE key == FileKey(lib[s][r.lib].sid, lib[s][r.lib].name)
           v == Version(r, key)
<1>1. clock \in Nat /\ clock' \in Nat /\ clock <= clock' /\ clock < clock'
      /\ DOMAIN song = Site
  BY DEF IInv, TypeOK, Tables
<1>2. /\ song'[s] = Put(song[s], i, r)
      /\ \A t \in Site \ {s} : song'[t] = song[t]
  BY <1>1 DEF SetSong
<1>3. NewRow({})
  BY DEF NewRow
<1>4. NewVersion({v})
  <2>1. v.upd = clock /\ v.sid = r.sid /\ v.key = key /\ v.del = r.del
    BY DEF Version
  <2>2. ASSUME NEW k \in DOMAIN song[s], song[s][k].sid = r.sid, song[s][k].lib = r.lib
        PROVE  \E u \in AllVersions : u.sid = v.sid /\ u.key = v.key
    <3>1. Version(song[s][k], SongKey(s, k)) \in AllVersions
      BY HeldHere
    <3>2. SongKey(s, k) = key
      BY <2>2 DEF SongKey
    <3>3. /\ Version(song[s][k], SongKey(s, k)).sid = v.sid
          /\ Version(song[s][k], SongKey(s, k)).key = v.key
      BY <2>1, <2>2, <3>2 DEF Version
    <3> QED BY <3>1, <3>3
  <2> HIDE DEF v
  <2> QED BY <1>1, <2>1, <2>2 DEF NewVersion
<1>5. \A k \in DOMAIN song'[s] : Version(song'[s][k], SongKey(s, k)') \in AllVersions \cup {v}
  <2> SUFFICES ASSUME NEW k \in DOMAIN song'[s]
               PROVE  Version(song'[s][k], SongKey(s, k)') \in AllVersions \cup {v}
    OBVIOUS
  <2>1. CASE k = i
    <3>1. song'[s][k] = r
      BY <1>2, <2>1 DEF Put
    <3>2. SongKey(s, k)' = key
      BY <3>1 DEF SongKey, FileKey, Creating
    <3> QED BY <3>1, <3>2
  <2>2. CASE k # i
    <3>1. k \in DOMAIN song[s] /\ song'[s][k] = song[s][k]
      BY <1>2, <2>2 DEF Put
    <3>2. SongKey(s, k)' = SongKey(s, k)
      BY <3>1 DEF SongKey, FileKey, Creating
    <3> QED BY <3>1, <3>2, HeldHere
  <2> QED BY <2>1, <2>2
<1>6. /\ LiveNamesUnique(lib'[s])
      /\ \A k \in DOMAIN lib'[s] : lib'[s][k] \in AllRows \cup {}
      /\ \A e \in DOMAIN libTodo'[s] : libTodo'[s][e] \in AllRows
      /\ \A w \in got'[s] : /\ Fact(w.libSid, w.libName) \in AllFacts
                            /\ Version(w, WireKey(w)) \in AllVersions
  BY HeldHere DEF FilingInv
<1> HIDE DEF v, key
<1>7. \A k \in DOMAIN lib[s] : \E j \in DOMAIN lib'[s] : lib'[s][j].sid = lib[s][k].sid
  OBVIOUS
<1> QED BY <1>1, <1>2, <1>3, <1>4, <1>5, <1>6, <1>7, SiteFiles

\* A write of one library of s that keeps what the songs under it are filed by.
LEMMA LibWriteFiles ==
  ASSUME FilingInv, IInv, NEW s \in Site, clock' \in Nat, clock <= clock',
         UNCHANGED <<song, got>>,
         \A t \in Site \ {s} : libTodo'[t] = libTodo[t],
         \A e \in DOMAIN libTodo'[s] : libTodo'[s][e] \in AllRows,
         NEW i, NEW r, SetLib(s, Put(lib[s], i, r)),
         NEW NR, NewRow(NR), r \in AllRows \cup NR, r.del = NULL,
         i \in DOMAIN lib[s] => IF Creating THEN r.name = lib[s][i].name
                                            ELSE r.sid = lib[s][i].sid,
         LiveNamed(lib[s], r.name) \subseteq {i}
  PROVE  FilingInv'
<1>1. /\ lib'[s] = Put(lib[s], i, r)
      /\ \A t \in Site \ {s} : /\ lib'[t] = lib[t] /\ song'[t] = song[t]
                               /\ libTodo'[t] = libTodo[t] /\ got'[t] = got[t]
  BY DEF SetLib, IInv, TypeOK, Tables
<1>2. /\ DOMAIN lib'[s] = DOMAIN lib[s] \cup {i} /\ lib'[s][i] = r
      /\ \A k \in DOMAIN lib[s] \ {i} : lib'[s][k] = lib[s][k]
  BY <1>1 DEF Put
<1>3. LiveNamesUnique(lib'[s])
  <2> SUFFICES ASSUME NEW j \in Live(lib'[s]), NEW k \in Live(lib'[s]),
                      lib'[s][j].name = lib'[s][k].name
               PROVE  j = k
    BY DEF LiveNamesUnique
  <2>1. \A m \in Live(lib'[s]) : m # i => m \in Live(lib[s]) /\ lib'[s][m] = lib[s][m]
    BY <1>2 DEF Live
  <2>2. CASE j # i /\ k # i
    BY <2>1, <2>2 DEF FilingInv, LiveNamesUnique
  <2>3. CASE j = i \/ k = i
    <3>1. \A m \in Live(lib'[s]) : m # i => lib'[s][m].name # r.name
      BY <2>1 DEF LiveNamed
    <3> QED BY <2>3, <3>1, <1>2
  <2> QED BY <2>2, <2>3
<1>4. \A k \in DOMAIN lib'[s] : lib'[s][k] \in AllRows \cup NR
  BY <1>2, HeldHere
<1>5. \A k \in DOMAIN song'[s] : Version(song'[s][k], SongKey(s, k)') \in AllVersions \cup {}
  <2> SUFFICES ASSUME NEW k \in DOMAIN song[s]
               PROVE  Version(song'[s][k], SongKey(s, k)') \in AllVersions
    OBVIOUS
  <2>1. song[s][k].lib \in DOMAIN lib[s]
    BY Rows
  <2>2. SongKey(s, k)' = SongKey(s, k)
    BY <1>2, <2>1 DEF SongKey, FileKey, Creating
  <2>3. Version(song[s][k], SongKey(s, k)) \in AllVersions
    BY HeldHere
  <2>4. song'[s][k] = song[s][k]
    OBVIOUS
  <2> QED BY <2>2, <2>3, <2>4
<1>6. \A w \in got'[s] : /\ Fact(w.libSid, w.libName) \in AllFacts
                         /\ Version(w, WireKey(w)) \in AllVersions
  BY HeldHere
<1>7. ~Creating => \A j \in DOMAIN lib[s] :
        \E k \in DOMAIN lib'[s] : lib'[s][k].sid = lib[s][j].sid
  BY <1>2
<1>8. NewVersion({}) /\ clock \in Nat
  BY DEF NewVersion, IInv, TypeOK
<1> QED BY <1>1, <1>3, <1>4, <1>5, <1>6, <1>7, <1>8, SiteFiles

\* The rows of the sites, one by one.
LEMMA LibsHere ==
  ASSUME FilingInv, NEW t \in Site, NEW i \in DOMAIN lib[t]
  PROVE  /\ lib[t][i] \in AllRows /\ lib[t][i].del = NULL
         /\ lib[t][i].sid \in Earlier /\ lib[t][i].upd \in Earlier
         /\ i \in Live(lib[t])
         /\ ~Creating => \A u \in Site : BySid(lib[u], lib[t][i].sid) # {}
<1>1. lib[t][i] \in AllRows /\ Fact(lib[t][i].sid, lib[t][i].name) \in AllFacts
  BY HeldHere
<1>2. Fact(lib[t][i].sid, lib[t][i].name).sid = lib[t][i].sid
  BY DEF Fact
<1> QED BY <1>1, <1>2 DEF FilingInv, RowsApart, FactsApart, Live

LEMMA SongsHere ==
  ASSUME FilingInv, Creating, NEW t \in Site, NEW i \in DOMAIN song[t]
  PROVE  song[t][i].del = NULL
<1>1. Version(song[t][i], SongKey(t, i)) \in AllVersions
  BY HeldHere
<1>2. Version(song[t][i], SongKey(t, i)).del = song[t][i].del
  BY DEF Version
<1> QED BY <1>1, <1>2 DEF FilingInv, VersionsApart

LEMMA LocalStepFiles ==
  ASSUME SteadyOps, FilingInv, IInv, NEW s \in Site, ~pruning[s], LocalStep(s)
  PROVE  FilingInv'
<1>0. clock \in Nat /\ clock \in Nat /\ clock < clock + 1 /\ clock + 1 \in Nat
      /\ clock <= clock + 1
  BY DEF IInv, TypeOK
<1>a. ASSUME NEW op, Operate(op)
      PROVE  /\ clock' = clock + 1 /\ UNCHANGED <<libTodo, got>> /\ op \in Ops
             /\ \A t \in Site \ {s} : libTodo'[t] = libTodo[t]
             /\ \A e \in DOMAIN libTodo'[s] : libTodo'[s][e] \in AllRows
  <2>1. clock' = clock + 1 /\ UNCHANGED <<libTodo, got>> /\ op \in Ops
    BY <1>a DEF Operate, cycle
  <2> QED BY <2>1, HeldHere
<1>1. ASSUME NEW b \in LibBase, CreateLibrary(s, b)
      PROVE  FilingInv'
  <2>1. Operate("create_library") /\ Creating
    BY <1>1 DEF CreateLibrary, Operate, Creating
  <2> DEFINE r == [sid |-> clock, name |-> Plain(b), upd |-> clock, del |-> NULL]
  <2>2. PICK i \in Id : IsNext(i, lib[s]) /\ SetLib(s, Put(lib[s], i, r))
    BY <1>1 DEF CreateLibrary
  <2>3. i \notin DOMAIN lib[s]
    BY <2>2, NextIsNew
  <2>4. NewRow({r})
    BY <1>0, <1>a, <2>1 DEF NewRow
  <2>5. LiveNamed(lib[s], r.name) \subseteq {i} /\ r.del = NULL /\ r \in AllRows \cup {r}
    BY <1>1 DEF CreateLibrary
  <2>6. UNCHANGED <<song, got>> /\ clock' \in Nat /\ clock <= clock'
    BY <1>0, <1>1, <1>a, <2>1 DEF CreateLibrary
  <2> HIDE DEF r
  <2> QED BY <1>a, <2>1, <2>2, <2>3, <2>4, <2>5, <2>6, LibWriteFiles
<1>2. ASSUME NEW l \in DOMAIN lib[s], NEW b \in LibBase, RenameLibrary(s, l, b)
      PROVE  FilingInv'
  <2>1. Operate("rename_library") /\ ~Creating
    BY <1>2 DEF RenameLibrary, Operate, Creating, SteadyOps
  <2> DEFINE r == [lib[s][l] EXCEPT !.name = Plain(b), !.upd = clock]
  <2>2. SetLib(s, Put(lib[s], l, r))
    BY <1>2 DEF RenameLibrary
  <2>3. lib[s][l] \in LibRow
    BY Rows
  <2>4. r.sid = lib[s][l].sid /\ r.upd = clock /\ r.name = Plain(b) /\ r.del = lib[s][l].del
    BY <2>3 DEF LibRow
  <2> HIDE DEF r
  <2>5. r.del = NULL
    BY <2>4, LibsHere
  <2>6. NewRow({r})
    BY <1>0, <1>a, <2>1, <2>4, <2>5, LibsHere DEF NewRow
  <2>7. LiveNamed(lib[s], r.name) \subseteq {l} /\ r \in AllRows \cup {r}
    BY <1>2, <2>4 DEF RenameLibrary
  <2>8. UNCHANGED <<song, got>> /\ clock' \in Nat /\ clock <= clock'
    BY <1>0, <1>2, <1>a, <2>1 DEF RenameLibrary
  <2> QED BY <1>a, <2>1, <2>2, <2>4, <2>5, <2>6, <2>7, <2>8, LibWriteFiles
<1>3. ASSUME NEW l \in DOMAIN lib[s], DeleteLibrary(s, l) \/ RestoreLibrary(s, l)
      PROVE  FilingInv'
  <2>1. ~DeleteLibrary(s, l)
    BY DEF DeleteLibrary, Operate, SteadyOps
  <2>2. ~RestoreLibrary(s, l)
    BY LibsHere DEF RestoreLibrary, Dead
  <2> QED BY <1>3, <2>1, <2>2
<1>b. ASSUME NEW op, Operate(op), UNCHANGED lib, NEW i, NEW r,
             SetSong(s, Put(song[s], i, r)), r.upd = clock,
             \/ r.sid = clock
             \/ \E k \in DOMAIN song[s] : song[s][k].sid = r.sid /\ song[s][k].lib = r.lib,
             Creating => r.del = NULL
      PROVE  FilingInv'
  BY <1>a, <1>b, StampedSongFiles
<1>4. ASSUME NEW l \in DOMAIN lib[s], NEW n \in SongName, CreateSong(s, l, n)
      PROVE  FilingInv'
  <2>1. PICK i \in Id :
          SetSong(s, Put(song[s], i, [sid |-> clock, lib |-> l, name |-> n,
                                      text |-> clock, upd |-> clock, del |-> NULL]))
    BY <1>4 DEF CreateSong
  <2>2. Operate("create_presentation") /\ UNCHANGED lib
    BY <1>4 DEF CreateSong
  <2> QED BY <1>b, <2>1, <2>2
<1>5. ASSUME NEW i \in DOMAIN song[s], NEW l \in DOMAIN lib[s], CopySong(s, i, l)
      PROVE  FilingInv'
  <2> DEFINE r == [song[s][i] EXCEPT !.sid = clock, !.lib = l, !.upd = clock]
  <2>1. PICK k \in Id : SetSong(s, Put(song[s], k, r))
    BY <1>5 DEF CopySong
  <2>2. Operate("copy_presentation") /\ UNCHANGED lib
    BY <1>5 DEF CopySong
  <2>3. r.sid = clock /\ r.upd = clock /\ r.del = song[s][i].del
    BY Rows DEF SongRow
  <2> HIDE DEF r
  <2> QED BY <1>b, <2>1, <2>2, <2>3, SongsHere
<1>6. ASSUME NEW i \in DOMAIN song[s], NEW n \in SongName, RenameSong(s, i, n)
      PROVE  FilingInv'
  <2> DEFINE r == [song[s][i] EXCEPT !.name = n, !.upd = clock]
  <2>1. /\ SetSong(s, Put(song[s], i, r))
        /\ Operate("rename_presentation") /\ UNCHANGED lib
    BY <1>6 DEF RenameSong
  <2>2. r.sid = song[s][i].sid /\ r.lib = song[s][i].lib /\ r.upd = clock
        /\ r.del = song[s][i].del
    BY Rows DEF SongRow
  <2> HIDE DEF r
  <2> QED BY <1>b, <2>1, <2>2, SongsHere
<1>7. ASSUME NEW i \in DOMAIN song[s], EditSong(s, i)
      PROVE  FilingInv'
  <2> DEFINE r == [song[s][i] EXCEPT !.text = clock, !.upd = clock]
  <2>1. /\ SetSong(s, Put(song[s], i, r))
        /\ Operate("edit_slides") /\ UNCHANGED lib
    BY <1>7 DEF EditSong
  <2>2. r.sid = song[s][i].sid /\ r.lib = song[s][i].lib /\ r.upd = clock
        /\ r.del = song[s][i].del
    BY Rows DEF SongRow
  <2> HIDE DEF r
  <2> QED BY <1>b, <2>1, <2>2, SongsHere
<1>8. ASSUME NEW i \in DOMAIN song[s], DeleteSong(s, i)
      PROVE  FilingInv'
  <2> DEFINE r == [song[s][i] EXCEPT !.del = clock, !.upd = clock]
  <2>1. /\ SetSong(s, Put(song[s], i, r))
        /\ Operate("delete_presentation") /\ UNCHANGED lib
    BY <1>8 DEF DeleteSong
  <2>2. r.sid = song[s][i].sid /\ r.lib = song[s][i].lib /\ r.upd = clock
    BY Rows DEF SongRow
  <2>3. ~Creating
    BY <2>1 DEF Operate, SteadyOps, Creating
  <2> HIDE DEF r
  <2> QED BY <1>b, <2>1, <2>2, <2>3
<1>9. ASSUME NEW i \in DOMAIN song[s], RestoreSong(s, i)
      PROVE  FilingInv'
  <2> DEFINE r == [song[s][i] EXCEPT !.del = NULL, !.upd = clock]
  <2>1. /\ SetSong(s, Put(song[s], i, r))
        /\ Operate("restore_presentation") /\ UNCHANGED lib
    BY <1>9 DEF RestoreSong
  <2>2. r.sid = song[s][i].sid /\ r.lib = song[s][i].lib /\ r.upd = clock
        /\ r.del = NULL
    BY Rows DEF SongRow
  <2> HIDE DEF r
  <2> QED BY <1>b, <2>1, <2>2
<1>10. ASSUME NEW I, ReplacePlaylist(s, I)
       PROVE  FilingInv'
  <2>1. UNCHANGED <<clock, lib, song, libTodo, got>>
    BY <1>10 DEF ReplacePlaylist, cycle
  <2>2. Quiet
    BY <1>0, <2>1, CarriedHolds
  <2> QED BY <1>0, <2>2, QuietFiles
<1>11. ~PruneSongs(s) /\ ~PruneLibraries(s)
  BY DEF PruneSongs, PruneLibraries, SteadyOps
<1> QED BY <1>1, <1>2, <1>3, <1>4, <1>5, <1>6, <1>7, <1>8, <1>9, <1>10, <1>11
        DEF LocalStep

LEMMA RowsHeld ==
  ASSUME FilingInv, NEW a \in AllRows
  PROVE  /\ a.del = NULL /\ a.sid \in Earlier /\ a.upd \in Earlier
         /\ Fact(a.sid, a.name) \in AllFacts
         /\ ~Creating => \A u \in Site : BySid(lib[u], a.sid) # {}
<1>1. Fact(a.sid, a.name) \in AllFacts
  BY DEF AllRows, AllFacts, LibFacts
<1>2. Fact(a.sid, a.name).sid = a.sid
  BY DEF Fact
<1> QED BY <1>1, <1>2 DEF FilingInv, RowsApart, FactsApart

LEMMA FreeName ==
  ASSUME NEW L, NEW i, NEW n, NEW k, IsFreeName(L, i, n, k)
  PROVE  LiveNamed(L, Candidate(n, k)) \subseteq {i}
BY DEF IsFreeName, LiveNamed

LEMMA ApplyLibraryFiles ==
  ASSUME FilingInv, IInv, NEW s \in Site, ApplyLibrary(s)
  PROVE  FilingInv'
<1>0. clock \in Nat /\ clock <= clock /\ DOMAIN libTodo = Site
  BY DEF IInv, TypeOK, Tables
<1>1. PICK e \in DOMAIN libTodo[s] :
        /\ TakeLibrary(s, e)
        /\ \/ \E i \in DOMAIN lib[s] : UpdateLibrary(s, libTodo[s][e], i)
           \/ \E i \in DOMAIN lib[s] : AdoptLibrary(s, libTodo[s][e], i)
           \/ \E i \in Id : ImportLibrary(s, libTodo[s][e], i)
           \/ SkipLibrary(s, libTodo[s][e])
  BY DEF ApplyLibrary
<1> DEFINE w == libTodo[s][e]
<1>2. w \in AllRows /\ w.del = NULL /\ w.sid \in Earlier /\ w.upd \in Earlier
      /\ (~Creating => \A u \in Site : BySid(lib[u], w.sid) # {})
  BY HeldHere, RowsHeld
<1>3. w \in LibRow
  BY DEF IInv, TypeOK, Tables, IsTable
<1>4. /\ UNCHANGED <<song, got>>
      /\ \A t \in Site \ {s} : libTodo'[t] = libTodo[t]
      /\ libTodo'[s] = Without(libTodo[s], {e})
  BY <1>0, <1>1 DEF TakeLibrary
<1>5. \A d \in DOMAIN libTodo'[s] : libTodo'[s][d] \in AllRows
  <2>1. \A d \in DOMAIN libTodo'[s] : d \in DOMAIN libTodo[s]
                                        /\ libTodo'[s][d] = libTodo[s][d]
    BY <1>4 DEF Without, Restrict
  <2> QED BY <2>1, HeldHere
<1>6. NewRow({})
  BY DEF NewRow
<1> HIDE DEF w
<1>7. ASSUME NEW i \in DOMAIN lib[s], UpdateLibrary(s, w, i)
      PROVE  FilingInv'
  <2>1. w.upd > lib[s][i].upd /\ lib[s][i].sid = w.sid
    BY <1>7 DEF UpdateLibrary, BySid
  <2>2. ~Creating
    <3>1. lib[s][i] \in AllRows /\ lib[s][i].upd \in Nat
      BY LibsHere DEF Earlier
    <3>2. SUFFICES ASSUME Creating PROVE FALSE
      OBVIOUS
    <3>3. lib[s][i] = w
      BY <1>2, <2>1, <3>1, <3>2 DEF FilingInv, RowsApart
    <3> QED BY <2>1, <3>1, <3>3
  <2>3. PICK k \in 1 .. MaxSuffix :
          /\ IsFreeName(lib[s], i, w.name, k)
          /\ IF k = 1 THEN SetLib(s, Put(lib[s], i, w)) /\ UNCHANGED clock
             ELSE /\ SetLib(s, Put(lib[s], i, [w EXCEPT !.name = Candidate(w.name, k),
                                                        !.upd = clock]))
                  /\ clock' = clock + 1
    BY <1>2, <1>7 DEF UpdateLibrary
  <2>4. CASE k = 1
    <3>1. SetLib(s, Put(lib[s], i, w)) /\ clock' \in Nat /\ clock <= clock'
      BY <1>0, <2>3, <2>4
    <3>2. Candidate(w.name, k) = w.name
      BY <2>4 DEF Candidate
    <3>3. LiveNamed(lib[s], w.name) \subseteq {i} /\ w \in AllRows \cup {}
      BY <1>2, <2>3, <3>2, FreeName
    <3> QED BY <1>2, <1>4, <1>5, <1>6, <2>1, <2>2, <3>1, <3>3, LibWriteFiles
  <2>5. CASE k # 1
    <3> DEFINE r == [w EXCEPT !.name = Candidate(w.name, k), !.upd = clock]
    <3>1. /\ SetLib(s, Put(lib[s], i, r))
          /\ clock' \in Nat /\ clock <= clock' /\ clock < clock'
      BY <1>0, <2>3, <2>5
    <3>2. /\ r.sid = w.sid /\ r.upd = clock /\ r.name = Candidate(w.name, k)
          /\ r.del = w.del
      BY <1>3 DEF LibRow
    <3> HIDE DEF r
    <3>3. LiveNamed(lib[s], r.name) \subseteq {i} /\ r \in AllRows \cup {r}
      BY <2>3, <3>2, FreeName
    <3>4. NewRow({r})
      BY <1>2, <2>2, <3>1, <3>2 DEF NewRow
    <3> QED BY <1>2, <1>4, <1>5, <2>1, <2>2, <3>1, <3>2, <3>3, <3>4, LibWriteFiles
  <2> QED BY <2>4, <2>5
<1>8. ASSUME NEW i \in DOMAIN lib[s], AdoptLibrary(s, w, i)
      PROVE  FilingInv'
  <2>1. Creating
    BY <1>2, <1>8 DEF AdoptLibrary
  <2>2. /\ i \in LiveNamed(lib[s], w.name) /\ SetLib(s, Put(lib[s], i, w))
        /\ clock' \in Nat /\ clock <= clock'
    BY <1>0, <1>8 DEF AdoptLibrary
  <2>3. LiveNamed(lib[s], w.name) \subseteq {i}
    BY <2>2 DEF FilingInv, LiveNamesUnique, LiveNamed
  <2>4. w.name = lib[s][i].name /\ w \in AllRows \cup {}
    BY <1>2, <2>2 DEF LiveNamed
  <2> QED BY <1>2, <1>4, <1>5, <1>6, <2>1, <2>2, <2>3, <2>4, LibWriteFiles
<1>9. ASSUME NEW i \in Id, ImportLibrary(s, w, i)
      PROVE  FilingInv'
  <2>1. /\ IsNext(i, lib[s]) /\ SetLib(s, Put(lib[s], i, w))
        /\ clock' \in Nat /\ clock <= clock'
    BY <1>0, <1>9 DEF ImportLibrary
  <2>2. i \notin DOMAIN lib[s]
    BY <2>1, NextIsNew
  <2>3. LiveNamed(lib[s], w.name) \subseteq {i} /\ w \in AllRows \cup {}
    BY <1>2, <1>9 DEF ImportLibrary
  <2> QED BY <1>2, <1>4, <1>5, <1>6, <2>1, <2>2, <2>3, LibWriteFiles
<1>10. CASE SkipLibrary(s, w)
  <2>1. UNCHANGED <<lib, song>> /\ clock' \in Nat /\ clock <= clock'
    BY <1>0, <1>4, <1>10 DEF SkipLibrary
  <2>2. \A u \in got'[s] : u \in got[s]
    BY <1>4
  <2>3. \A t \in Site \ {s} : libTodo'[t] = libTodo[t] /\ got'[t] = got[t]
    BY <1>4
  <2>4. Quiet
    BY <1>4, <2>1, <2>2, <2>3, CarriedHolds
  <2> QED BY <1>0, <2>4, QuietFiles
<1> QED BY <1>1, <1>7, <1>8, <1>9, <1>10 DEF w

\* The answer w, written as song i of s where its library belongs.
LEMMA WrittenSongFiles ==
  ASSUME FilingInv, IInv, NEW s \in Site, NEW w \in got[s],
         NEW i, NEW p, WriteSong(s, i, w, p), p.forced = NULL,
         UNCHANGED libTodo, got' = [got EXCEPT ![s] = {}],
         \E NR : NewRow(NR) /\ \A k \in DOMAIN p.libs : p.libs[k] \in AllRows \cup NR,
         \A k \in DOMAIN lib[s] : k \in DOMAIN p.libs /\ p.libs[k] = lib[s][k],
         FileKey(p.libs[p.at].sid, p.libs[p.at].name) = WireKey(w)
  PROVE  FilingInv'
<1> DEFINE row == SyncedRow(w, p)
<1>0. clock \in Nat /\ clock' \in Nat /\ clock <= clock'
  <2>1. clock \in Nat
    BY DEF IInv, TypeOK
  <2>2. clock' = clock + 1 \/ clock' = clock
    BY DEF WriteSong
  <2> QED BY <2>1, <2>2
<1> PICK NR : NewRow(NR) /\ \A k \in DOMAIN p.libs : p.libs[k] \in AllRows \cup NR
  OBVIOUS
<1>1. /\ lib'[s] = p.libs /\ song'[s] = Put(song[s], i, row) /\ got'[s] = {}
      /\ \A t \in Site \ {s} : /\ lib'[t] = lib[t] /\ song'[t] = song[t]
                               /\ libTodo'[t] = libTodo[t] /\ got'[t] = got[t]
  BY DEF WriteSong, SetLib, SetSong, IInv, TypeOK, Tables
<1>2. /\ row.sid = w.sid /\ row.upd = w.upd /\ row.name = w.name /\ row.del = w.del
      /\ row.lib = p.at
  BY DEF SyncedRow
<1> HIDE DEF row
<1>3. LiveNamesUnique(lib'[s])
  BY <1>1 DEF WriteSong
<1>4. \A k \in DOMAIN lib'[s] : lib'[s][k] \in AllRows \cup NR
  BY <1>1
<1>5. \A k \in DOMAIN song'[s] : Version(song'[s][k], SongKey(s, k)') \in AllVersions \cup {}
  <2> SUFFICES ASSUME NEW k \in DOMAIN song'[s]
               PROVE  Version(song'[s][k], SongKey(s, k)') \in AllVersions
    OBVIOUS
  <2>1. CASE k = i
    <3>1. song'[s][k] = row
      BY <1>1, <2>1 DEF Put
    <3>2. SongKey(s, k)' = WireKey(w)
      BY <1>1, <1>2, <3>1 DEF SongKey, FileKey, Creating
    <3>3. Version(song'[s][k], SongKey(s, k)') = Version(w, WireKey(w))
      BY <1>2, <3>1, <3>2 DEF Version
    <3> QED BY <3>3, HeldHere
  <2>2. CASE k # i
    <3>1. k \in DOMAIN song[s] /\ song'[s][k] = song[s][k]
      BY <1>1, <2>2 DEF Put
    <3>2. song[s][k].lib \in DOMAIN lib[s]
      BY <3>1, Rows
    <3>3. SongKey(s, k)' = SongKey(s, k)
      BY <1>1, <3>1, <3>2 DEF SongKey, FileKey, Creating
    <3> QED BY <3>1, <3>3, HeldHere
  <2> QED BY <2>1, <2>2
<1>6. /\ \A e \in DOMAIN libTodo'[s] : libTodo'[s][e] \in AllRows
      /\ \A u \in got'[s] : /\ Fact(u.libSid, u.libName) \in AllFacts
                            /\ Version(u, WireKey(u)) \in AllVersions
  BY <1>1, HeldHere
<1>7. ~Creating => \A j \in DOMAIN lib[s] :
        \E k \in DOMAIN lib'[s] : lib'[s][k].sid = lib[s][j].sid
  BY <1>1
<1>8. NewVersion({})
  BY DEF NewVersion
<1> QED BY <1>0, <1>1, <1>3, <1>4, <1>5, <1>6, <1>7, <1>8, SiteFiles

\* What an answer tells.
LEMMA AnswerHeld ==
  ASSUME FilingInv, NEW s \in Site, NEW w \in got[s]
  PROVE  /\ ~Creating => \A t \in Site : BySid(lib[t], w.libSid) # {}
         /\ Creating => w.del = NULL
         /\ \A h \in BySid(lib[s], w.libSid) :
              FileKey(lib[s][h].sid, lib[s][h].name) = WireKey(w)
         /\ \A h \in LiveNamed(lib[s], w.libName) :
              Creating => FileKey(lib[s][h].sid, lib[s][h].name) = WireKey(w)
         /\ \A k \in BySid(song[s], w.sid) :
              FileKey(lib[s][song[s][k].lib].sid, lib[s][song[s][k].lib].name) = WireKey(w)
<1> DEFINE f == Fact(w.libSid, w.libName)
           v == Version(w, WireKey(w))
<1>1. f \in AllFacts /\ v \in AllVersions
  BY HeldHere
<1>2. f.sid = w.libSid /\ f.name = w.libName /\ v.del = w.del /\ v.sid = w.sid
      /\ v.key = WireKey(w)
  BY DEF Fact, Version
<1> HIDE DEF f, v
<1>3. ASSUME NEW h \in BySid(lib[s], w.libSid)
      PROVE  FileKey(lib[s][h].sid, lib[s][h].name) = WireKey(w)
  <2>1. h \in DOMAIN lib[s] /\ lib[s][h].sid = w.libSid
    BY DEF BySid
  <2>2. CASE ~Creating
    BY <2>1, <2>2 DEF FileKey, WireKey
  <2>3. CASE Creating
    <3> DEFINE g == Fact(lib[s][h].sid, lib[s][h].name)
    <3>1. g \in AllFacts
      BY <2>1, HeldHere
    <3>2. g.sid = w.libSid /\ g.name = lib[s][h].name
      BY <2>1 DEF Fact
    <3> HIDE DEF g
    <3>3. f = g
      BY <1>1, <1>2, <2>3, <3>1, <3>2 DEF FilingInv, FactsApart
    <3> QED BY <1>2, <2>3, <3>2, <3>3 DEF FileKey, WireKey
  <2> QED BY <2>2, <2>3
<1>4. \A h \in LiveNamed(lib[s], w.libName) :
        Creating => FileKey(lib[s][h].sid, lib[s][h].name) = WireKey(w)
  BY DEF FileKey, WireKey, LiveNamed
<1>5. ASSUME NEW k \in BySid(song[s], w.sid)
      PROVE  FileKey(lib[s][song[s][k].lib].sid, lib[s][song[s][k].lib].name) = WireKey(w)
  <2> DEFINE u == Version(song[s][k], SongKey(s, k))
  <2>1. u \in AllVersions /\ song[s][k].sid = w.sid
    BY HeldHere DEF BySid
  <2>2. u.sid = w.sid /\ u.key = SongKey(s, k)
    BY <2>1 DEF Version
  <2> HIDE DEF u
  <2>3. u.key = v.key
    BY <1>1, <1>2, <2>1, <2>2 DEF FilingInv, VersionsApart
  <2> QED BY <1>2, <2>2, <2>3 DEF SongKey
<1>6. /\ ~Creating => \A t \in Site : BySid(lib[t], w.libSid) # {}
      /\ Creating => w.del = NULL
  BY <1>1, <1>2 DEF FilingInv, FactsApart, VersionsApart
<1> QED BY <1>3, <1>4, <1>5, <1>6

\* A song written where ensure_library puts it.
LEMMA EnsuredSongFiles ==
  ASSUME FilingInv, IInv, NEW s \in Site, NEW w \in got[s],
         NEW i, NEW new \in Id, IsNext(new, lib[s]),
         WriteSong(s, i, w, EnsureLibrary(lib[s], w, new, clock)),
         UNCHANGED libTodo, got' = [got EXCEPT ![s] = {}]
  PROVE  FilingInv'
<1> DEFINE p == EnsureLibrary(lib[s], w, new, clock)
<1>0. WriteSong(s, i, w, p) /\ clock \in Nat
  BY DEF IInv, TypeOK
<1>1. CASE HomeOf(lib[s], w) = {}
  <2>1. BySid(lib[s], w.libSid) = {}
    BY <1>1 DEF HomeOf
  <2>2. Creating /\ w.del = NULL
    BY <2>1, AnswerHeld
  <2> DEFINE r == [sid |-> clock, name |-> w.libName, upd |-> clock, del |-> NULL]
  <2>3. p = Placement(Put(lib[s], new, r), new, NULL, TRUE)
    BY <1>1, <2>2 DEF EnsureLibrary
  <2> HIDE DEF p
  <2>4. p.libs = Put(lib[s], new, r) /\ p.at = new /\ p.forced = NULL /\ p.minted
    BY <2>3 DEF Placement
  <2>5. clock' = clock + 1
    BY <1>0, <2>4 DEF WriteSong
  <2> DEFINE NR == {r}
  <2>6. NewRow(NR)
    BY <1>0, <2>2, <2>5 DEF NewRow
  <2>7. new \notin DOMAIN lib[s]
    BY NextIsNew
  <2>8. FileKey(r.sid, r.name) = WireKey(w)
    BY <2>2 DEF FileKey, WireKey
  <2> HIDE DEF r
  <2>9. /\ \A k \in DOMAIN lib[s] : k \in DOMAIN p.libs /\ p.libs[k] = lib[s][k]
        /\ p.libs[p.at] = r
        /\ \A k \in DOMAIN p.libs : p.libs[k] = r \/ k \in DOMAIN lib[s]
    BY <2>4, <2>7 DEF Put
  <2>10. \A k \in DOMAIN p.libs : p.libs[k] \in AllRows \cup NR
    BY <2>9, HeldHere
  <2>11. FileKey(p.libs[p.at].sid, p.libs[p.at].name) = WireKey(w)
    BY <2>8, <2>9
  <2>12. p.forced = NULL /\ \A k \in DOMAIN lib[s] : k \in DOMAIN p.libs /\ p.libs[k] = lib[s][k]
    BY <2>4, <2>9
  <2>13. WriteSong(s, i, w, p)
    BY <1>0
  <2>14. \E N : NewRow(N) /\ \A k \in DOMAIN p.libs : p.libs[k] \in AllRows \cup N
    BY <2>6, <2>10
  <2> QED BY <2>11, <2>12, <2>13, <2>14, WrittenSongFiles
<1>2. CASE HomeOf(lib[s], w) # {}
  <2> DEFINE h == CHOOSE k \in HomeOf(lib[s], w) : TRUE
  <2>1. h \in HomeOf(lib[s], w) /\ h \in DOMAIN lib[s]
    BY <1>2, HomeExists
  <2> HIDE DEF h
  <2>2. lib[s][h].del = NULL
    BY <2>1, LibsHere
  <2>3. p = Placement(lib[s], h, NULL, FALSE)
    BY <1>2, <2>2 DEF EnsureLibrary, h
  <2>4. FileKey(lib[s][h].sid, lib[s][h].name) = WireKey(w)
    <3>1. CASE h \in BySid(lib[s], w.libSid)
      BY <3>1, AnswerHeld
    <3>2. CASE h \notin BySid(lib[s], w.libSid)
      <4>1. BySid(lib[s], w.libSid) = {}
        BY <2>1, <3>2 DEF HomeOf
      <4>2. Creating
        BY <4>1, AnswerHeld
      <4>3. h \in LiveNamed(lib[s], w.libName)
        <5>1. h \notin MostRecentTombstone(lib[s], w.libName)
          BY <2>2 DEF MostRecentTombstone, Dead
        <5> QED BY <2>1, <4>1, <5>1 DEF HomeOf
      <4> QED BY <4>2, <4>3, AnswerHeld
    <3> QED BY <3>1, <3>2
  <2> HIDE DEF p
  <2>5. p.libs = lib[s] /\ p.at = h /\ p.forced = NULL
    BY <2>3 DEF Placement
  <2>6. NewRow({})
    BY DEF NewRow
  <2>7. \A k \in DOMAIN p.libs : p.libs[k] \in AllRows \cup {}
    BY <2>5, HeldHere
  <2>8. \A k \in DOMAIN lib[s] : k \in DOMAIN p.libs /\ p.libs[k] = lib[s][k]
    BY <2>5
  <2> QED BY <1>0, <2>4, <2>5, <2>6, <2>7, <2>8, WrittenSongFiles
<1> QED BY <1>1, <1>2

\* A song written under the library of a row that is here.
LEMMA PlacedSongFiles ==
  ASSUME FilingInv, IInv, NEW s \in Site, NEW w \in got[s],
         NEW i, NEW h \in DOMAIN lib[s],
         FileKey(lib[s][h].sid, lib[s][h].name) = WireKey(w),
         WriteSong(s, i, w, Placement(lib[s], h, NULL, FALSE)),
         UNCHANGED libTodo, got' = [got EXCEPT ![s] = {}]
  PROVE  FilingInv'
<1> DEFINE p == Placement(lib[s], h, NULL, FALSE)
<1>1. WriteSong(s, i, w, p)
  OBVIOUS
<1>2. p.libs = lib[s] /\ p.at = h /\ p.forced = NULL
  BY DEF Placement
<1> HIDE DEF p
<1>3. NewRow({})
  BY DEF NewRow
<1>4. \A k \in DOMAIN p.libs : p.libs[k] \in AllRows \cup {}
  BY <1>2, HeldHere
<1>5. \A k \in DOMAIN lib[s] : k \in DOMAIN p.libs /\ p.libs[k] = lib[s][k]
  BY <1>2
<1> QED BY <1>1, <1>2, <1>3, <1>4, <1>5, WrittenSongFiles

LEMMA ApplySongFiles ==
  ASSUME FilingInv, IInv, NEW s \in Site, ApplySong(s)
  PROVE  FilingInv'
<1>1. PICK w \in got[s] :
        \/ \E i \in DOMAIN song[s] : UpdateSong(s, w, i)
        \/ \E i \in DOMAIN song[s] : AdoptSong(s, w, i)
        \/ \E i \in Id : ImportSong(s, w, i)
        \/ SkipSong(s, w)
        \/ RefuseSong(s, w)
  BY DEF ApplySong
<1>2. UNCHANGED libTodo /\ got' = [got EXCEPT ![s] = {}]
  BY DEF ApplySong
<1>3. ASSUME NEW i \in DOMAIN song[s], UpdateSong(s, w, i)
      PROVE  FilingInv'
  <2>1. PICK new \in Id : IsNext(new, lib[s]) /\ WriteSong(s, i, w, PlaceKnown(s, w, i, new))
    BY <1>3 DEF UpdateSong
  <2>2. CASE w.del # NULL
    <3>1. PlaceKnown(s, w, i, new) = Placement(lib[s], song[s][i].lib, NULL, FALSE)
      BY <2>2 DEF PlaceKnown
    <3>2. i \in BySid(song[s], w.sid) /\ song[s][i].lib \in DOMAIN lib[s]
      BY <1>3, Rows DEF UpdateSong
    <3>3. FileKey(lib[s][song[s][i].lib].sid, lib[s][song[s][i].lib].name) = WireKey(w)
      BY <3>2, AnswerHeld
    <3> QED BY <1>2, <2>1, <3>1, <3>2, <3>3, PlacedSongFiles
  <2>3. CASE w.del = NULL
    <3>1. PlaceKnown(s, w, i, new) = EnsureLibrary(lib[s], w, new, clock)
      BY <2>3 DEF PlaceKnown
    <3>2. WriteSong(s, i, w, EnsureLibrary(lib[s], w, new, clock))
      BY <2>1, <3>1
    <3> QED BY <1>2, <2>1, <3>2, EnsuredSongFiles
  <2> QED BY <2>2, <2>3
<1>4. ASSUME NEW i \in DOMAIN song[s], AdoptSong(s, w, i)
      PROVE  FilingInv'
  <2>1. /\ WriteSong(s, i, w, Placement(lib[s], song[s][i].lib, NULL, FALSE))
        /\ song[s][i].lib \in DOMAIN lib[s]
    BY <1>4, Rows DEF AdoptSong
  <2>2. song[s][i].lib \in FindLibrary(lib[s], w)
    BY <1>4 DEF AdoptSong, Adoptable, AdoptionCandidate
  <2>3. FileKey(lib[s][song[s][i].lib].sid, lib[s][song[s][i].lib].name) = WireKey(w)
    <3>1. CASE BySid(lib[s], w.libSid) # {}
      BY <2>2, <3>1, AnswerHeld DEF FindLibrary
    <3>2. CASE BySid(lib[s], w.libSid) = {}
      <4>1. Creating
        BY <3>2, AnswerHeld
      <4>2. song[s][i].lib \in LiveNamed(lib[s], w.libName)
        BY <2>2, <3>2 DEF FindLibrary
      <4> QED BY <4>1, <4>2, AnswerHeld
    <3> QED BY <3>1, <3>2
  <2> QED BY <1>2, <2>1, <2>3, PlacedSongFiles
<1>5. ASSUME NEW i \in Id, ImportSong(s, w, i)
      PROVE  FilingInv'
  <2>1. PICK new \in Id : /\ IsNext(new, lib[s])
                          /\ WriteSong(s, i, w, EnsureLibrary(lib[s], w, new, clock))
    BY <1>5 DEF ImportSong
  <2> QED BY <1>2, <2>1, EnsuredSongFiles
<1>6. CASE SkipSong(s, w) \/ RefuseSong(s, w)
  <2>1. UNCHANGED <<lib, song>> /\ clock' \in Nat /\ clock <= clock'
    BY <1>6 DEF SkipSong, RefuseSong, db, IInv, TypeOK
  <2>2. got'[s] \subseteq got[s]
        /\ \A t \in Site \ {s} : libTodo'[t] = libTodo[t] /\ got'[t] = got[t]
    BY <1>2 DEF IInv, TypeOK
  <2>3. Quiet
    BY <1>2, <2>1, <2>2, CarriedHolds
  <2> QED BY <2>3, QuietFiles DEF IInv, TypeOK
<1> QED BY <1>1, <1>3, <1>4, <1>5, <1>6

LEMMA NothingHolds ==
  ASSUME UNCHANGED <<lib, song, libTodo, got>>, clock' \in Nat, clock <= clock'
  PROVE  Quiet
<1>1. \A s \in Site : /\ LibRows(s)' = LibRows(s) /\ LibFacts(s)' = LibFacts(s)
                      /\ Versions(s)' = Versions(s)
  BY DEF LibRows, LibFacts, Versions, SongKey, FileKey, WireKey, Creating
<1>2. AllRows' = AllRows /\ AllFacts' = AllFacts /\ AllVersions' = AllVersions
  BY <1>1 DEF AllRows, AllFacts, AllVersions
<1> QED BY <1>2 DEF Quiet

\* Time, and the steps that write nothing.
LEMMA IdleHolds ==
  ASSUME IInv, Elapse \/ UNCHANGED vars
  PROVE  Quiet
<1>1. clock \in Nat /\ clock <= clock /\ clock + 1 \in Nat /\ clock <= clock + 1
  BY DEF IInv, TypeOK
<1>2. UNCHANGED <<lib, song, libTodo, got>> /\ (clock' = clock \/ clock' = clock + 1)
  BY DEF Elapse, vars, db, cycle
<1> QED BY <1>1, <1>2, NothingHolds

LEMMA NextKeepsFiling ==
  ASSUME SteadyOps, FilingInv, IInv, \A s \in Site : ~pruning[s], [Next]_vars
  PROVE  FilingInv'
<1>0. clock \in Nat
  BY DEF IInv, TypeOK
<1>1. ASSUME NEW s \in Site, LocalStep(s)
      PROVE  FilingInv'
  BY <1>1, LocalStepFiles
<1>2. ASSUME NEW s \in Site, CycleStep(s)
      PROVE  FilingInv'
  BY <1>0, <1>2, ApplyLibraryFiles, ApplySongFiles, CycleStepHolds, QuietFiles
<1>3. ASSUME NEW s \in Site, FailureStep(s)
      PROVE  FilingInv'
  BY <1>0, <1>3, FailureStepHolds, QuietFiles
<1>4. CASE Elapse \/ UNCHANGED vars
  BY <1>0, <1>4, IdleHolds, QuietFiles
<1> QED BY <1>1, <1>2, <1>3, <1>4 DEF Next

LEMMA InitFiling == Init => FilingInv
<1> SUFFICES ASSUME Init PROVE FilingInv
  OBVIOUS
<1>1. \A s \in Site : /\ DOMAIN lib[s] = {} /\ DOMAIN song[s] = {}
                      /\ DOMAIN libTodo[s] = {} /\ got[s] = {}
  BY DEF Init, EmptyTable
<1>2. \A s \in Site : LibRows(s) = {} /\ LibFacts(s) = {} /\ Versions(s) = {}
  BY <1>1 DEF LibRows, LibFacts, Versions
<1>3. AllRows = {} /\ AllFacts = {} /\ AllVersions = {}
  BY <1>2 DEF AllRows, AllFacts, AllVersions
<1>4. \A s \in Site : LiveNamesUnique(lib[s])
  BY <1>1 DEF LiveNamesUnique, Live
<1> QED BY <1>3, <1>4 DEF FilingInv, RowsApart, FactsApart, VersionsApart

\* Where a cycle has nothing to pull, no song of the peer that is known here is
\* newer there, and one that is unknown has a live namesake that is not older.
LEMMA NoNewerSong ==
  ASSUME IInv, NEW s \in Site, NEW t \in Site, t = Peer[s], NothingToPull(s),
         NEW e \in DOMAIN song[t]
  PROVE  LET w == Wire(lib[t], song[t], e)
             ids == {song[t][k].sid : k \in DOMAIN song[t]}
         IN  /\ \A k \in BySid(song[s], w.sid) : w.upd <= song[s][k].upd
             /\ BySid(song[s], w.sid) = {} /\ w.del = NULL =>
                  \E k \in Adoptable(lib[s], song[s], w, ids) : w.upd <= song[s][k].upd
<1> DEFINE w == Wire(lib[t], song[t], e)
           ids == {song[t][k].sid : k \in DOMAIN song[t]}
           known == BySid(song[s], w.sid)
           namesakes == Adoptable(lib[s], song[s], w, ids)
<1>1. ~ShouldApply(w.upd, w.del,
                   UpdOf(song[s], IF known # {} THEN known ELSE namesakes), clock)
  BY DEF NothingToPull
<1>2. w.upd \in Nat /\ w.sid \in Nat
  <2>1. w.upd = song[t][e].upd /\ w.sid = song[t][e].sid
    BY DEF Wire
  <2> QED BY <2>1, Rows DEF SongRow
<1> HIDE DEF w, ids
<1>3. namesakes \subseteq DOMAIN song[s] /\ known \subseteq DOMAIN song[s]
  BY DEF Adoptable, AdoptionCandidate, LiveNamed, Live, BySid
<1> HIDE DEF namesakes
<1>4. \A k \in DOMAIN song[s] : song[s][k].upd \in Nat
  BY Rows DEF SongRow
<1>5. ASSUME NEW k \in known
      PROVE  w.upd <= song[s][k].upd
  <2>1. PICK h \in UpdOf(song[s], known) : ~(w.upd > h)
    BY <1>1 DEF ShouldApply, UpdOf
  <2>2. PICK j \in known : h = song[s][j].upd
    BY <2>1 DEF UpdOf
  <2>3. j = k
    BY DEF BySid, IInv, DbOK, SidsUnique
  <2> QED BY <1>2, <1>3, <1>4, <2>1, <2>2, <2>3
<1>6. ASSUME known = {}, w.del = NULL
      PROVE  \E k \in namesakes : w.upd <= song[s][k].upd
  <2>1. ~ShouldApply(w.upd, w.del, UpdOf(song[s], namesakes), clock)
    BY <1>1, <1>6
  <2>2. PICK h \in UpdOf(song[s], namesakes) : ~(w.upd > h)
    BY <1>6, <2>1 DEF ShouldApply, ApplyUnknown
  <2>3. PICK j \in namesakes : h = song[s][j].upd
    BY <2>2 DEF UpdOf
  <2> QED BY <1>2, <1>3, <1>4, <2>2, <2>3
<1> QED BY <1>5, <1>6 DEF namesakes, w, ids

\* The same of the peer's libraries.
LEMMA NoNewerLibrary ==
  ASSUME IInv, FilingInv, NEW s \in Site, NEW t \in Site, t = Peer[s], NothingToPull(s),
         NEW e \in DOMAIN lib[t]
  PROVE  LET w == lib[t][e]
         IN  /\ \A x \in BySid(lib[s], w.sid) : w.upd <= lib[s][x].upd
             /\ BySid(lib[s], w.sid) = {} =>
                  \E x \in LiveNamed(lib[s], w.name) : w.upd <= lib[s][x].upd
<1> DEFINE w == lib[t][e]
<1>1. ~ShouldApply(w.upd, w.del, UpdOf(lib[s], Namesakes(s, w)), clock)
  BY DEF NothingToPull
<1>2. w.upd \in Nat /\ w.del = NULL
  BY Rows, LibsHere DEF LibRow
<1> HIDE DEF w
<1>3. \A x \in DOMAIN lib[s] : lib[s][x].upd \in Nat
  BY Rows DEF LibRow
<1>4. PICK h \in UpdOf(lib[s], Namesakes(s, w)) : ~(w.upd > h)
  BY <1>1, <1>2 DEF ShouldApply, ApplyUnknown
<1>5. PICK x \in Namesakes(s, w) : h = lib[s][x].upd
  BY <1>4 DEF UpdOf
<1>6. x \in DOMAIN lib[s]
  BY <1>5 DEF Namesakes, BySid, LiveNamed, Live
<1>7. w.upd <= lib[s][x].upd
  BY <1>2, <1>3, <1>4, <1>5, <1>6
<1>8. ASSUME NEW y \in BySid(lib[s], w.sid)
      PROVE  w.upd <= lib[s][y].upd
  <2>1. x \in BySid(lib[s], w.sid)
    BY <1>5 DEF Namesakes
  <2>2. x = y
    BY <2>1 DEF BySid, IInv, DbOK, SidsUnique
  <2> QED BY <1>7, <2>2
<1>9. ASSUME BySid(lib[s], w.sid) = {}
      PROVE  \E y \in LiveNamed(lib[s], w.name) : w.upd <= lib[s][y].upd
  <2>1. x \in LiveNamed(lib[s], w.name)
    BY <1>2, <1>5, <1>9 DEF Namesakes
  <2> QED BY <1>7, <2>1
<1> QED BY <1>8, <1>9 DEF w

\* Two libraries of one identity, while libraries are being created.
LEMMA SameRow ==
  ASSUME FilingInv, NEW s \in Site, NEW t \in Site,
         NEW i \in DOMAIN lib[s], NEW k \in DOMAIN lib[t]
  PROVE  /\ lib[s][i].upd = lib[t][k].upd => lib[s][i] = lib[t][k]
         /\ Creating /\ lib[s][i].sid = lib[t][k].sid => lib[s][i] = lib[t][k]
<1>1. lib[s][i] \in AllRows /\ lib[t][k] \in AllRows
  BY LibsHere
<1> QED BY <1>1 DEF FilingInv, RowsApart

LEMMA SameSong ==
  ASSUME FilingInv, NEW s \in Site, NEW t \in Site,
         NEW i \in DOMAIN song[s], NEW k \in DOMAIN song[t],
         song[s][i].upd = song[t][k].upd
  PROVE  /\ song[s][i].sid = song[t][k].sid /\ song[s][i].name = song[t][k].name
         /\ song[s][i].del = song[t][k].del /\ SongKey(s, i) = SongKey(t, k)
<1> DEFINE u == Version(song[s][i], SongKey(s, i))
           v == Version(song[t][k], SongKey(t, k))
<1>1. u \in AllVersions /\ v \in AllVersions
  BY HeldHere
<1>2. /\ u.sid = song[s][i].sid /\ u.upd = song[s][i].upd /\ u.name = song[s][i].name
      /\ u.del = song[s][i].del /\ u.key = SongKey(s, i)
      /\ v.sid = song[t][k].sid /\ v.upd = song[t][k].upd /\ v.name = song[t][k].name
      /\ v.del = song[t][k].del /\ v.key = SongKey(t, k)
  BY DEF Version
<1> HIDE DEF u, v
<1>3. u = v
  BY <1>1, <1>2 DEF FilingInv, VersionsApart
<1> QED BY <1>2, <1>3

\* Where a song may be adopted at one site, the one it would be adopted by is
\* looked for in its library at the other.
LEMMA LibrariesMeet ==
  ASSUME FilingInv, IInv, NEW s \in Site, NEW p \in Site,
         NEW i \in DOMAIN song[s], NEW k \in DOMAIN song[p],
         song[p][k].lib \in FindLibrary(lib[p], Wire(lib[s], song[s], i))
  PROVE  song[s][i].lib \in FindLibrary(lib[s], Wire(lib[p], song[p], k))
<1> DEFINE l == song[s][i].lib
           m == song[p][k].lib
           w == Wire(lib[s], song[s], i)
           v == Wire(lib[p], song[p], k)
<1>1. /\ l \in DOMAIN lib[s] /\ m \in DOMAIN lib[p]
      /\ l \in Live(lib[s]) /\ m \in Live(lib[p])
  BY Rows, LibsHere
<1>2. /\ w.libSid = lib[s][l].sid /\ w.libName = lib[s][l].name
      /\ v.libSid = lib[p][m].sid /\ v.libName = lib[p][m].name
  BY DEF Wire
<1>3. m \in FindLibrary(lib[p], w)
  OBVIOUS
<1> SUFFICES l \in FindLibrary(lib[s], v)
  OBVIOUS
<1> HIDE DEF l, m, w, v
<1>4. CASE lib[p][m].sid = lib[s][l].sid
  BY <1>1, <1>2, <1>4 DEF FindLibrary, BySid
<1>5. CASE lib[p][m].sid # lib[s][l].sid
  <2>1. BySid(lib[p], lib[s][l].sid) = {} /\ m \in LiveNamed(lib[p], lib[s][l].name)
    BY <1>2, <1>3, <1>5 DEF FindLibrary, BySid
  <2>2. Creating
    BY <1>1, <2>1, LibsHere
  <2>3. lib[p][m].name = lib[s][l].name
    BY <2>1 DEF LiveNamed
  <2>4. BySid(lib[s], lib[p][m].sid) = {}
    <3> SUFFICES ASSUME NEW x \in DOMAIN lib[s], lib[s][x].sid = lib[p][m].sid
                 PROVE  FALSE
      BY DEF BySid
    <3>1. lib[s][x] = lib[p][m]
      BY <1>1, <2>2, SameRow
    <3>2. x \in Live(lib[s])
      BY LibsHere
    <3>3. x = l
      BY <1>1, <2>3, <3>1, <3>2 DEF FilingInv, LiveNamesUnique
    <3> QED BY <1>5, <3>3
  <2>5. l \in LiveNamed(lib[s], v.libName)
    BY <1>1, <1>2, <2>3 DEF LiveNamed
  <2> QED BY <1>2, <2>4, <2>5 DEF FindLibrary
<1> QED BY <1>4, <1>5

\* With nothing left to pull on either side, a live song is known to the peer.
LEMMA KnownThere ==
  ASSUME TwoSites, IInv, FilingInv, NEW s \in Site,
         NothingToPull(s), NothingToPull(Peer[s]), NEW i \in Live(song[s])
  PROVE  BySid(song[Peer[s]], song[s][i].sid) # {}
<1> SUFFICES ASSUME BySid(song[Peer[s]], song[s][i].sid) = {}
             PROVE  FALSE
  OBVIOUS
<1> DEFINE p == Peer[s]
           w == Wire(lib[s], song[s], i)
           ids == {song[s][j].sid : j \in DOMAIN song[s]}
<1>0. p \in Site /\ Peer[p] = s /\ i \in DOMAIN song[s] /\ song[s][i].del = NULL
  BY PairUp DEF Live
<1>1. w.sid = song[s][i].sid /\ w.upd = song[s][i].upd /\ w.del = NULL
      /\ w.name = song[s][i].name
  BY <1>0 DEF Wire
<1>2. PICK k \in Adoptable(lib[p], song[p], w, ids) : w.upd <= song[p][k].upd
  BY <1>0, <1>1, NoNewerSong
<1>3. /\ k \in LiveNamed(song[p], w.name) /\ song[p][k].sid \notin ids
      /\ song[p][k].lib \in FindLibrary(lib[p], w)
  BY <1>1, <1>2 DEF Adoptable, AdoptionCandidate
<1>4. k \in DOMAIN song[p] /\ song[p][k].del = NULL /\ song[p][k].name = song[s][i].name
  BY <1>1, <1>3 DEF LiveNamed, Live
<1> DEFINE v == Wire(lib[p], song[p], k)
           jds == {song[p][j].sid : j \in DOMAIN song[p]}
<1>5. v.sid = song[p][k].sid /\ v.upd = song[p][k].upd /\ v.del = NULL
      /\ v.name = song[p][k].name
  BY <1>4 DEF Wire
<1>6. BySid(song[s], v.sid) = {}
  BY <1>3, <1>5 DEF BySid
<1>7. PICK j \in Adoptable(lib[s], song[s], v, jds) : v.upd <= song[s][j].upd
  BY <1>0, <1>4, <1>5, <1>6, NoNewerSong
<1>8. song[s][i].lib \in FindLibrary(lib[s], v)
  BY <1>0, <1>3, <1>4, LibrariesMeet
<1> HIDE DEF v, jds
<1>9. j = i
  <2> DEFINE named == {x \in LiveNamed(song[s], v.name) :
                         song[s][x].lib \in FindLibrary(lib[s], v)}
  <2>1. named = {j}
    BY <1>5, <1>7 DEF Adoptable, AdoptionCandidate
  <2>2. i \in named
    BY <1>0, <1>4, <1>5, <1>8 DEF LiveNamed, Live
  <2> QED BY <2>1, <2>2
<1>10. song[s][i].upd = song[p][k].upd
  <2>1. song[s][i].upd \in Nat /\ song[p][k].upd \in Nat
    BY <1>0, <1>4, Rows DEF SongRow
  <2> QED BY <1>1, <1>2, <1>5, <1>7, <1>9, <2>1
<1>11. song[p][k].sid = song[s][i].sid
  BY <1>0, <1>4, <1>10, SameSong
<1> QED BY <1>4, <1>11 DEF BySid

\* What makes the sites agree once they are settled.
FInv == VInv /\ FilingInv

\* With nothing left to pull on either side, a live song is the same there.
LEMMA SameThere ==
  ASSUME TwoSites, FInv, NEW s \in Site, NEW p \in Site, p = Peer[s],
         NothingToPull(s), NothingToPull(p),
         NEW i \in Live(song[s]), NEW k \in DOMAIN song[p],
         song[p][k].sid = song[s][i].sid
  PROVE  /\ k \in Live(song[p]) /\ song[p][k].upd = song[s][i].upd
         /\ song[p][k].name = song[s][i].name /\ song[p][k].text = song[s][i].text
         /\ SongKey(p, k) = SongKey(s, i)
<1>0. Peer[p] = s /\ i \in DOMAIN song[s] /\ IInv /\ FilingInv
  BY PairUp DEF Live, FInv, VInv
<1>1. song[s][i].upd \in Nat /\ song[p][k].upd \in Nat
  BY <1>0, Rows DEF SongRow
<1>2. k \in BySid(song[p], song[s][i].sid) /\ i \in BySid(song[s], song[p][k].sid)
  BY <1>0 DEF BySid
<1>3. song[s][i].upd <= song[p][k].upd
  <2> DEFINE w == Wire(lib[s], song[s], i)
  <2>1. w.sid = song[s][i].sid /\ w.upd = song[s][i].upd
    BY DEF Wire
  <2>2. \A j \in BySid(song[p], w.sid) : w.upd <= song[p][j].upd
    BY <1>0, NoNewerSong
  <2> HIDE DEF w
  <2> QED BY <1>2, <2>1, <2>2
<1>4. song[p][k].upd <= song[s][i].upd
  <2> DEFINE w == Wire(lib[p], song[p], k)
  <2>1. w.sid = song[p][k].sid /\ w.upd = song[p][k].upd
    BY DEF Wire
  <2>2. \A j \in BySid(song[s], w.sid) : w.upd <= song[s][j].upd
    BY <1>0, NoNewerSong
  <2> HIDE DEF w
  <2> QED BY <1>2, <2>1, <2>2
<1>5. song[s][i].upd = song[p][k].upd
  BY <1>1, <1>3, <1>4
<1>6. /\ song[s][i].name = song[p][k].name /\ song[s][i].del = song[p][k].del
      /\ SongKey(s, i) = SongKey(p, k)
  BY <1>0, <1>5, SameSong
<1>7. song[s][i].text = song[p][k].text
  BY <1>0, <1>5 DEF FInv, VInv, VersionInv, CopiesAgree, SameVersion, SameContent
<1> QED BY <1>5, <1>6, <1>7 DEF Live

\* Libraries that songs of one key are under are the same row on both sides.
LEMMA SameHome ==
  ASSUME TwoSites, FInv, NEW s \in Site, NEW p \in Site, p = Peer[s],
         NothingToPull(s), NothingToPull(p),
         NEW l \in DOMAIN lib[s], NEW m \in DOMAIN lib[p],
         FileKey(lib[s][l].sid, lib[s][l].name) = FileKey(lib[p][m].sid, lib[p][m].name)
  PROVE  lib[s][l] = lib[p][m]
<1>0. Peer[p] = s /\ IInv /\ FilingInv
  BY PairUp DEF FInv, VInv
<1>1. lib[s][l].upd \in Nat /\ lib[p][m].upd \in Nat
      /\ l \in Live(lib[s]) /\ m \in Live(lib[p])
  BY <1>0, Rows, LibsHere DEF LibRow
<1>2. /\ \A x \in BySid(lib[s], lib[p][m].sid) : lib[p][m].upd <= lib[s][x].upd
      /\ BySid(lib[s], lib[p][m].sid) = {} =>
           \E x \in LiveNamed(lib[s], lib[p][m].name) : lib[p][m].upd <= lib[s][x].upd
  BY <1>0, NoNewerLibrary
<1>3. /\ \A x \in BySid(lib[p], lib[s][l].sid) : lib[s][l].upd <= lib[p][x].upd
      /\ BySid(lib[p], lib[s][l].sid) = {} =>
           \E x \in LiveNamed(lib[p], lib[s][l].name) : lib[s][l].upd <= lib[p][x].upd
  BY <1>0, NoNewerLibrary
<1>4. CASE lib[s][l].sid = lib[p][m].sid
  <2>1. l \in BySid(lib[s], lib[p][m].sid) /\ m \in BySid(lib[p], lib[s][l].sid)
    BY <1>4 DEF BySid
  <2>2. lib[s][l].upd = lib[p][m].upd
    BY <1>1, <1>2, <1>3, <2>1
  <2> QED BY <1>0, <2>2, SameRow
<1>5. CASE lib[s][l].sid # lib[p][m].sid
  <2>1. Creating /\ lib[s][l].name = lib[p][m].name
    BY <1>5 DEF FileKey
  <2>2. \A x \in Live(lib[s]) : lib[s][x].name = lib[p][m].name => x = l
    BY <1>0, <1>1, <2>1 DEF FilingInv, LiveNamesUnique
  <2>3. \A x \in Live(lib[p]) : lib[p][x].name = lib[s][l].name => x = m
    BY <1>0, <1>1, <2>1 DEF FilingInv, LiveNamesUnique
  <2>4. BySid(lib[s], lib[p][m].sid) = {}
    <3> SUFFICES ASSUME NEW x \in DOMAIN lib[s], lib[s][x].sid = lib[p][m].sid
                 PROVE  FALSE
      BY DEF BySid
    <3>1. lib[s][x] = lib[p][m] /\ x \in Live(lib[s])
      BY <1>0, <2>1, SameRow, LibsHere
    <3> QED BY <1>5, <2>2, <3>1
  <2>5. BySid(lib[p], lib[s][l].sid) = {}
    <3> SUFFICES ASSUME NEW x \in DOMAIN lib[p], lib[p][x].sid = lib[s][l].sid
                 PROVE  FALSE
      BY DEF BySid
    <3>1. lib[s][l] = lib[p][x] /\ x \in Live(lib[p])
      BY <1>0, <2>1, SameRow, LibsHere
    <3> QED BY <1>5, <2>3, <3>1
  <2>6. lib[p][m].upd <= lib[s][l].upd
    BY <1>2, <2>2, <2>4 DEF LiveNamed
  <2>7. lib[s][l].upd <= lib[p][m].upd
    BY <1>3, <2>3, <2>5 DEF LiveNamed
  <2>8. lib[s][l].upd = lib[p][m].upd
    BY <1>1, <2>6, <2>7
  <2> QED BY <1>0, <2>8, SameRow
<1> QED BY <1>4, <1>5

LEMMA SettledAgree ==
  ASSUME TwoSites, FInv
  PROVE  SettledSitesAgree
<1> SUFFICES ASSUME Settled
             PROVE  \A s \in Site : Repertoire(s) = Repertoire(Peer[s])
  BY DEF SettledSitesAgree, Agreement
<1>1. ASSUME NEW s \in Site, NEW p \in Site, p = Peer[s]
      PROVE  Repertoire(s) \subseteq Repertoire(p)
  <2> SUFFICES ASSUME NEW i \in {k \in Live(song[s]) : song[s][k].lib \in Live(lib[s])}
               PROVE  [sid |-> song[s][i].sid, name |-> song[s][i].name,
                       text |-> song[s][i].text,
                       libName |-> lib[s][song[s][i].lib].name] \in Repertoire(p)
    BY DEF Repertoire
  <2>1. NothingToPull(s) /\ NothingToPull(p) /\ IInv /\ FilingInv /\ i \in Live(song[s])
    BY DEF Settled, FInv, VInv
  <2>2. BySid(song[p], song[s][i].sid) # {}
    BY <1>1, <2>1, KnownThere
  <2>3. PICK k \in DOMAIN song[p] : song[p][k].sid = song[s][i].sid
    BY <2>2 DEF BySid
  <2>4. /\ k \in Live(song[p]) /\ song[p][k].name = song[s][i].name
        /\ song[p][k].text = song[s][i].text /\ SongKey(p, k) = SongKey(s, i)
    BY <1>1, <2>1, <2>3, SameThere
  <2>5. song[s][i].lib \in DOMAIN lib[s] /\ song[p][k].lib \in DOMAIN lib[p]
    BY <2>1, <2>3, Rows DEF Live
  <2>6. lib[s][song[s][i].lib] = lib[p][song[p][k].lib]
    BY <1>1, <2>1, <2>4, <2>5, SameHome DEF SongKey
  <2>7. song[p][k].lib \in Live(lib[p])
    BY <2>1, <2>5, LibsHere
  <2>8. k \in {j \in Live(song[p]) : song[p][j].lib \in Live(lib[p])}
    BY <2>4, <2>7
  <2> QED BY <2>3, <2>4, <2>6, <2>8 DEF Repertoire
<1>2. ASSUME NEW s \in Site
      PROVE  Repertoire(s) = Repertoire(Peer[s])
  <2>1. Peer[s] \in Site /\ Peer[Peer[s]] = s
    BY PairUp
  <2>2. Repertoire(s) \subseteq Repertoire(Peer[s])
    BY <1>1, <2>1
  <2>3. Repertoire(Peer[s]) \subseteq Repertoire(s)
    BY <1>1, <2>1
  <2> QED BY <2>2, <2>3
<1> QED BY <1>2

LEMMA SettledAlike ==
  ASSUME TwoSites, FInv
  PROVE  SongsFiledAlike
<1> SUFFICES ASSUME Settled, NEW s \in Site, NEW i \in Live(song[s]),
                    NEW k \in Live(song[Peer[s]]),
                    SameVersion(song[s][i], song[Peer[s]][k])
             PROVE  lib[s][song[s][i].lib].sid = lib[Peer[s]][song[Peer[s]][k].lib].sid
  BY DEF SongsFiledAlike
<1> DEFINE p == Peer[s]
<1>1. p \in Site /\ NothingToPull(s) /\ IInv /\ FilingInv
  BY PairUp DEF Settled, FInv, VInv
<1>2. NothingToPull(p)
  BY <1>1 DEF Settled
<1>3. i \in DOMAIN song[s] /\ k \in DOMAIN song[p]
  BY DEF Live
<1>4. SongKey(s, i) = SongKey(p, k)
  BY <1>1, <1>3, SameSong DEF SameVersion
<1>5. song[s][i].lib \in DOMAIN lib[s] /\ song[p][k].lib \in DOMAIN lib[p]
  BY <1>1, <1>3, Rows
<1>6. lib[s][song[s][i].lib] = lib[p][song[p][k].lib]
  BY <1>1, <1>2, <1>4, <1>5, SameHome DEF SongKey
<1> QED BY <1>6

LEMMA NextKeepsF ==
  ASSUME TwoSites, SteadyOps
  PROVE  FInv /\ [Next]_vars => FInv'
<1> SUFFICES ASSUME FInv, [Next]_vars
             PROVE  FInv'
  OBVIOUS
<1>1. IInv /\ VersionInv /\ FilingInv /\ VInv /\ "prune" \notin Ops
  BY DEF FInv, VInv, SteadyOps
<1>2. IInv' /\ VersionInv'
  BY <1>1, StepIInv, NextKeepsVersions
<1>3. \A s \in Site : ~pruning[s]
  BY <1>1 DEF VersionInv
<1>4. FilingInv'
  BY <1>1, <1>3, NextKeepsFiling
<1> QED BY <1>2, <1>4 DEF FInv, VInv

LEMMA InitF == Init => FInv
BY InitIInv, InitVersions, InitFiling DEF FInv, VInv

\* Two instances that start empty and settle show the same songs, whatever is
\* created, copied, edited and renamed on both, joined by name or refused, and
\* whichever request fails or instance restarts on the way: no difference is
\* left that no cycle would repair.
THEOREM SettledSitesAlwaysAgree ==
  ASSUME TwoSites, SteadyOps
  PROVE  Spec => []SettledSitesAgree
<1>1. FInv => SettledSitesAgree
  BY SettledAgree
<1> QED BY <1>1, InitF, NextKeepsF, PTL DEF Spec

\* Under the same operations they file each song under the same library: the
\* libraries that were created twice have taken one identity.
THEOREM SettledSitesFileAlike ==
  ASSUME TwoSites, SteadyOps
  PROVE  Spec => []SongsFiledAlike
<1>1. FInv => SongsFiledAlike
  BY SettledAlike
<1> QED BY <1>1, InitF, NextKeepsF, PTL DEF Spec

\* A start from one database on both sides, its libraries live under names of
\* their own and no two of its libraries, and no two of its songs, with one
\* clock; while libraries may be created its songs are live, too.
SharedStart ==
  /\ IInv
  /\ \A s \in Site : /\ Idle(s) /\ ~pruning[s] /\ got[s] = {}
                     /\ DOMAIN libTodo[s] = {} /\ DOMAIN songTodo[s] = {}
                     /\ LiveNamesUnique(lib[s]) /\ Dead(lib[s]) = {}
                     /\ Creating => Dead(song[s]) = {}
                     /\ \A i, j \in DOMAIN lib[s] : lib[s][i].upd = lib[s][j].upd => i = j
                     /\ \A i, j \in DOMAIN song[s] : song[s][i].upd = song[s][j].upd => i = j
  /\ \A s, t \in Site : lib[s] = lib[t] /\ song[s] = song[t]

LEMMA SharedVersions ==
  ASSUME TwoSites, SharedStart
  PROVE  VersionInv
<1> SUFFICES ASSUME NEW s \in Site
             PROVE  /\ ManifestOK(s) /\ CopiesAgree(s) /\ AnswerAgrees(s)
                    /\ AnswersMet(s) /\ AnswerReturned(s) /\ UnlistedApart(s)
  BY DEF VersionInv, SharedStart
<1>1. /\ Idle(s) /\ got[s] = {} /\ DOMAIN songTodo[s] = {} /\ song[Peer[s]] = song[s]
  BY PairUp DEF SharedStart
<1>2. ~Pulling(s)
  BY <1>1 DEF Pulling, Idle
<1>3. ManifestOK(s) /\ AnswerAgrees(s) /\ AnswersMet(s) /\ AnswerReturned(s)
  BY <1>1, <1>2 DEF ManifestOK, AnswerAgrees, AnswersMet, AnswerReturned
<1>4. UnlistedApart(s)
  BY <1>2 DEF UnlistedApart, Unlisted
<1>5. CopiesAgree(s)
  BY <1>1 DEF CopiesAgree, SameVersion, SameContent, SharedStart, IInv, DbOK, SidsUnique
<1> QED BY <1>3, <1>4, <1>5

LEMMA SharedFiling ==
  ASSUME SharedStart
  PROVE  FilingInv
<1>0. IInv /\ clock \in Nat
  BY DEF SharedStart, IInv, TypeOK
<1>1. \A n : n \in Earlier <=> n \in Nat /\ n < clock
  BY <1>0 DEF Earlier
<1>2. \A s \in Site : /\ LibRows(s) = {lib[s][i] : i \in DOMAIN lib[s]}
                      /\ LibFacts(s) = {Fact(a.sid, a.name) : a \in LibRows(s)}
                      /\ Versions(s) = {Version(song[s][i], SongKey(s, i)) :
                                          i \in DOMAIN song[s]}
  BY DEF LibRows, LibFacts, Versions, SharedStart
<1>3. RowsApart
  <2> SUFFICES ASSUME NEW s \in Site, NEW t \in Site,
                      NEW i \in DOMAIN lib[s], NEW k \in DOMAIN lib[t]
               PROVE  /\ lib[s][i].del = NULL
                      /\ lib[s][i].sid \in Earlier /\ lib[s][i].upd \in Earlier
                      /\ lib[s][i].upd = lib[t][k].upd => lib[s][i] = lib[t][k]
                      /\ lib[s][i].sid = lib[t][k].sid => lib[s][i] = lib[t][k]
    BY <1>2 DEF RowsApart, AllRows
  <2>1. lib[t] = lib[s]
    BY DEF SharedStart
  <2>2. lib[s][i].del = NULL
    BY DEF SharedStart, Dead
  <2>3. lib[s][i].sid \in Earlier /\ lib[s][i].upd \in Earlier
    BY <1>0, <1>1, Rows DEF LibRow
  <2>4. lib[s][i].sid = lib[t][k].sid => i = k
    BY <1>0, <2>1 DEF IInv, DbOK, SidsUnique
  <2>5. lib[s][i].upd = lib[t][k].upd => i = k
    BY <2>1 DEF SharedStart
  <2> QED BY <2>1, <2>2, <2>3, <2>4, <2>5
<1>4. FactsApart
  <2>1. \A f \in AllFacts : \E a \in AllRows : f = Fact(a.sid, a.name)
    BY <1>2 DEF AllFacts, AllRows
  <2>2. \A x, n : Fact(x, n).sid = x
    BY DEF Fact
  <2>3. CASE Creating
    BY <1>3, <2>1, <2>2, <2>3 DEF FactsApart, RowsApart
  <2>4. CASE ~Creating
    <3> SUFFICES ASSUME NEW a \in AllRows, NEW t \in Site
                 PROVE  BySid(lib[t], a.sid) # {}
      BY <2>1, <2>2, <2>4 DEF FactsApart
    <3>1. PICK s \in Site : a \in LibRows(s)
      BY DEF AllRows
    <3>2. PICK i \in DOMAIN lib[s] : a = lib[s][i]
      BY <1>2, <3>1
    <3>3. lib[t] = lib[s]
      BY DEF SharedStart
    <3> QED BY <3>2, <3>3 DEF BySid
  <2> QED BY <2>3, <2>4
<1>5. VersionsApart
  <2>1. \A v \in AllVersions :
          \E s \in Site : \E i \in DOMAIN song[s] : v = Version(song[s][i], SongKey(s, i))
    BY <1>2 DEF AllVersions
  <2> SUFFICES ASSUME NEW s \in Site, NEW t \in Site,
                      NEW i \in DOMAIN song[s], NEW k \in DOMAIN song[t],
                      NEW u, u = Version(song[s][i], SongKey(s, i)),
                      NEW v, v = Version(song[t][k], SongKey(t, k))
               PROVE  /\ u.sid \in Earlier /\ u.upd \in Earlier
                      /\ u.upd = v.upd => u = v
                      /\ u.sid = v.sid => u.key = v.key
                      /\ Creating => u.del = NULL
    BY <2>1 DEF VersionsApart
  <2>2. /\ u.sid = song[s][i].sid /\ u.upd = song[s][i].upd /\ u.del = song[s][i].del
        /\ v.sid = song[t][k].sid /\ v.upd = song[t][k].upd
    BY DEF Version
  <2>3. song[t] = song[s] /\ lib[t] = lib[s]
    BY DEF SharedStart
  <2>4. u.sid \in Earlier /\ u.upd \in Earlier
    BY <1>0, <1>1, <2>2, Rows DEF SongRow
  <2>5. u.sid = v.sid => i = k
    <3>1. \A j, m \in DOMAIN song[s] : song[s][j].sid = song[s][m].sid => j = m
      BY <1>0 DEF IInv, DbOK, SidsUnique
    <3> QED BY <2>2, <2>3, <3>1
  <2>a. \A j, m \in DOMAIN song[s] : song[s][j].upd = song[s][m].upd => j = m
    BY DEF SharedStart
  <2>6. u.upd = v.upd => i = k
    BY <2>2, <2>3, <2>a
  <2>b. SongKey(s, k) = SongKey(t, k) /\ song[s][k] = song[t][k]
    BY <2>3 DEF SongKey
  <2>7. i = k => u = v
    BY <2>b
  <2>8. Creating => u.del = NULL
    BY <2>2 DEF SharedStart, Dead
  <2> QED BY <2>4, <2>5, <2>6, <2>7, <2>8
<1>6. \A s \in Site : LiveNamesUnique(lib[s])
  BY DEF SharedStart
<1> QED BY <1>3, <1>4, <1>5, <1>6 DEF FilingInv

\* Two instances that begin with one shared database agree whenever they
\* settle, and file alike.  When no library is created, libraries may be renamed
\* and songs trashed and brought back meanwhile; that is what the run checks.
THEOREM SharedSitesStayAgreed ==
  ASSUME TwoSites, SteadyOps
  PROVE  SharedStart /\ [][Next]_vars => [](SettledSitesAgree /\ SongsFiledAlike)
<1>1. FInv => SettledSitesAgree /\ SongsFiledAlike
  BY SettledAgree, SettledAlike
<1>2. SharedStart => FInv
  BY SharedVersions, SharedFiling DEF FInv, VInv, SharedStart
<1> QED BY <1>1, <1>2, NextKeepsF, PTL

-----------------------------------------------------------------------------
(* What trashed libraries leave to disagree on. *)

\* The sites keep the libraries they share and their names, but trash them and
\* bring them back.  A restored library stamps its songs with one clock, so
\* either no library is restored or the sites keep the songs they share, too.
Restoring == "restore_library" \in Ops
FixedLibraries ==
  /\ "create_library" \notin Ops /\ "rename_library" \notin Ops /\ "prune" \notin Ops
  /\ Restoring => "create_presentation" \notin Ops /\ "copy_presentation" \notin Ops

\* A library row and a song version of one clock: the library took that clock
\* from its songs, or gave it to them.
Match(a, v) == a.upd = v.upd => a.sid = v.key /\ (v.del = NULL => a.del = NULL)

\* A clock belongs to one library, and with an identity to one version, of
\* which there are copies that were forced into the trash.
OneStamp(u, v) ==
  /\ u.sid = v.sid => u.key = v.key
  /\ u.upd = v.upd =>
       /\ u.key = v.key
       /\ u.sid = v.sid =>
            u.name = v.name /\ (u.del <= u.upd /\ v.del <= v.upd => u.del = v.del)
       /\ u.del = NULL /\ v.del = NULL => Restoring \/ u.sid = v.sid

LibsFixed ==
  /\ \A f, g \in AllFacts : f.sid = g.sid <=> f.name = g.name
  /\ \A f \in AllFacts, t \in Site : BySid(lib[t], f.sid) # {}
RowsStamped == \A a, b \in AllRows : a.upd \in Earlier /\ (a.upd = b.upd => a = b)
RowsMatch == \A a \in AllRows, v \in AllVersions : Match(a, v)
VersionsStamped ==
  \A u, v \in AllVersions : /\ u.sid \in Earlier /\ u.upd \in Earlier /\ u.del \in Earlier
                            /\ OneStamp(u, v)
SongsKept == Restoring => \A v \in AllVersions, t \in Site : BySid(song[t], v.sid) # {}

ForcedInv == LibsFixed /\ RowsStamped /\ RowsMatch /\ VersionsStamped /\ SongsKept

LEMMA OneStampBack ==
  ASSUME NEW u, NEW v, OneStamp(u, v)
  PROVE  OneStamp(v, u)
BY DEF OneStamp

\* No identity is lost.
SidsKept ==
  /\ \A t \in Site : \A i \in DOMAIN lib[t] :
       \E k \in DOMAIN lib'[t] : lib'[t][k].sid = lib[t][i].sid
  /\ Restoring => \A t \in Site : \A i \in DOMAIN song[t] :
       \E k \in DOMAIN song'[t] : song'[t][k].sid = song[t][i].sid

LEMMA ForcingKept ==
  ASSUME ForcedInv, clock \in Nat, clock' \in Nat, clock <= clock', SidsKept,
         NEW NR, NEW NV,
         AllRows' \subseteq AllRows \cup NR,
         AllFacts' \subseteq AllFacts \cup {Fact(a.sid, a.name) : a \in NR},
         AllVersions' \subseteq AllVersions \cup NV,
         \A a \in NR : a.upd \in Earlier' /\ Fact(a.sid, a.name) \in AllFacts,
         \A a \in NR, b \in AllRows \cup NR : a.upd = b.upd => a = b,
         \A a \in NR, v \in AllVersions \cup NV : Match(a, v),
         \A a \in AllRows, v \in NV : Match(a, v),
         \A v \in NV : v.sid \in Earlier' /\ v.upd \in Earlier' /\ v.del \in Earlier',
         \A v \in NV, u \in AllVersions \cup NV : OneStamp(v, u),
         Restoring => \A v \in NV : \E u \in AllVersions : u.sid = v.sid
  PROVE  ForcedInv'
<1>0. Earlier \subseteq Earlier'
  <2>1. \A n : n \in Earlier <=> n \in Nat /\ n < clock
    BY DEF Earlier
  <2>2. \A n : n \in Earlier' <=> n \in Nat /\ n < clock'
    BY DEF Earlier
  <2> QED BY <2>1, <2>2
<1>1. LibsFixed'
  <2>1. AllFacts' \subseteq AllFacts
    OBVIOUS
  <2>2. \A f, g \in AllFacts' : f.sid = g.sid <=> f.name = g.name
    BY <2>1 DEF ForcedInv, LibsFixed
  <2>3. ASSUME NEW f \in AllFacts', NEW t \in Site
        PROVE  BySid(lib'[t], f.sid) # {}
    <3>1. PICK i \in DOMAIN lib[t] : lib[t][i].sid = f.sid
      BY <2>1 DEF ForcedInv, LibsFixed, BySid
    <3>2. PICK k \in DOMAIN lib'[t] : lib'[t][k].sid = lib[t][i].sid
      BY DEF SidsKept
    <3> QED BY <3>1, <3>2 DEF BySid
  <2> QED BY <2>2, <2>3 DEF LibsFixed
<1>2. RowsStamped'
  BY <1>0 DEF ForcedInv, RowsStamped
<1>3. RowsMatch'
  <2>1. \A a \in AllRows', v \in AllVersions' : Match(a, v)
    BY DEF ForcedInv, RowsMatch
  <2> QED BY <2>1 DEF RowsMatch, Match
<1>4. VersionsStamped'
  <2>1. ASSUME NEW u \in AllVersions', NEW v \in AllVersions'
        PROVE  OneStamp(u, v)
    <3>1. CASE u \in NV
      BY <3>1
    <3>2. CASE v \in NV
      BY <3>2, OneStampBack
    <3>3. CASE u \in AllVersions /\ v \in AllVersions
      BY <3>3 DEF ForcedInv, VersionsStamped
    <3> QED BY <3>1, <3>2, <3>3
  <2>2. \A u \in AllVersions' : u.sid \in Earlier' /\ u.upd \in Earlier' /\ u.del \in Earlier'
    BY <1>0 DEF ForcedInv, VersionsStamped
  <2> QED BY <2>1, <2>2 DEF VersionsStamped, OneStamp, Restoring
<1>5. SongsKept'
  <2> SUFFICES ASSUME Restoring, NEW v \in AllVersions', NEW t \in Site
               PROVE  BySid(song'[t], v.sid) # {}
    BY DEF SongsKept, Restoring
  <2>1. PICK u \in AllVersions : u.sid = v.sid
    OBVIOUS
  <2>2. PICK i \in DOMAIN song[t] : song[t][i].sid = v.sid
    BY <2>1 DEF ForcedInv, SongsKept, BySid
  <2>3. PICK k \in DOMAIN song'[t] : song'[t][k].sid = song[t][i].sid
    BY DEF SidsKept
  <2> QED BY <2>2, <2>3 DEF BySid
<1> QED BY <1>1, <1>2, <1>3, <1>4, <1>5 DEF ForcedInv

LEMMA QuietForces ==
  ASSUME ForcedInv, clock \in Nat, Quiet
  PROVE  ForcedInv'
<1>1. SidsKept
  BY DEF Quiet, SidsKept
<1>2. clock' \in Nat /\ clock <= clock'
  BY DEF Quiet
<1> DEFINE none == {}
<1>3. /\ AllRows' \subseteq AllRows \cup none
      /\ AllFacts' \subseteq AllFacts \cup {Fact(a.sid, a.name) : a \in none}
      /\ AllVersions' \subseteq AllVersions \cup none
  BY DEF Quiet
<1>4. \A a \in none : FALSE
  OBVIOUS
<1> HIDE DEF none
<1> QED BY <1>1, <1>2, <1>3, <1>4, ForcingKept

\* What a local write stamps with the present: at most one library row, and
\* songs of that library, all to the same end.
Stamps(NR, NV) ==
  /\ \A a \in NR : a.upd = clock /\ Fact(a.sid, a.name) \in AllFacts
  /\ \A a, b \in NR : a = b
  /\ \A v \in NV : /\ v.upd = clock /\ v.del \in Nat /\ v.del <= clock
                   /\ \/ v.sid = clock /\ ~Restoring
                      \/ \E u \in AllVersions : u.sid = v.sid /\ u.key = v.key
  /\ \A u, v \in NV : /\ u.key = v.key
                      /\ u.sid = v.sid => u = v
                      /\ u.del = NULL /\ v.del = NULL => Restoring \/ u.sid = v.sid
  /\ \A a \in NR, v \in NV : a.sid = v.key /\ (v.del = NULL => a.del = NULL)

LEMMA StampsForce ==
  ASSUME ForcedInv, clock \in Nat, clock' = clock + 1, SidsKept,
         NEW NR, NEW NV, Stamps(NR, NV),
         AllRows' \subseteq AllRows \cup NR,
         AllFacts' \subseteq AllFacts \cup {Fact(a.sid, a.name) : a \in NR},
         AllVersions' \subseteq AllVersions \cup NV
  PROVE  ForcedInv'
<1>0. /\ clock' \in Nat /\ clock <= clock' /\ clock \notin Earlier
      /\ \A n \in Nat : n <= clock => n \in Earlier'
      /\ Earlier \subseteq Earlier'
  <2>1. \A n : n \in Earlier <=> n \in Nat /\ n < clock
    BY DEF Earlier
  <2>2. \A n : n \in Earlier' <=> n \in Nat /\ n < clock'
    BY DEF Earlier
  <2> QED BY <2>1, <2>2
<1>1. /\ \A a \in AllRows : a.upd # clock
      /\ \A u \in AllVersions : u.upd # clock /\ u.sid # clock /\ u.sid \in Earlier
  BY <1>0 DEF ForcedInv, RowsStamped, VersionsStamped
<1>2. \A a \in NR : a.upd \in Earlier' /\ Fact(a.sid, a.name) \in AllFacts
  BY <1>0 DEF Stamps
<1>3. \A a \in NR, b \in AllRows \cup NR : a.upd = b.upd => a = b
  BY <1>1 DEF Stamps
<1>4. \A a \in NR, v \in AllVersions \cup NV : Match(a, v)
  BY <1>1 DEF Stamps, Match
<1>5. \A a \in AllRows, v \in NV : Match(a, v)
  BY <1>1 DEF Stamps, Match
<1>6. \A v \in NV : v.sid \in Earlier' /\ v.upd \in Earlier' /\ v.del \in Earlier'
  BY <1>0, <1>1 DEF Stamps
<1>7. ASSUME NEW v \in NV, NEW u \in AllVersions \cup NV
      PROVE  OneStamp(v, u)
  <2>1. CASE u \in NV
    BY <2>1 DEF Stamps, OneStamp
  <2>2. CASE u \in AllVersions
    <3>1. v.upd # u.upd
      BY <1>1, <2>2 DEF Stamps
    <3>2. ASSUME v.sid = u.sid
          PROVE  v.key = u.key
      <4>1. PICK x \in AllVersions : x.sid = v.sid /\ x.key = v.key
        BY <1>1, <2>2, <3>2 DEF Stamps
      <4> QED BY <2>2, <3>2, <4>1 DEF ForcedInv, VersionsStamped, OneStamp
    <3> QED BY <3>1, <3>2 DEF OneStamp
  <2> QED BY <2>1, <2>2
<1>8. Restoring => \A v \in NV : \E u \in AllVersions : u.sid = v.sid
  BY DEF Stamps
<1> QED BY <1>0, <1>2, <1>3, <1>4, <1>5, <1>6, <1>7, <1>8, ForcingKept

\* Libraries do not take identities from each other: songs are filed by it.
LEMMA KeyIsSid ==
  ASSUME FixedLibraries
  PROVE  /\ \A x, n : FileKey(x, n) = x
         /\ \A s, i : /\ SongKey(s, i) = lib[s][song[s][i].lib].sid
                      /\ SongKey(s, i)' = lib'[s][song'[s][i].lib].sid
         /\ \A w : WireKey(w) = w.libSid
<1>1. ~Creating
  BY DEF FixedLibraries, Creating
<1>2. \A x, n : FileKey(x, n) = x
  BY <1>1 DEF FileKey
<1>3. \A s, i : SongKey(s, i) = lib[s][song[s][i].lib].sid
  BY <1>1 DEF SongKey, FileKey
<1>4. \A s, i : SongKey(s, i)' = lib'[s][song'[s][i].lib].sid
  BY <1>1 DEF SongKey, FileKey, Creating
<1>5. \A w : WireKey(w) = w.libSid
  BY <1>1 DEF WireKey, FileKey
<1> QED BY <1>2, <1>3, <1>4, <1>5

\* What is known of the rows of a site.
LEMMA RowsThere ==
  ASSUME FixedLibraries, ForcedInv, IInv, NEW t \in Site
  PROVE  /\ \A l \in DOMAIN lib[t] :
              /\ lib[t][l] \in AllRows /\ lib[t][l] \in LibRow /\ lib[t][l].upd \in Earlier
              /\ Fact(lib[t][l].sid, lib[t][l].name) \in AllFacts
         /\ \A i \in DOMAIN song[t] :
              /\ song[t][i].lib \in DOMAIN lib[t]
              /\ song[t][i].upd \in Nat /\ song[t][i].del \in Nat /\ song[t][i].del < clock
              /\ Version(song[t][i], lib[t][song[t][i].lib].sid) \in AllVersions
         /\ \A w \in got[t] :
              /\ Fact(w.libSid, w.libName) \in AllFacts
              /\ Version(w, w.libSid) \in AllVersions
<1>1. \A l \in DOMAIN lib[t] : /\ lib[t][l] \in AllRows /\ lib[t][l] \in LibRow
                               /\ lib[t][l].upd \in Earlier
                               /\ Fact(lib[t][l].sid, lib[t][l].name) \in AllFacts
  BY HeldHere, Rows DEF ForcedInv, RowsStamped
<1>2. \A i \in DOMAIN song[t] :
        /\ song[t][i].lib \in DOMAIN lib[t] /\ song[t][i].upd \in Nat
        /\ song[t][i].del \in Nat
        /\ Version(song[t][i], lib[t][song[t][i].lib].sid) \in AllVersions
  BY HeldHere, Rows, KeyIsSid DEF SongRow
<1>3. \A i \in DOMAIN song[t] : song[t][i].del < clock
  <2> SUFFICES ASSUME NEW i \in DOMAIN song[t]
               PROVE  song[t][i].del < clock
    OBVIOUS
  <2>1. Version(song[t][i], lib[t][song[t][i].lib].sid).del \in Earlier
    BY <1>2 DEF ForcedInv, VersionsStamped
  <2>2. song[t][i].del \in Earlier
    BY <2>1 DEF Version
  <2> QED BY <2>2 DEF Earlier, IInv, TypeOK
<1>4. \A w \in got[t] : /\ Fact(w.libSid, w.libName) \in AllFacts
                        /\ Version(w, w.libSid) \in AllVersions
  BY HeldHere, KeyIsSid
<1> QED BY <1>1, <1>2, <1>3, <1>4

LEMMA StampedSongForces ==
  ASSUME FixedLibraries, ForcedInv, IInv, NEW s \in Site, clock' = clock + 1,
         UNCHANGED <<lib, libTodo, got>>,
         NEW i, NEW r, SetSong(s, Put(song[s], i, r)), r.upd = clock,
         r.del \in Nat, r.del <= clock,
         \/ r.sid = clock /\ ~Restoring
         \/ i \in DOMAIN song[s] /\ song[s][i].sid = r.sid /\ song[s][i].lib = r.lib
  PROVE  ForcedInv'
<1> DEFINE v == Version(r, lib[s][r.lib].sid)
           NV == {v}
           none == {}
<1>1. clock \in Nat /\ DOMAIN song = Site
  BY DEF IInv, TypeOK, Tables
<1>2. /\ song'[s] = Put(song[s], i, r)
      /\ \A t \in Site \ {s} : song'[t] = song[t]
  BY <1>1 DEF SetSong
<1>3. /\ song'[s][i] = r /\ i \in DOMAIN song'[s]
      /\ \A k \in DOMAIN song'[s] \ {i} : k \in DOMAIN song[s] /\ song'[s][k] = song[s][k]
      /\ \A k \in DOMAIN song[s] \ {i} : k \in DOMAIN song'[s] /\ song'[s][k] = song[s][k]
  BY <1>2 DEF Put
<1>4. v.upd = clock /\ v.sid = r.sid /\ v.key = lib[s][r.lib].sid /\ v.del = r.del
  BY DEF Version
<1>5. Stamps(none, NV)
  <2>1. \/ v.sid = clock /\ ~Restoring
        \/ \E u \in AllVersions : u.sid = v.sid /\ u.key = v.key
    <3>1. ASSUME i \in DOMAIN song[s], song[s][i].sid = r.sid, song[s][i].lib = r.lib
          PROVE  \E u \in AllVersions : u.sid = v.sid /\ u.key = v.key
      <4> DEFINE u == Version(song[s][i], lib[s][song[s][i].lib].sid)
      <4>1. u \in AllVersions
        BY <3>1, RowsThere
      <4>2. u.sid = v.sid /\ u.key = v.key
        BY <1>4, <3>1 DEF Version
      <4> HIDE DEF u
      <4> QED BY <4>1, <4>2
    <3> QED BY <1>4, <3>1
  <2>2. \A x \in NV : x = v
    OBVIOUS
  <2> HIDE DEF v, NV
  <2> QED BY <1>4, <2>1, <2>2 DEF Stamps
<1>6. \A k \in DOMAIN song'[s] : Version(song'[s][k], SongKey(s, k)') \in AllVersions \cup NV
  <2> SUFFICES ASSUME NEW k \in DOMAIN song'[s]
               PROVE  Version(song'[s][k], SongKey(s, k)') \in AllVersions \cup NV
    OBVIOUS
  <2>1. SongKey(s, k)' = lib[s][song'[s][k].lib].sid
    BY KeyIsSid
  <2>2. CASE k = i
    BY <1>3, <2>1, <2>2
  <2>3. CASE k # i
    BY <1>3, <2>1, <2>3, RowsThere
  <2> QED BY <2>2, <2>3
<1>7. /\ \A k \in DOMAIN lib'[s] : lib'[s][k] \in AllRows \cup none
      /\ \A e \in DOMAIN libTodo'[s] : libTodo'[s][e] \in AllRows
      /\ \A w \in got'[s] : /\ Fact(w.libSid, w.libName) \in AllFacts
                            /\ Version(w, WireKey(w)) \in AllVersions
  BY HeldHere
<1>8. SidsKept
  <2>1. \A t \in Site : \A k \in DOMAIN lib[t] :
          \E j \in DOMAIN lib'[t] : lib'[t][j].sid = lib[t][k].sid
    OBVIOUS
  <2>2. ASSUME Restoring, NEW t \in Site, NEW k \in DOMAIN song[t]
        PROVE  \E j \in DOMAIN song'[t] : song'[t][j].sid = song[t][k].sid
    BY <1>2, <1>3, <2>2
  <2> QED BY <2>1, <2>2 DEF SidsKept
<1> HIDE DEF v, NV, none
<1>9. /\ AllRows' \subseteq AllRows \cup none
      /\ AllFacts' \subseteq AllFacts \cup {Fact(a.sid, a.name) : a \in none}
      /\ AllVersions' \subseteq AllVersions \cup NV
  BY <1>2, <1>6, <1>7, SiteHolds
<1> QED BY <1>1, <1>5, <1>8, <1>9, StampsForce

\* Library l of s trashed or brought back as r, and the songs C with it.
Cascade(s, l, d, r, C, U) ==
  /\ l \in DOMAIN lib[s]
  /\ (d = NULL /\ Restoring) \/ d = clock
  /\ SetLib(s, Put(lib[s], l, r))
  /\ r.sid = lib[s][l].sid /\ r.name = lib[s][l].name /\ r.upd = clock /\ r.del = d
  /\ \A i \in C : i \in DOMAIN song[s] /\ song[s][i].lib = l
  /\ SetSong(s, U)
  /\ DOMAIN U = DOMAIN song[s]
  /\ \A i \in C : /\ U[i].sid = song[s][i].sid /\ U[i].lib = l
                  /\ U[i].upd = clock /\ U[i].del = d
  /\ \A i \in DOMAIN song[s] \ C : U[i] = song[s][i]

LEMMA CascadeForces ==
  ASSUME FixedLibraries, ForcedInv, IInv, NEW s \in Site, clock' = clock + 1,
         UNCHANGED <<libTodo, got>>,
         NEW l, NEW d, NEW r, NEW C, NEW U, Cascade(s, l, d, r, C, U)
  PROVE  ForcedInv'
<1>0. /\ l \in DOMAIN lib[s]
      /\ (d = NULL /\ Restoring) \/ d = clock
      /\ SetLib(s, Put(lib[s], l, r))
      /\ r.sid = lib[s][l].sid /\ r.name = lib[s][l].name /\ r.upd = clock /\ r.del = d
      /\ \A i \in C : i \in DOMAIN song[s] /\ song[s][i].lib = l
      /\ SetSong(s, U)
      /\ DOMAIN U = DOMAIN song[s]
      /\ \A i \in C : /\ U[i].sid = song[s][i].sid /\ U[i].lib = l
                      /\ U[i].upd = clock /\ U[i].del = d
      /\ \A i \in DOMAIN song[s] \ C : U[i] = song[s][i]
  BY DEF Cascade
<1> USE <1>0
<1> DEFINE NR == {r}
           NV == {Version(U[i], r.sid) : i \in C}
<1>1. clock \in Nat /\ DOMAIN song = Site /\ DOMAIN lib = Site
  BY DEF IInv, TypeOK, Tables
<1>2. /\ song'[s] = U /\ \A t \in Site \ {s} : song'[t] = song[t]
      /\ lib'[s] = Put(lib[s], l, r) /\ \A t \in Site \ {s} : lib'[t] = lib[t]
  BY <1>1 DEF SetSong, SetLib
<1>3. /\ DOMAIN lib'[s] = DOMAIN lib[s] /\ lib'[s][l] = r
      /\ \A k \in DOMAIN lib[s] \ {l} : lib'[s][k] = lib[s][k]
  BY <1>2 DEF Put
<1>4. \A k \in DOMAIN lib[s] : lib'[s][k].sid = lib[s][k].sid
  BY <1>3
<1>5. clock # NULL /\ d \in Nat /\ d <= clock
  <2>1. lib[s][l].upd \in Nat /\ lib[s][l].upd < clock
    BY Rows DEF LibRow
  <2> QED BY <1>1, <2>1 DEF NULL
<1>6. Stamps(NR, NV)
  <2>1. \A v \in NV : v.upd = clock /\ v.del = d /\ v.key = r.sid
    BY DEF Version
  <2>2. \A v \in NV : \E i \in C : v = Version(U[i], r.sid) /\ v.sid = song[s][i].sid
    BY DEF Version
  <2>3. ASSUME NEW v \in NV
        PROVE  \E u \in AllVersions : u.sid = v.sid /\ u.key = v.key
    <3>1. PICK i \in C : v.sid = song[s][i].sid
      BY <2>2
    <3> DEFINE u == Version(song[s][i], lib[s][song[s][i].lib].sid)
    <3>2. u \in AllVersions
      BY RowsThere
    <3>3. u.sid = v.sid /\ u.key = lib[s][l].sid
      BY <3>1 DEF Version
    <3> HIDE DEF u
    <3> QED BY <2>1, <3>2, <3>3
  <2>4. ASSUME NEW u \in NV, NEW v \in NV, u.sid = v.sid
        PROVE  u = v
    <3>1. PICK i \in C : u = Version(U[i], r.sid) /\ u.sid = song[s][i].sid
      BY <2>2
    <3>2. PICK j \in C : v = Version(U[j], r.sid) /\ v.sid = song[s][j].sid
      BY <2>2
    <3>3. \A x, y \in DOMAIN song[s] : song[s][x].sid = song[s][y].sid => x = y
      BY DEF IInv, DbOK, SidsUnique
    <3>4. i = j
      BY <2>4, <3>1, <3>2, <3>3
    <3> QED BY <3>1, <3>2, <3>4
  <2>5. Fact(r.sid, r.name) \in AllFacts
    BY RowsThere
  <2>6. \A a \in NR : a = r
    OBVIOUS
  <2> HIDE DEF NR, NV
  <2> QED BY <1>5, <2>1, <2>3, <2>4, <2>5, <2>6 DEF Stamps
<1>7. \A k \in DOMAIN song'[s] : Version(song'[s][k], SongKey(s, k)') \in AllVersions \cup NV
  <2> SUFFICES ASSUME NEW k \in DOMAIN song[s]
               PROVE  Version(U[k], SongKey(s, k)') \in AllVersions \cup NV
    BY <1>2
  <2>1. SongKey(s, k)' = lib'[s][U[k].lib].sid
    BY <1>2, KeyIsSid
  <2>2. CASE k \in C
    BY <1>3, <2>1, <2>2
  <2>3. CASE k \notin C
    <3>1. U[k] = song[s][k] /\ song[s][k].lib \in DOMAIN lib[s]
      BY <2>3, Rows
    <3> QED BY <1>4, <2>1, <3>1, RowsThere
  <2> QED BY <2>2, <2>3
<1>8. /\ \A k \in DOMAIN lib'[s] : lib'[s][k] \in AllRows \cup NR
      /\ \A e \in DOMAIN libTodo'[s] : libTodo'[s][e] \in AllRows
      /\ \A w \in got'[s] : /\ Fact(w.libSid, w.libName) \in AllFacts
                            /\ Version(w, WireKey(w)) \in AllVersions
  BY <1>3, HeldHere
<1>9. SidsKept
  <2>1. \A t \in Site : \A k \in DOMAIN lib[t] :
          \E j \in DOMAIN lib'[t] : lib'[t][j].sid = lib[t][k].sid
    BY <1>2, <1>3, <1>4
  <2>2. ASSUME NEW t \in Site, NEW k \in DOMAIN song[t]
        PROVE  \E j \in DOMAIN song'[t] : song'[t][j].sid = song[t][k].sid
    <3>1. CASE t = s
      <4>1. U[k].sid = song[s][k].sid
        BY <3>1
      <4> QED BY <1>2, <3>1, <4>1
    <3>2. CASE t # s
      BY <1>2, <3>2
    <3> QED BY <3>1, <3>2
  <2> QED BY <2>1, <2>2 DEF SidsKept
<1> HIDE DEF NR, NV
<1>10. /\ AllRows' \subseteq AllRows \cup NR
       /\ AllFacts' \subseteq AllFacts \cup {Fact(a.sid, a.name) : a \in NR}
       /\ AllVersions' \subseteq AllVersions \cup NV
  BY <1>2, <1>7, <1>8, SiteHolds
<1> QED BY <1>1, <1>6, <1>9, <1>10, StampsForce

LEMMA LocalStepForces ==
  ASSUME FixedLibraries, ForcedInv, IInv, NEW s \in Site, ~pruning[s], LocalStep(s)
  PROVE  ForcedInv'
<1>0. clock \in Nat /\ clock <= clock /\ NULL \in Nat /\ NULL <= clock
  BY DEF IInv, TypeOK, NULL
<1>a. ASSUME NEW op, Operate(op)
      PROVE  clock' = clock + 1 /\ UNCHANGED <<libTodo, got>> /\ op \in Ops
  BY <1>a DEF Operate, cycle
<1>1. ASSUME NEW b \in LibBase
      PROVE  ~CreateLibrary(s, b) /\ \A l \in DOMAIN lib[s] : ~RenameLibrary(s, l, b)
  BY <1>a DEF CreateLibrary, RenameLibrary, FixedLibraries
<1>2. ASSUME NEW l \in DOMAIN lib[s], DeleteLibrary(s, l)
      PROVE  ForcedInv'
  <2> DEFINE r == [lib[s][l] EXCEPT !.del = clock, !.upd = clock]
             C == {i \in Live(song[s]) : song[s][i].lib = l}
             U == TrashCascade(s, l)
  <2>1. /\ Operate("delete_library") /\ SetLib(s, Put(lib[s], l, r)) /\ SetSong(s, U)
    BY <1>2 DEF DeleteLibrary
  <2>2. /\ r.sid = lib[s][l].sid /\ r.name = lib[s][l].name /\ r.upd = clock
        /\ r.del = clock
    BY Rows DEF LibRow
  <2>3. DOMAIN U = DOMAIN song[s] /\ \A i \in DOMAIN song[s] \ C : U[i] = song[s][i]
    BY DEF TrashCascade
  <2>4. \A i \in C : i \in DOMAIN song[s] /\ song[s][i].lib = l
    BY DEF Live
  <2>5. ASSUME NEW i \in C
        PROVE  /\ U[i].sid = song[s][i].sid /\ U[i].lib = l
               /\ U[i].upd = clock /\ U[i].del = clock
    <3>1. U[i] = [song[s][i] EXCEPT !.del = clock, !.upd = clock]
      BY <2>4 DEF TrashCascade
    <3>2. song[s][i] \in SongRow
      BY <2>4, Rows
    <3> QED BY <2>4, <3>1, <3>2 DEF SongRow
  <2> HIDE DEF r, C, U
  <2>6. clock' = clock + 1 /\ UNCHANGED <<libTodo, got>>
    BY <1>a, <2>1
  <2>7. SetLib(s, Put(lib[s], l, r)) /\ SetSong(s, U)
    BY <2>1
  <2>8. Cascade(s, l, clock, r, C, U)
    BY <2>2, <2>3, <2>4, <2>5, <2>7 DEF Cascade
  <2> QED BY <2>6, <2>8, CascadeForces
<1>3. ASSUME NEW l \in DOMAIN lib[s], RestoreLibrary(s, l)
      PROVE  ForcedInv'
  <2> DEFINE d == NULL
             r == [lib[s][l] EXCEPT !.del = NULL, !.upd = clock]
             C == Cascaded(s, l)
             U == [i \in DOMAIN song[s] |->
                     IF i \in C THEN [song[s][i] EXCEPT !.del = NULL, !.upd = clock]
                                ELSE song[s][i]]
  <2>1. /\ Operate("restore_library") /\ SetLib(s, Put(lib[s], l, r)) /\ SetSong(s, U)
    BY <1>3 DEF RestoreLibrary
  <2>2. /\ r.sid = lib[s][l].sid /\ r.name = lib[s][l].name /\ r.upd = clock
        /\ r.del = d
    BY Rows DEF LibRow
  <2>3. DOMAIN U = DOMAIN song[s] /\ \A i \in DOMAIN song[s] \ C : U[i] = song[s][i]
    OBVIOUS
  <2>4. \A i \in C : i \in DOMAIN song[s] /\ song[s][i].lib = l
    BY DEF Cascaded, Dead
  <2>5. ASSUME NEW i \in C
        PROVE  /\ U[i].sid = song[s][i].sid /\ U[i].lib = l
               /\ U[i].upd = clock /\ U[i].del = d
    <3>1. U[i] = [song[s][i] EXCEPT !.del = NULL, !.upd = clock]
      BY <2>4
    <3>2. song[s][i] \in SongRow
      BY <2>4, Rows
    <3> QED BY <2>4, <3>1, <3>2 DEF SongRow
  <2> HIDE DEF r, C, U
  <2>6. clock' = clock + 1 /\ UNCHANGED <<libTodo, got>> /\ Restoring
    BY <1>a, <2>1 DEF Restoring
  <2>7. (d = NULL /\ Restoring) \/ d = clock
    BY <2>6
  <2>8. SetLib(s, Put(lib[s], l, r)) /\ SetSong(s, U)
    BY <2>1
  <2> HIDE DEF d
  <2>9. Cascade(s, l, d, r, C, U)
    BY <2>2, <2>3, <2>4, <2>5, <2>7, <2>8 DEF Cascade
  <2> QED BY <2>6, <2>9, CascadeForces
<1>b. ASSUME NEW op, Operate(op), UNCHANGED lib, NEW i, NEW r,
             SetSong(s, Put(song[s], i, r)), r.upd = clock,
             r.del \in Nat, r.del <= clock,
             \/ r.sid = clock /\ ~Restoring
             \/ i \in DOMAIN song[s] /\ song[s][i].sid = r.sid /\ song[s][i].lib = r.lib
      PROVE  ForcedInv'
  BY <1>a, <1>b, StampedSongForces
<1>c. \A i \in DOMAIN song[s] : song[s][i].del \in Nat /\ song[s][i].del <= clock
  <2>1. \A i \in DOMAIN song[s] : song[s][i].del \in Nat /\ song[s][i].del < clock
    BY RowsThere
  <2> QED BY <1>0, <2>1
<1>4. ASSUME NEW l \in DOMAIN lib[s], NEW n \in SongName, CreateSong(s, l, n)
      PROVE  ForcedInv'
  <2>1. PICK i \in Id :
          SetSong(s, Put(song[s], i, [sid |-> clock, lib |-> l, name |-> n,
                                      text |-> clock, upd |-> clock, del |-> NULL]))
    BY <1>4 DEF CreateSong
  <2>2. Operate("create_presentation") /\ UNCHANGED lib
    BY <1>4 DEF CreateSong
  <2>3. ~Restoring
    BY <1>a, <2>2 DEF FixedLibraries
  <2> QED BY <1>0, <1>b, <2>1, <2>2, <2>3
<1>5. ASSUME NEW i \in DOMAIN song[s], NEW l \in DOMAIN lib[s], CopySong(s, i, l)
      PROVE  ForcedInv'
  <2> DEFINE r == [song[s][i] EXCEPT !.sid = clock, !.lib = l, !.upd = clock]
  <2>1. PICK k \in Id : SetSong(s, Put(song[s], k, r))
    BY <1>5 DEF CopySong
  <2>2. Operate("copy_presentation") /\ UNCHANGED lib
    BY <1>5 DEF CopySong
  <2>3. r.sid = clock /\ r.upd = clock /\ r.del = song[s][i].del
    BY Rows DEF SongRow
  <2>4. ~Restoring
    BY <1>a, <2>2 DEF FixedLibraries
  <2> HIDE DEF r
  <2> QED BY <1>b, <1>c, <2>1, <2>2, <2>3, <2>4
<1>d. ASSUME NEW i \in DOMAIN song[s], NEW r, NEW op, Operate(op), UNCHANGED lib,
             SetSong(s, Put(song[s], i, r)), r.sid = song[s][i].sid,
             r.lib = song[s][i].lib, r.upd = clock,
             r.del = NULL \/ r.del = clock \/ r.del = song[s][i].del
      PROVE  ForcedInv'
  BY <1>0, <1>b, <1>c, <1>d
<1>6. ASSUME NEW i \in DOMAIN song[s], NEW n \in SongName, RenameSong(s, i, n)
      PROVE  ForcedInv'
  <2> DEFINE r == [song[s][i] EXCEPT !.name = n, !.upd = clock]
  <2>1. /\ SetSong(s, Put(song[s], i, r))
        /\ Operate("rename_presentation") /\ UNCHANGED lib
    BY <1>6 DEF RenameSong
  <2>2. r.sid = song[s][i].sid /\ r.lib = song[s][i].lib /\ r.upd = clock
        /\ r.del = song[s][i].del
    BY Rows DEF SongRow
  <2> HIDE DEF r
  <2> QED BY <1>d, <2>1, <2>2
<1>7. ASSUME NEW i \in DOMAIN song[s], EditSong(s, i)
      PROVE  ForcedInv'
  <2> DEFINE r == [song[s][i] EXCEPT !.text = clock, !.upd = clock]
  <2>1. /\ SetSong(s, Put(song[s], i, r))
        /\ Operate("edit_slides") /\ UNCHANGED lib
    BY <1>7 DEF EditSong
  <2>2. r.sid = song[s][i].sid /\ r.lib = song[s][i].lib /\ r.upd = clock
        /\ r.del = song[s][i].del
    BY Rows DEF SongRow
  <2> HIDE DEF r
  <2> QED BY <1>d, <2>1, <2>2
<1>8. ASSUME NEW i \in DOMAIN song[s], DeleteSong(s, i)
      PROVE  ForcedInv'
  <2> DEFINE r == [song[s][i] EXCEPT !.del = clock, !.upd = clock]
  <2>1. /\ SetSong(s, Put(song[s], i, r))
        /\ Operate("delete_presentation") /\ UNCHANGED lib
    BY <1>8 DEF DeleteSong
  <2>2. r.sid = song[s][i].sid /\ r.lib = song[s][i].lib /\ r.upd = clock
        /\ r.del = clock
    BY Rows DEF SongRow
  <2> HIDE DEF r
  <2> QED BY <1>d, <2>1, <2>2
<1>9. ASSUME NEW i \in DOMAIN song[s], RestoreSong(s, i)
      PROVE  ForcedInv'
  <2> DEFINE r == [song[s][i] EXCEPT !.del = NULL, !.upd = clock]
  <2>1. /\ SetSong(s, Put(song[s], i, r))
        /\ Operate("restore_presentation") /\ UNCHANGED lib
    BY <1>9 DEF RestoreSong
  <2>2. r.sid = song[s][i].sid /\ r.lib = song[s][i].lib /\ r.upd = clock
        /\ r.del = NULL
    BY Rows DEF SongRow
  <2> HIDE DEF r
  <2> QED BY <1>d, <2>1, <2>2
<1>10. ASSUME NEW I, ReplacePlaylist(s, I)
       PROVE  ForcedInv'
  <2>1. UNCHANGED <<clock, lib, song, libTodo, got>>
    BY <1>10 DEF ReplacePlaylist, cycle
  <2>2. Quiet
    BY <1>0, <2>1, CarriedHolds
  <2> QED BY <1>0, <2>2, QuietForces
<1>11. ~PruneSongs(s) /\ ~PruneLibraries(s)
  BY DEF PruneSongs, PruneLibraries, FixedLibraries
<1> QED BY <1>1, <1>2, <1>3, <1>4, <1>5, <1>6, <1>7, <1>8, <1>9, <1>10, <1>11
        DEF LocalStep

\* A step that writes rows and versions that are known.
LEMMA KnownForces ==
  ASSUME ForcedInv, clock \in Nat, clock' = clock, SidsKept,
         AllRows' \subseteq AllRows, AllFacts' \subseteq AllFacts,
         AllVersions' \subseteq AllVersions
  PROVE  ForcedInv'
<1>1. clock' \in Nat /\ clock <= clock'
  OBVIOUS
<1> DEFINE none == {}
<1>2. /\ AllRows' \subseteq AllRows \cup none
      /\ AllFacts' \subseteq AllFacts \cup {Fact(a.sid, a.name) : a \in none}
      /\ AllVersions' \subseteq AllVersions \cup none
  OBVIOUS
<1>3. \A a \in none : FALSE
  OBVIOUS
<1> HIDE DEF none
<1> QED BY <1>1, <1>2, <1>3, ForcingKept

LEMMA ApplyLibraryForces ==
  ASSUME FixedLibraries, ForcedInv, IInv, NEW s \in Site, ApplyLibrary(s)
  PROVE  ForcedInv'
<1>0. clock \in Nat /\ clock <= clock /\ DOMAIN libTodo = Site /\ DOMAIN lib = Site
  BY DEF IInv, TypeOK, Tables
<1>1. PICK e \in DOMAIN libTodo[s] :
        /\ TakeLibrary(s, e)
        /\ \/ \E i \in DOMAIN lib[s] : UpdateLibrary(s, libTodo[s][e], i)
           \/ \E i \in DOMAIN lib[s] : AdoptLibrary(s, libTodo[s][e], i)
           \/ \E i \in Id : ImportLibrary(s, libTodo[s][e], i)
           \/ SkipLibrary(s, libTodo[s][e])
  BY DEF ApplyLibrary
<1> DEFINE w == libTodo[s][e]
<1>2. w \in AllRows /\ Fact(w.sid, w.name) \in AllFacts
  <2>1. w \in AllRows
    BY HeldHere
  <2>2. \A a \in AllRows : Fact(a.sid, a.name) \in AllFacts
    BY DEF AllRows, AllFacts, LibFacts
  <2> QED BY <2>1, <2>2
<1>3. \A f, g \in AllFacts : f.sid = g.sid <=> f.name = g.name
  BY DEF ForcedInv, LibsFixed
<1>4. /\ UNCHANGED <<song, got>>
      /\ \A t \in Site \ {s} : libTodo'[t] = libTodo[t]
      /\ libTodo'[s] = Without(libTodo[s], {e})
  BY <1>0, <1>1 DEF TakeLibrary
<1>5. \A d \in DOMAIN libTodo'[s] : libTodo'[s][d] \in AllRows
  <2>1. \A d \in DOMAIN libTodo'[s] : d \in DOMAIN libTodo[s]
                                        /\ libTodo'[s][d] = libTodo[s][d]
    BY <1>4 DEF Without, Restrict
  <2> QED BY <2>1, HeldHere
<1> HIDE DEF w
<1>6. BySid(lib[s], w.sid) # {}
  <2>1. Fact(w.sid, w.name).sid = w.sid
    BY DEF Fact
  <2> QED BY <1>2, <2>1 DEF ForcedInv, LibsFixed
<1>7. ASSUME NEW i \in DOMAIN lib[s], UpdateLibrary(s, w, i)
      PROVE  ForcedInv'
  <2>1. lib[s][i].sid = w.sid
    BY <1>7 DEF UpdateLibrary, BySid
  <2>2. SetLib(s, Put(lib[s], i, w)) /\ clock' = clock
    <3>1. CASE w.del # NULL
      BY <1>7, <3>1 DEF UpdateLibrary
    <3>2. CASE w.del = NULL
      <4>1. PICK k \in 1 .. MaxSuffix :
              /\ IsFreeName(lib[s], i, w.name, k)
              /\ k = 1 => SetLib(s, Put(lib[s], i, w)) /\ UNCHANGED clock
        BY <1>7, <3>2 DEF UpdateLibrary
      <4>2. k = 1
        <5> SUFFICES ASSUME k # 1 PROVE FALSE
          OBVIOUS
        <5>1. 1 \in 1 .. k - 1
          BY BoundAssumption
        <5>2. Candidate(w.name, 1) = w.name
          BY DEF Candidate
        <5>3. PICK j \in Live(lib[s]) \ {i} : lib[s][j].name = w.name
          BY <4>1, <5>1, <5>2 DEF IsFreeName
        <5> DEFINE f == Fact(lib[s][j].sid, lib[s][j].name)
                   g == Fact(w.sid, w.name)
        <5>4. j \in DOMAIN lib[s] /\ f \in AllFacts /\ g \in AllFacts
          BY <1>2, HeldHere DEF Live
        <5>5. f.sid = lib[s][j].sid /\ f.name = lib[s][j].name
              /\ g.sid = w.sid /\ g.name = w.name
          BY DEF Fact
        <5> HIDE DEF f, g
        <5>6. lib[s][j].sid = w.sid
          BY <1>3, <5>3, <5>4, <5>5
        <5>7. j = i
          BY <2>1, <5>4, <5>6 DEF IInv, DbOK, SidsUnique
        <5> QED BY <5>7
      <4> QED BY <4>1, <4>2
    <3> QED BY <3>1, <3>2
  <2> DEFINE none == {}
  <2>3. /\ lib'[s] = Put(lib[s], i, w)
        /\ \A t \in Site \ {s} : /\ lib'[t] = lib[t] /\ song'[t] = song[t]
                                 /\ libTodo'[t] = libTodo[t] /\ got'[t] = got[t]
    BY <1>0, <1>4, <2>2 DEF SetLib
  <2>4. /\ DOMAIN lib'[s] = DOMAIN lib[s] /\ lib'[s][i] = w
        /\ \A k \in DOMAIN lib[s] \ {i} : lib'[s][k] = lib[s][k]
    BY <2>3 DEF Put
  <2>5. \A k \in DOMAIN lib[s] : lib'[s][k].sid = lib[s][k].sid
    BY <2>1, <2>4
  <2>6. \A k \in DOMAIN lib'[s] : lib'[s][k] \in AllRows \cup none
    BY <1>2, <2>4, HeldHere
  <2>7. \A u \in got'[s] : /\ Fact(u.libSid, u.libName) \in AllFacts
                           /\ Version(u, WireKey(u)) \in AllVersions
    BY <1>4, HeldHere
  <2>8. \A k \in DOMAIN song'[s] :
          Version(song'[s][k], SongKey(s, k)') \in AllVersions \cup none
    <3> SUFFICES ASSUME NEW k \in DOMAIN song[s]
                 PROVE  Version(song'[s][k], SongKey(s, k)') \in AllVersions
      BY <1>4
    <3>1. SongKey(s, k)' = lib'[s][song[s][k].lib].sid /\ song'[s][k] = song[s][k]
      BY <1>4, KeyIsSid
    <3>2. song[s][k].lib \in DOMAIN lib[s]
      BY RowsThere
    <3>3. SongKey(s, k)' = lib[s][song[s][k].lib].sid
      BY <2>5, <3>1, <3>2
    <3> QED BY <3>1, <3>3, RowsThere
  <2> HIDE DEF none
  <2>9. /\ AllRows' \subseteq AllRows \cup none
        /\ AllFacts' \subseteq AllFacts \cup {Fact(a.sid, a.name) : a \in none}
        /\ AllVersions' \subseteq AllVersions \cup none
    BY <1>5, <2>3, <2>6, <2>7, <2>8, SiteHolds
  <2>10. SidsKept
    <3>1. ASSUME NEW t \in Site, NEW k \in DOMAIN lib[t]
          PROVE  \E j \in DOMAIN lib'[t] : lib'[t][j].sid = lib[t][k].sid
      BY <2>3, <2>4, <2>5
    <3> QED BY <1>4, <3>1 DEF SidsKept
  <2>11. /\ AllRows' \subseteq AllRows /\ AllFacts' \subseteq AllFacts
         /\ AllVersions' \subseteq AllVersions
    BY <2>9 DEF none
  <2> QED BY <1>0, <2>2, <2>10, <2>11, KnownForces
<1>8. \A i \in Id : ~AdoptLibrary(s, w, i) /\ ~ImportLibrary(s, w, i)
  BY <1>6 DEF AdoptLibrary, ImportLibrary
<1>9. ASSUME NEW i \in DOMAIN lib[s]
      PROVE  ~AdoptLibrary(s, w, i)
  BY <1>6 DEF AdoptLibrary
<1>10. CASE SkipLibrary(s, w)
  <2>1. UNCHANGED <<lib, song>> /\ clock' \in Nat /\ clock <= clock'
    BY <1>0, <1>4, <1>10 DEF SkipLibrary
  <2>2. \A u \in got'[s] : u \in got[s]
    BY <1>4
  <2>3. \A t \in Site \ {s} : libTodo'[t] = libTodo[t] /\ got'[t] = got[t]
    BY <1>4
  <2>4. Quiet
    BY <1>4, <2>1, <2>2, <2>3, CarriedHolds
  <2> QED BY <1>0, <2>4, QuietForces
<1> QED BY <1>1, <1>7, <1>8, <1>9, <1>10 DEF w

\* The answer w, written as song i of s under the library of its own.
Placed(s, w, i, p) ==
  /\ w \in got[s]
  /\ WriteSong(s, i, w, p) /\ ~p.minted
  /\ UNCHANGED libTodo /\ got' = [got EXCEPT ![s] = {}]
  /\ p.at \in DOMAIN lib[s] /\ lib[s][p.at].sid = w.libSid
  /\ DOMAIN p.libs = DOMAIN lib[s]
  /\ \A k \in DOMAIN lib[s] : p.libs[k].sid = lib[s][k].sid
  /\ Restoring /\ i \in DOMAIN song[s] => song[s][i].sid = w.sid

\* What that leaves at s was known or is among NR and NV.
Leaves(w, p, NR, NV) ==
  /\ \A k \in DOMAIN p.libs : p.libs[k] \in AllRows \cup NR
  /\ Version(SyncedRow(w, p), w.libSid) \in AllVersions \cup NV

LEMMA PlacedHolds ==
  ASSUME FixedLibraries, ForcedInv, IInv, NEW s \in Site, NEW w, NEW i, NEW p,
         Placed(s, w, i, p), NEW NR, NEW NV, Leaves(w, p, NR, NV)
  PROVE  /\ clock' = clock /\ SidsKept
         /\ AllRows' \subseteq AllRows \cup NR
         /\ AllFacts' \subseteq AllFacts \cup {Fact(a.sid, a.name) : a \in NR}
         /\ AllVersions' \subseteq AllVersions \cup NV
<1> DEFINE row == SyncedRow(w, p)
<1>0. /\ w \in got[s] /\ WriteSong(s, i, w, p) /\ ~p.minted
      /\ UNCHANGED libTodo /\ got' = [got EXCEPT ![s] = {}]
      /\ p.at \in DOMAIN lib[s] /\ lib[s][p.at].sid = w.libSid
      /\ DOMAIN p.libs = DOMAIN lib[s]
      /\ \A k \in DOMAIN lib[s] : p.libs[k].sid = lib[s][k].sid
      /\ Restoring /\ i \in DOMAIN song[s] => song[s][i].sid = w.sid
  BY DEF Placed
<1>1. /\ lib'[s] = p.libs /\ song'[s] = Put(song[s], i, row) /\ got'[s] = {}
      /\ \A t \in Site \ {s} : /\ lib'[t] = lib[t] /\ song'[t] = song[t]
                               /\ libTodo'[t] = libTodo[t] /\ got'[t] = got[t]
      /\ clock' = clock
  BY <1>0 DEF WriteSong, SetLib, SetSong, IInv, TypeOK, Tables
<1>2. row.lib = p.at /\ row.sid = w.sid
  BY DEF SyncedRow
<1>3. /\ Version(row, w.libSid) \in AllVersions \cup NV
      /\ \A k \in DOMAIN p.libs : p.libs[k] \in AllRows \cup NR
  BY DEF Leaves
<1> HIDE DEF row
<1>4. /\ song'[s][i] = row /\ i \in DOMAIN song'[s]
      /\ \A k \in DOMAIN song'[s] \ {i} : k \in DOMAIN song[s] /\ song'[s][k] = song[s][k]
      /\ \A k \in DOMAIN song[s] \ {i} : k \in DOMAIN song'[s] /\ song'[s][k] = song[s][k]
  BY <1>1 DEF Put
<1>5. \A k \in DOMAIN lib'[s] : lib'[s][k] \in AllRows \cup NR
  BY <1>1, <1>3
<1>6. \A k \in DOMAIN song'[s] : Version(song'[s][k], SongKey(s, k)') \in AllVersions \cup NV
  <2> SUFFICES ASSUME NEW k \in DOMAIN song'[s]
               PROVE  Version(song'[s][k], SongKey(s, k)') \in AllVersions \cup NV
    OBVIOUS
  <2>1. SongKey(s, k)' = lib'[s][song'[s][k].lib].sid
    BY KeyIsSid
  <2>2. CASE k = i
    <3>1. SongKey(s, k)' = w.libSid
      BY <1>0, <1>1, <1>2, <1>4, <2>1, <2>2
    <3> QED BY <1>3, <1>4, <2>2, <3>1
  <2>3. CASE k # i
    <3>1. k \in DOMAIN song[s] /\ song'[s][k] = song[s][k]
      BY <1>4, <2>3
    <3>2. song[s][k].lib \in DOMAIN lib[s]
      BY <3>1, RowsThere
    <3>3. SongKey(s, k)' = lib[s][song[s][k].lib].sid
      BY <1>0, <1>1, <2>1, <3>1, <3>2
    <3> QED BY <3>1, <3>3, RowsThere
  <2> QED BY <2>2, <2>3
<1>7. /\ \A e \in DOMAIN libTodo'[s] : libTodo'[s][e] \in AllRows
      /\ \A u \in got'[s] : /\ Fact(u.libSid, u.libName) \in AllFacts
                            /\ Version(u, WireKey(u)) \in AllVersions
  BY <1>0, <1>1, HeldHere
<1>8. /\ AllRows' \subseteq AllRows \cup NR
      /\ AllFacts' \subseteq AllFacts \cup {Fact(a.sid, a.name) : a \in NR}
      /\ AllVersions' \subseteq AllVersions \cup NV
  BY <1>1, <1>5, <1>6, <1>7, SiteHolds
<1>9. SidsKept
  <2>1. ASSUME NEW t \in Site, NEW k \in DOMAIN lib[t]
        PROVE  \E j \in DOMAIN lib'[t] : lib'[t][j].sid = lib[t][k].sid
    BY <1>0, <1>1
  <2>2. ASSUME Restoring, NEW t \in Site, NEW k \in DOMAIN song[t]
        PROVE  \E j \in DOMAIN song'[t] : song'[t][j].sid = song[t][k].sid
    <3>1. CASE t # s
      BY <1>1, <3>1
    <3>2. CASE t = s /\ k # i
      BY <1>4, <3>2
    <3>3. CASE t = s /\ k = i
      BY <1>0, <1>2, <1>4, <2>2, <3>3
    <3> QED BY <3>1, <3>2, <3>3
  <2> QED BY <2>1, <2>2 DEF SidsKept
<1> QED BY <1>1, <1>8, <1>9

LEMMA AllRowsTyped ==
  ASSUME IInv, NEW a \in AllRows
  PROVE  a \in LibRow
<1>1. \A t \in Site : /\ \A k \in DOMAIN lib[t] : lib[t][k] \in LibRow
                      /\ \A k \in DOMAIN libTodo[t] : libTodo[t][k] \in LibRow
  BY DEF IInv, TypeOK, Tables, IsTable
<1> QED BY <1>1 DEF AllRows, LibRows

\* Written as it is.
LEMMA PlacedPlainly ==
  ASSUME FixedLibraries, ForcedInv, IInv, NEW s \in Site, NEW w, NEW i, NEW p,
         Placed(s, w, i, p), p.libs = lib[s], p.forced = NULL
  PROVE  ForcedInv'
<1>1. w \in got[s]
  BY DEF Placed
<1>2. Version(SyncedRow(w, p), w.libSid) = Version(w, w.libSid)
  BY DEF Version, SyncedRow
<1> DEFINE none == {}
<1>3. Version(SyncedRow(w, p), w.libSid) \in AllVersions \cup none
  BY <1>1, <1>2, RowsThere
<1>4. \A k \in DOMAIN p.libs : p.libs[k] \in AllRows \cup none
  BY RowsThere
<1>5. Leaves(w, p, none, none)
  BY <1>3, <1>4 DEF Leaves
<1> HIDE DEF none
<1>6. /\ clock' = clock /\ SidsKept
      /\ AllRows' \subseteq AllRows \cup none
      /\ AllFacts' \subseteq AllFacts \cup {Fact(a.sid, a.name) : a \in none}
      /\ AllVersions' \subseteq AllVersions \cup none
  BY <1>5, PlacedHolds
<1>7. /\ AllRows' \subseteq AllRows /\ AllFacts' \subseteq AllFacts
      /\ AllVersions' \subseteq AllVersions
  BY <1>6 DEF none
<1>8. clock \in Nat
  BY DEF IInv, TypeOK
<1> QED BY <1>6, <1>7, <1>8, KnownForces

\* Written with the library it brings back.
LEMMA PlacedRevives ==
  ASSUME FixedLibraries, ForcedInv, IInv, NEW s \in Site, NEW w, NEW i, NEW p,
         Placed(s, w, i, p), p.forced = NULL, w.del = NULL,
         p.libs = Put(lib[s], p.at, [lib[s][p.at] EXCEPT !.del = NULL, !.upd = w.upd])
  PROVE  ForcedInv'
<1> DEFINE r == [lib[s][p.at] EXCEPT !.del = NULL, !.upd = w.upd]
           u == Version(w, w.libSid)
           NR == {r}
           none == {}
<1>1. w \in got[s] /\ p.at \in DOMAIN lib[s] /\ lib[s][p.at].sid = w.libSid
  BY DEF Placed
<1>2. Version(SyncedRow(w, p), w.libSid) = u
  BY DEF Version, SyncedRow
<1>3. u \in AllVersions
  BY <1>1, RowsThere
<1>4. u.upd = w.upd /\ u.key = w.libSid /\ u.del = NULL
  BY DEF Version
<1>a. lib[s][p.at] \in LibRow /\ p.libs = Put(lib[s], p.at, r)
  BY <1>1, RowsThere
<1>b. r \in LibRow
  <2>1. w.upd \in Nat
    BY <1>3, <1>4 DEF ForcedInv, VersionsStamped, Earlier
  <2> QED BY <1>a, <2>1 DEF LibRow, NULL
<1>5. r.sid = w.libSid /\ r.name = lib[s][p.at].name /\ r.upd = w.upd /\ r.del = NULL
  BY <1>1, <1>a DEF LibRow
<1>6. Fact(r.sid, r.name) \in AllFacts
  BY <1>1, <1>5, RowsThere
<1>c. r \in NR
  OBVIOUS
<1> HIDE DEF r
<1>7. \A k \in DOMAIN p.libs : p.libs[k] \in AllRows \cup NR
  <2>1. \A k \in DOMAIN p.libs : p.libs[k] = r \/ (k \in DOMAIN lib[s] /\ p.libs[k] = lib[s][k])
    BY <1>a DEF Put
  <2> QED BY <1>c, <2>1, RowsThere
<1>8. Leaves(w, p, NR, none)
  BY <1>2, <1>3, <1>7 DEF Leaves
<1>9. \A a \in NR : a = r
  OBVIOUS
<1>10. none = {} /\ clock \in Nat /\ clock <= clock
  BY DEF IInv, TypeOK
<1> HIDE DEF u, NR, none
<1>11. /\ clock' = clock /\ SidsKept
       /\ AllRows' \subseteq AllRows \cup NR
       /\ AllFacts' \subseteq AllFacts \cup {Fact(a.sid, a.name) : a \in NR}
       /\ AllVersions' \subseteq AllVersions \cup none
  BY <1>8, PlacedHolds
<1>12. Earlier' = Earlier
  BY <1>11 DEF Earlier
<1>13. \A a \in NR : a.upd \in Earlier' /\ Fact(a.sid, a.name) \in AllFacts
  BY <1>3, <1>4, <1>5, <1>6, <1>9, <1>12 DEF ForcedInv, VersionsStamped
<1>14. ASSUME NEW b \in AllRows, r.upd = b.upd
       PROVE  b = r
  <2>1. b.sid = r.sid /\ b.del = r.del
    BY <1>3, <1>4, <1>5, <1>14 DEF ForcedInv, RowsMatch, Match
  <2>2. b \in LibRow
    BY AllRowsTyped
  <2>3. b.name = r.name
    <3> DEFINE f == Fact(b.sid, b.name)
               g == Fact(r.sid, r.name)
    <3>1. f \in AllFacts /\ g \in AllFacts
      BY <1>6 DEF AllRows, AllFacts, LibFacts
    <3>2. f.sid = b.sid /\ f.name = b.name /\ g.sid = r.sid /\ g.name = r.name
      BY DEF Fact
    <3> HIDE DEF f, g
    <3> QED BY <2>1, <3>1, <3>2 DEF ForcedInv, LibsFixed
  <2>4. b = [sid |-> b.sid, name |-> b.name, upd |-> b.upd, del |-> b.del]
    BY <2>2 DEF LibRow
  <2>5. r = [sid |-> r.sid, name |-> r.name, upd |-> r.upd, del |-> r.del]
    BY <1>b DEF LibRow
  <2> QED BY <1>14, <2>1, <2>3, <2>4, <2>5
<1>15. \A a \in NR, b \in AllRows \cup NR : a.upd = b.upd => a = b
  BY <1>9, <1>14
<1>16. ASSUME NEW v \in AllVersions
       PROVE  Match(r, v)
  <2>1. OneStamp(u, v)
    BY <1>3 DEF ForcedInv, VersionsStamped
  <2> QED BY <1>4, <1>5, <2>1 DEF OneStamp, Match
<1>17. \A a \in NR, v \in AllVersions \cup none : Match(a, v)
  BY <1>9, <1>10, <1>16
<1>18. /\ \A a \in AllRows, v \in none : Match(a, v)
       /\ \A v \in none : v.sid \in Earlier' /\ v.upd \in Earlier' /\ v.del \in Earlier'
       /\ \A v \in none, x \in AllVersions \cup none : OneStamp(v, x)
       /\ Restoring => \A v \in none : \E x \in AllVersions : x.sid = v.sid
  BY <1>10
<1>19. clock' \in Nat /\ clock <= clock'
  BY <1>10, <1>11
<1> QED BY <1>10, <1>11, <1>13, <1>15, <1>17, <1>18, <1>19, ForcingKept

\* Written into the trash its library is in.
LEMMA PlacedForced ==
  ASSUME FixedLibraries, ForcedInv, IInv, NEW s \in Site, NEW w, NEW i, NEW p,
         Placed(s, w, i, p), p.libs = lib[s], w.del = NULL,
         lib[s][p.at].del # NULL, ~(w.upd > lib[s][p.at].upd),
         p.forced = lib[s][p.at].upd
  PROVE  ForcedInv'
<1> DEFINE v == Version(SyncedRow(w, p), w.libSid)
           u == Version(w, w.libSid)
           NV == {v}
           none == {}
<1>1. w \in got[s] /\ p.at \in DOMAIN lib[s] /\ lib[s][p.at].sid = w.libSid
  BY DEF Placed
<1>2. u \in AllVersions
  BY <1>1, RowsThere
<1>3. /\ u.sid = w.sid /\ u.upd = w.upd /\ u.key = w.libSid /\ u.del = NULL /\ u.name = w.name
      /\ v.sid = w.sid /\ v.upd = w.upd /\ v.key = w.libSid /\ v.name = w.name
      /\ v.del = IF p.forced # NULL THEN p.forced ELSE w.del
  BY DEF Version, SyncedRow
<1>4. \A k \in DOMAIN p.libs : p.libs[k] \in AllRows \cup none
  BY RowsThere
<1>5. v \in AllVersions \cup NV /\ \A x \in NV : x = v
  OBVIOUS
<1>6. none = {} /\ clock \in Nat /\ clock <= clock
  BY DEF IInv, TypeOK
<1>7. Leaves(w, p, none, NV)
  BY <1>4, <1>5 DEF Leaves
<1> HIDE DEF v, u, NV, none
<1>8. /\ clock' = clock /\ SidsKept
      /\ AllRows' \subseteq AllRows \cup none
      /\ AllFacts' \subseteq AllFacts \cup {Fact(a.sid, a.name) : a \in none}
      /\ AllVersions' \subseteq AllVersions \cup NV
  BY <1>7, PlacedHolds
<1>9. Earlier' = Earlier
  BY <1>8 DEF Earlier
<1>10. /\ u.sid \in Earlier /\ u.upd \in Earlier
       /\ \A x \in AllVersions : OneStamp(u, x)
  BY <1>2 DEF ForcedInv, VersionsStamped
<1>11. \A a \in AllRows : Match(a, u)
  BY <1>2 DEF ForcedInv, RowsMatch
<1>12. v.del \in Earlier /\ v.del > v.upd /\ v.del # NULL
  <2> DEFINE h == lib[s][p.at]
  <2>1. h \in AllRows /\ h.upd \in Earlier
    BY <1>1, RowsThere
  <2>2. h.upd # w.upd
    BY <1>3, <1>11, <2>1 DEF Match
  <2>3. h.upd \in Nat /\ w.upd \in Nat
    BY <1>3, <1>10, <2>1 DEF Earlier
  <2>4. h.upd > w.upd /\ h.upd # NULL
    BY <2>2, <2>3 DEF NULL
  <2> QED BY <1>3, <2>1, <2>4
<1>13. \A a \in AllRows, x \in NV : Match(a, x)
  BY <1>3, <1>5, <1>11, <1>12 DEF Match
<1>14. \A x \in NV : x.sid \in Earlier' /\ x.upd \in Earlier' /\ x.del \in Earlier'
  BY <1>3, <1>5, <1>9, <1>10, <1>12
<1>15. v.upd \in Nat /\ v.del \in Nat /\ ~(v.del <= v.upd)
  BY <1>3, <1>10, <1>12 DEF Earlier
<1>16. \A x \in AllVersions : OneStamp(v, x)
  BY <1>3, <1>10, <1>12, <1>15 DEF OneStamp
<1>17. OneStamp(v, v)
  BY DEF OneStamp
<1>18. \A x \in NV, y \in AllVersions \cup NV : OneStamp(x, y)
  BY <1>5, <1>16, <1>17
<1>19. Restoring => \A x \in NV : \E y \in AllVersions : y.sid = x.sid
  BY <1>2, <1>3, <1>5
<1>20. /\ \A a \in none : a.upd \in Earlier' /\ Fact(a.sid, a.name) \in AllFacts
       /\ \A a \in none, b \in AllRows \cup none : a.upd = b.upd => a = b
       /\ \A a \in none, x \in AllVersions \cup NV : Match(a, x)
  BY <1>6
<1>21. clock' \in Nat /\ clock <= clock'
  BY <1>6, <1>8
<1> QED BY <1>6, <1>8, <1>13, <1>14, <1>18, <1>19, <1>20, <1>21, ForcingKept

LEMMA EnsuredForces ==
  ASSUME FixedLibraries, ForcedInv, IInv, NEW s \in Site, NEW w \in got[s],
         NEW i, NEW new \in Id, WriteSong(s, i, w, EnsureLibrary(lib[s], w, new, clock)),
         UNCHANGED libTodo, got' = [got EXCEPT ![s] = {}],
         i \in DOMAIN song[s] => song[s][i].sid = w.sid \/ ~Restoring
  PROVE  ForcedInv'
<1> DEFINE p == EnsureLibrary(lib[s], w, new, clock)
           h == CHOOSE k \in HomeOf(lib[s], w) : TRUE
<1>1. HomeOf(lib[s], w) = BySid(lib[s], w.libSid) /\ HomeOf(lib[s], w) # {}
  <2>1. Fact(w.libSid, w.libName) \in AllFacts /\ Fact(w.libSid, w.libName).sid = w.libSid
    BY HeldHere DEF Fact
  <2>2. BySid(lib[s], w.libSid) # {}
    BY <2>1 DEF ForcedInv, LibsFixed
  <2> QED BY <2>2 DEF HomeOf
<1>2. h \in DOMAIN lib[s] /\ lib[s][h].sid = w.libSid
  BY <1>1 DEF BySid
<1>3. p = IF w.del # NULL \/ lib[s][h].del = NULL
          THEN Placement(lib[s], h, NULL, FALSE)
          ELSE IF w.upd > lib[s][h].upd
          THEN Placement(Put(lib[s], h, [lib[s][h] EXCEPT !.del = NULL, !.upd = w.upd]),
                         h, NULL, FALSE)
          ELSE Placement(lib[s], h, lib[s][h].upd, FALSE)
  BY <1>1 DEF EnsureLibrary
<1>4. WriteSong(s, i, w, p)
  OBVIOUS
<1> HIDE DEF p, h
<1>5. CASE w.del # NULL \/ lib[s][h].del = NULL
  <2>1. p.libs = lib[s] /\ p.at = h /\ p.forced = NULL /\ ~p.minted
    BY <1>3, <1>5 DEF Placement
  <2>2. Placed(s, w, i, p)
    BY <1>2, <1>4, <2>1 DEF Placed
  <2> QED BY <2>1, <2>2, PlacedPlainly
<1>6. CASE w.del = NULL /\ lib[s][h].del # NULL /\ w.upd > lib[s][h].upd
  <2> DEFINE r == [lib[s][h] EXCEPT !.del = NULL, !.upd = w.upd]
  <2>1. p.libs = Put(lib[s], h, r) /\ p.at = h /\ p.forced = NULL /\ ~p.minted
    BY <1>3, <1>6 DEF Placement
  <2>2. lib[s][h] \in LibRow
    BY <1>2, RowsThere
  <2>3. r.sid = lib[s][h].sid
    BY <2>2 DEF LibRow
  <2>4. p.libs = Put(lib[s], p.at, [lib[s][p.at] EXCEPT !.del = NULL, !.upd = w.upd])
    BY <2>1
  <2> HIDE DEF r
  <2>5. DOMAIN p.libs = DOMAIN lib[s] /\ \A k \in DOMAIN lib[s] : p.libs[k].sid = lib[s][k].sid
    BY <1>2, <2>1, <2>3 DEF Put
  <2>6. Placed(s, w, i, p)
    BY <1>2, <1>4, <2>1, <2>5 DEF Placed
  <2> QED BY <1>6, <2>1, <2>4, <2>6, PlacedRevives
<1>7. CASE w.del = NULL /\ lib[s][h].del # NULL /\ ~(w.upd > lib[s][h].upd)
  <2>1. p.libs = lib[s] /\ p.at = h /\ p.forced = lib[s][h].upd /\ ~p.minted
    BY <1>3, <1>7 DEF Placement
  <2>2. Placed(s, w, i, p)
    BY <1>2, <1>4, <2>1 DEF Placed
  <2> QED BY <1>7, <2>1, <2>2, PlacedForced
<1> QED BY <1>5, <1>6, <1>7

LEMMA PlacedHereForces ==
  ASSUME FixedLibraries, ForcedInv, IInv, NEW s \in Site, NEW w \in got[s],
         NEW i, NEW h \in DOMAIN lib[s], lib[s][h].sid = w.libSid,
         WriteSong(s, i, w, Placement(lib[s], h, NULL, FALSE)),
         UNCHANGED libTodo, got' = [got EXCEPT ![s] = {}],
         i \in DOMAIN song[s] => song[s][i].sid = w.sid \/ ~Restoring
  PROVE  ForcedInv'
<1> DEFINE p == Placement(lib[s], h, NULL, FALSE)
<1>1. WriteSong(s, i, w, p)
  OBVIOUS
<1>2. p.libs = lib[s] /\ p.at = h /\ p.forced = NULL /\ ~p.minted
  BY DEF Placement
<1> HIDE DEF p
<1>3. Placed(s, w, i, p)
  BY <1>1, <1>2 DEF Placed
<1> QED BY <1>2, <1>3, PlacedPlainly

LEMMA ApplySongForces ==
  ASSUME FixedLibraries, ForcedInv, IInv, NEW s \in Site, ApplySong(s)
  PROVE  ForcedInv'
<1>0. clock \in Nat /\ clock <= clock
  BY DEF IInv, TypeOK
<1>1. PICK w \in got[s] :
        \/ \E i \in DOMAIN song[s] : UpdateSong(s, w, i)
        \/ \E i \in DOMAIN song[s] : AdoptSong(s, w, i)
        \/ \E i \in Id : ImportSong(s, w, i)
        \/ SkipSong(s, w)
        \/ RefuseSong(s, w)
  BY DEF ApplySong
<1>2. UNCHANGED libTodo /\ got' = [got EXCEPT ![s] = {}]
  BY DEF ApplySong
<1> DEFINE u == Version(w, w.libSid)
<1>a. u \in AllVersions /\ u.sid = w.sid /\ u.key = w.libSid
  BY RowsThere DEF Version
<1> HIDE DEF u
<1>3. ASSUME NEW i \in DOMAIN song[s], UpdateSong(s, w, i)
      PROVE  ForcedInv'
  <2>1. PICK new \in Id : IsNext(new, lib[s]) /\ WriteSong(s, i, w, PlaceKnown(s, w, i, new))
    BY <1>3 DEF UpdateSong
  <2>2. song[s][i].sid = w.sid
    BY <1>3 DEF UpdateSong, BySid
  <2>3. CASE w.del # NULL
    <3>1. PlaceKnown(s, w, i, new) = Placement(lib[s], song[s][i].lib, NULL, FALSE)
      BY <2>3 DEF PlaceKnown
    <3> DEFINE v == Version(song[s][i], lib[s][song[s][i].lib].sid)
    <3>2. song[s][i].lib \in DOMAIN lib[s] /\ v \in AllVersions
      BY RowsThere
    <3>3. v.sid = song[s][i].sid /\ v.key = lib[s][song[s][i].lib].sid
      BY DEF Version
    <3> HIDE DEF v
    <3>4. lib[s][song[s][i].lib].sid = w.libSid
      BY <1>a, <2>2, <3>2, <3>3 DEF ForcedInv, VersionsStamped, OneStamp
    <3> QED BY <1>2, <2>1, <2>2, <3>1, <3>2, <3>4, PlacedHereForces
  <2>4. CASE w.del = NULL
    <3>1. PlaceKnown(s, w, i, new) = EnsureLibrary(lib[s], w, new, clock)
      BY <2>4 DEF PlaceKnown
    <3>2. WriteSong(s, i, w, EnsureLibrary(lib[s], w, new, clock))
      BY <2>1, <3>1
    <3> QED BY <1>2, <2>2, <3>2, EnsuredForces
  <2> QED BY <2>3, <2>4
<1>4. ASSUME NEW i \in DOMAIN song[s], AdoptSong(s, w, i)
      PROVE  ForcedInv'
  <2>1. /\ WriteSong(s, i, w, Placement(lib[s], song[s][i].lib, NULL, FALSE))
        /\ song[s][i].lib \in DOMAIN lib[s] /\ BySid(song[s], w.sid) = {}
    BY <1>4, Rows DEF AdoptSong
  <2>2. song[s][i].lib \in FindLibrary(lib[s], w)
    BY <1>4 DEF AdoptSong, Adoptable, AdoptionCandidate
  <2>3. BySid(lib[s], w.libSid) # {}
    <3>1. Fact(w.libSid, w.libName) \in AllFacts /\ Fact(w.libSid, w.libName).sid = w.libSid
      BY HeldHere DEF Fact
    <3> QED BY <3>1 DEF ForcedInv, LibsFixed
  <2>4. lib[s][song[s][i].lib].sid = w.libSid
    BY <2>2, <2>3 DEF FindLibrary, BySid
  <2>5. ~Restoring
    BY <1>a, <2>1 DEF ForcedInv, SongsKept
  <2> QED BY <1>2, <2>1, <2>4, <2>5, PlacedHereForces
<1>5. ASSUME NEW i \in Id, ImportSong(s, w, i)
      PROVE  ForcedInv'
  <2>1. PICK new \in Id : /\ IsNext(new, lib[s])
                          /\ WriteSong(s, i, w, EnsureLibrary(lib[s], w, new, clock))
    BY <1>5 DEF ImportSong
  <2>2. i \notin DOMAIN song[s]
    BY <1>5, NextIsNew DEF ImportSong
  <2> QED BY <1>2, <2>1, <2>2, EnsuredForces
<1>6. CASE SkipSong(s, w) \/ RefuseSong(s, w)
  <2>1. UNCHANGED <<lib, song>> /\ clock' \in Nat /\ clock <= clock'
    BY <1>0, <1>6 DEF SkipSong, RefuseSong, db
  <2>2. got'[s] \subseteq got[s]
        /\ \A t \in Site \ {s} : libTodo'[t] = libTodo[t] /\ got'[t] = got[t]
    BY <1>2 DEF IInv, TypeOK
  <2>3. Quiet
    BY <1>2, <2>1, <2>2, CarriedHolds
  <2> QED BY <1>0, <2>3, QuietForces
<1> QED BY <1>1, <1>3, <1>4, <1>5, <1>6

LEMMA NextKeepsForces ==
  ASSUME FixedLibraries, ForcedInv, IInv, \A s \in Site : ~pruning[s], [Next]_vars
  PROVE  ForcedInv'
<1>0. clock \in Nat
  BY DEF IInv, TypeOK
<1>1. ASSUME NEW s \in Site, LocalStep(s)
      PROVE  ForcedInv'
  BY <1>1, LocalStepForces
<1>2. ASSUME NEW s \in Site, CycleStep(s)
      PROVE  ForcedInv'
  BY <1>0, <1>2, ApplyLibraryForces, ApplySongForces, CycleStepHolds, QuietForces
<1>3. ASSUME NEW s \in Site, FailureStep(s)
      PROVE  ForcedInv'
  BY <1>0, <1>3, FailureStepHolds, QuietForces
<1>4. CASE Elapse \/ UNCHANGED vars
  BY <1>0, <1>4, IdleHolds, QuietForces
<1> QED BY <1>1, <1>2, <1>3, <1>4 DEF Next

\* Where a cycle has nothing to pull, no library of the peer that is known here
\* is newer there.
LEMMA NoNewerKnownLibrary ==
  ASSUME IInv, NEW s \in Site, NEW t \in Site, t = Peer[s], NothingToPull(s),
         NEW e \in DOMAIN lib[t], NEW x \in DOMAIN lib[s], lib[s][x].sid = lib[t][e].sid
  PROVE  lib[t][e].upd <= lib[s][x].upd
<1> DEFINE w == lib[t][e]
<1>1. ~ShouldApply(w.upd, w.del, UpdOf(lib[s], Namesakes(s, w)), clock)
  BY DEF NothingToPull
<1>2. w.upd \in Nat /\ lib[s][x].upd \in Nat
  BY Rows DEF LibRow
<1>3. lib[s][x].sid = w.sid
  OBVIOUS
<1> HIDE DEF w
<1>4. x \in Namesakes(s, w)
  BY <1>3 DEF Namesakes, BySid
<1>5. \A y \in Namesakes(s, w) : y = x
  BY <1>3, <1>4 DEF Namesakes, BySid, IInv, DbOK, SidsUnique
<1>6. PICK h \in UpdOf(lib[s], Namesakes(s, w)) : ~(w.upd > h)
  BY <1>1, <1>4 DEF ShouldApply, UpdOf
<1>7. h = lib[s][x].upd
  BY <1>5, <1>6 DEF UpdOf
<1> QED BY <1>2, <1>6, <1>7 DEF w

\* The versions of two rows.
LEMMA StampsHere ==
  ASSUME FixedLibraries, ForcedInv, IInv, NEW s \in Site, NEW t \in Site,
         NEW i \in DOMAIN song[s], NEW k \in DOMAIN song[t],
         song[s][i].upd = song[t][k].upd, song[s][i].del = NULL
  PROVE  /\ lib[s][song[s][i].lib].sid = lib[t][song[t][k].lib].sid
         /\ song[s][i].sid = song[t][k].sid =>
              /\ song[s][i].name = song[t][k].name
              /\ song[t][k].del = NULL \/ song[t][k].del > song[t][k].upd
         /\ song[t][k].del = NULL => Restoring \/ song[s][i].sid = song[t][k].sid
<1> DEFINE u == Version(song[s][i], lib[s][song[s][i].lib].sid)
           v == Version(song[t][k], lib[t][song[t][k].lib].sid)
<1>1. u \in AllVersions /\ v \in AllVersions
  BY RowsThere
<1>2. /\ u.sid = song[s][i].sid /\ u.upd = song[s][i].upd /\ u.name = song[s][i].name
      /\ u.del = song[s][i].del /\ u.key = lib[s][song[s][i].lib].sid
      /\ v.sid = song[t][k].sid /\ v.upd = song[t][k].upd /\ v.name = song[t][k].name
      /\ v.del = song[t][k].del /\ v.key = lib[t][song[t][k].lib].sid
  BY DEF Version
<1> HIDE DEF u, v
<1>3. OneStamp(u, v) /\ OneStamp(v, u)
  BY <1>1 DEF ForcedInv, VersionsStamped
<1>4. u.upd \in Nat /\ v.upd \in Nat /\ v.del \in Nat /\ u.del = 0 /\ u.upd = v.upd
  BY <1>2, RowsThere DEF NULL
<1>5. u.sid = v.sid => u.name = v.name /\ (v.del = NULL \/ v.del > v.upd)
  BY <1>3, <1>4 DEF OneStamp, NULL
<1>6. u.key = v.key /\ (v.del = NULL => Restoring \/ u.sid = v.sid)
  BY <1>3, <1>4 DEF OneStamp, NULL
<1> QED BY <1>2, <1>5, <1>6

\* With nothing left to pull on either side, a song that one site shows is
\* known to the other.
LEMMA ShownIsKnown ==
  ASSUME TwoSites, FixedLibraries, ForcedInv, IInv, NEW s \in Site, NEW p \in Site,
         p = Peer[s], NothingToPull(s), NothingToPull(p),
         NEW i \in Live(song[s]), song[s][i].lib \in Live(lib[s])
  PROVE  BySid(song[p], song[s][i].sid) # {}
<1> SUFFICES ASSUME BySid(song[p], song[s][i].sid) = {}
             PROVE  FALSE
  OBVIOUS
<1> DEFINE w == Wire(lib[s], song[s], i)
           ids == {song[s][j].sid : j \in DOMAIN song[s]}
           l == song[s][i].lib
<1>0. Peer[p] = s /\ i \in DOMAIN song[s] /\ song[s][i].del = NULL
  BY PairUp DEF Live
<1>a. ~Restoring
  <2>1. Version(song[s][i], lib[s][l].sid) \in AllVersions
        /\ Version(song[s][i], lib[s][l].sid).sid = song[s][i].sid
    BY <1>0, RowsThere DEF Version
  <2> QED BY <2>1 DEF ForcedInv, SongsKept
<1>1. w.sid = song[s][i].sid /\ w.upd = song[s][i].upd /\ w.del = NULL
      /\ w.name = song[s][i].name /\ w.libSid = lib[s][l].sid
  BY <1>0 DEF Wire
<1>2. PICK k \in Adoptable(lib[p], song[p], w, ids) : w.upd <= song[p][k].upd
  <2>1. BySid(song[p], w.sid) = {} /\ w.del = NULL =>
          \E k \in Adoptable(lib[p], song[p], w, ids) : w.upd <= song[p][k].upd
    BY <1>0, NoNewerSong
  <2>2. BySid(song[p], w.sid) = {} /\ w.del = NULL
    BY <1>1
  <2> HIDE DEF w, ids
  <2> QED BY <2>1, <2>2
<1>3. /\ k \in LiveNamed(song[p], w.name) /\ song[p][k].sid \notin ids
      /\ song[p][k].lib \in FindLibrary(lib[p], w)
  BY <1>1, <1>2 DEF Adoptable, AdoptionCandidate
<1>4. k \in DOMAIN song[p] /\ song[p][k].del = NULL /\ song[p][k].name = song[s][i].name
  BY <1>1, <1>3 DEF LiveNamed, Live
<1> DEFINE v == Wire(lib[p], song[p], k)
           jds == {song[p][j].sid : j \in DOMAIN song[p]}
           m == song[p][k].lib
<1>5. v.sid = song[p][k].sid /\ v.upd = song[p][k].upd /\ v.del = NULL
      /\ v.name = song[p][k].name /\ v.libSid = lib[p][m].sid
  BY <1>4 DEF Wire
<1>6. BySid(song[s], v.sid) = {}
  BY <1>3, <1>5 DEF BySid
<1>7. PICK j \in Adoptable(lib[s], song[s], v, jds) : v.upd <= song[s][j].upd
  <2>1. BySid(song[s], v.sid) = {} /\ v.del = NULL =>
          \E j \in Adoptable(lib[s], song[s], v, jds) : v.upd <= song[s][j].upd
    BY <1>4, NoNewerSong
  <2>2. BySid(song[s], v.sid) = {} /\ v.del = NULL
    BY <1>5, <1>6
  <2> HIDE DEF v, jds
  <2> QED BY <2>1, <2>2
<1>8. lib[p][m].sid = lib[s][l].sid
  <2>1. BySid(lib[p], lib[s][l].sid) # {}
    <3>1. l \in DOMAIN lib[s] /\ Fact(lib[s][l].sid, lib[s][l].name) \in AllFacts
      BY <1>0, RowsThere
    <3>2. Fact(lib[s][l].sid, lib[s][l].name).sid = lib[s][l].sid
      BY DEF Fact
    <3> QED BY <3>1, <3>2 DEF ForcedInv, LibsFixed
  <2>2. m \in FindLibrary(lib[p], w)
    BY <1>3
  <2> HIDE DEF m, w, l
  <2> QED BY <1>1, <2>1, <2>2 DEF FindLibrary, BySid
<1>9. l \in FindLibrary(lib[s], v)
  <2>1. l \in DOMAIN lib[s] /\ l \in Live(lib[s])
    BY DEF Live
  <2> HIDE DEF m, v, l
  <2> QED BY <1>5, <1>8, <2>1 DEF FindLibrary, BySid
<1> HIDE DEF v, jds
<1>10. j = i
  <2> DEFINE named == {x \in LiveNamed(song[s], v.name) :
                         song[s][x].lib \in FindLibrary(lib[s], v)}
  <2>1. named = {j}
    BY <1>5, <1>7 DEF Adoptable, AdoptionCandidate
  <2>2. i \in named
    BY <1>0, <1>4, <1>5, <1>9 DEF LiveNamed, Live
  <2> QED BY <2>1, <2>2
<1>11. song[s][i].upd = song[p][k].upd
  <2>1. song[s][i].upd \in Nat /\ song[p][k].upd \in Nat
    BY <1>0, <1>4, Rows DEF SongRow
  <2> QED BY <1>1, <1>2, <1>5, <1>7, <1>10, <2>1
<1>12. song[p][k].sid = song[s][i].sid
  BY <1>0, <1>4, <1>11, <1>a, StampsHere
<1> QED BY <1>4, <1>12 DEF BySid

LEMMA SettledForces ==
  ASSUME TwoSites, FixedLibraries, ForcedInv, VInv
  PROVE  DisagreementIsForced
<1> SUFFICES ASSUME Settled, NEW s \in Site, NEW i \in Live(song[s]),
                    song[s][i].lib \in Live(lib[s])
             PROVE  \E k \in DOMAIN song[Peer[s]] :
                      /\ SameVersion(song[s][i], song[Peer[s]][k])
                      /\ SameContent(song[s][i], song[Peer[s]][k])
                      /\ \/ song[Peer[s]][k].del > song[Peer[s]][k].upd
                         \/ /\ k \in Live(song[Peer[s]])
                            /\ song[Peer[s]][k].lib \in Live(lib[Peer[s]])
  BY DEF DisagreementIsForced
<1> DEFINE p == Peer[s]
           l == song[s][i].lib
<1>1. p \in Site /\ Peer[p] = s /\ NothingToPull(s) /\ IInv /\ VersionInv
  BY PairUp DEF Settled, VInv
<1>2. NothingToPull(p) /\ i \in DOMAIN song[s] /\ song[s][i].del = NULL
      /\ l \in DOMAIN lib[s] /\ lib[s][l].del = NULL
  BY <1>1 DEF Settled, Live
<1>3. BySid(song[p], song[s][i].sid) # {}
  BY <1>1, <1>2, ShownIsKnown
<1>4. PICK k \in DOMAIN song[p] : song[p][k].sid = song[s][i].sid
  BY <1>3 DEF BySid
<1>5. song[s][i].upd \in Nat /\ song[p][k].upd \in Nat
  BY <1>1, <1>2, Rows DEF SongRow
<1>6. song[s][i].upd <= song[p][k].upd
  <2> DEFINE w == Wire(lib[s], song[s], i)
  <2>1. w.sid = song[s][i].sid /\ w.upd = song[s][i].upd
    BY DEF Wire
  <2>2. \A j \in BySid(song[p], w.sid) : w.upd <= song[p][j].upd
    BY <1>1, <1>2, NoNewerSong
  <2> HIDE DEF w
  <2> QED BY <1>4, <2>1, <2>2 DEF BySid
<1>7. song[p][k].upd <= song[s][i].upd
  <2> DEFINE w == Wire(lib[p], song[p], k)
  <2>1. w.sid = song[p][k].sid /\ w.upd = song[p][k].upd
    BY DEF Wire
  <2>2. \A j \in BySid(song[s], w.sid) : w.upd <= song[s][j].upd
    BY <1>1, <1>2, NoNewerSong
  <2> HIDE DEF w
  <2> QED BY <1>2, <1>4, <2>1, <2>2 DEF BySid
<1>8. song[s][i].upd = song[p][k].upd
  BY <1>5, <1>6, <1>7
<1>9. SameVersion(song[s][i], song[p][k]) /\ SameContent(song[s][i], song[p][k])
  <2>1. SameVersion(song[s][i], song[p][k])
    BY <1>4, <1>8 DEF SameVersion
  <2> QED BY <1>1, <1>2, <2>1 DEF VersionInv, CopiesAgree
<1>10. /\ lib[s][l].sid = lib[p][song[p][k].lib].sid
       /\ song[p][k].del = NULL \/ song[p][k].del > song[p][k].upd
  BY <1>1, <1>2, <1>4, <1>8, StampsHere
<1>11. CASE song[p][k].del = NULL
  <2> DEFINE m == song[p][k].lib
  <2>1. m \in DOMAIN lib[p] /\ lib[p][m] \in AllRows /\ lib[s][l] \in AllRows
        /\ lib[p][m].upd \in Nat /\ lib[s][l].upd \in Nat
    BY <1>1, <1>2, RowsThere DEF Earlier
  <2>2. lib[p][m].upd <= lib[s][l].upd /\ lib[s][l].upd <= lib[p][m].upd
    BY <1>1, <1>2, <1>10, <2>1, NoNewerKnownLibrary
  <2>3. lib[s][l].upd = lib[p][m].upd
    BY <2>1, <2>2
  <2>4. lib[p][m].del = NULL
    BY <1>2, <2>1, <2>3 DEF ForcedInv, RowsStamped
  <2>5. k \in Live(song[p]) /\ m \in Live(lib[p])
    BY <1>11, <2>1, <2>4 DEF Live
  <2> QED BY <1>9, <2>5
<1>12. CASE song[p][k].del > song[p][k].upd
  BY <1>9, <1>12
<1> QED BY <1>10, <1>11, <1>12

\* The shared start, its songs stamped and trashed before now and none of them
\* with the clock of a library it is not filed under.
TrashStart ==
  /\ SharedStart
  /\ \A s \in Site : \A i \in DOMAIN song[s] :
       /\ song[s][i].del < clock
       /\ \A l \in DOMAIN lib[s] : lib[s][l].upd = song[s][i].upd => song[s][i].lib = l

LEMMA SharedForcing ==
  ASSUME FixedLibraries, TrashStart
  PROVE  ForcedInv
<1>0. SharedStart /\ IInv /\ clock \in Nat
  BY DEF TrashStart, SharedStart, IInv, TypeOK
<1>1. \A n : n \in Earlier <=> n \in Nat /\ n < clock
  BY <1>0 DEF Earlier
<1>2. \A s \in Site : /\ LibRows(s) = {lib[s][i] : i \in DOMAIN lib[s]}
                      /\ LibFacts(s) = {Fact(a.sid, a.name) : a \in LibRows(s)}
                      /\ Versions(s) = {Version(song[s][i], SongKey(s, i)) :
                                          i \in DOMAIN song[s]}
  BY <1>0 DEF LibRows, LibFacts, Versions, SharedStart
<1>3. \A s, t \in Site : lib[t] = lib[s] /\ song[t] = song[s]
  BY <1>0 DEF SharedStart
<1>4. \A a \in AllRows : \A t \in Site : \E k \in DOMAIN lib[t] : a = lib[t][k]
  BY <1>2, <1>3 DEF AllRows
<1>5. \A f \in AllFacts : \E a \in AllRows : f = Fact(a.sid, a.name)
  BY <1>2 DEF AllFacts, AllRows
<1>6. \A v \in AllVersions : \A t \in Site : \E k \in DOMAIN song[t] :
        v = Version(song[t][k], lib[t][song[t][k].lib].sid)
  <2> SUFFICES ASSUME NEW v \in AllVersions, NEW t \in Site
               PROVE  \E k \in DOMAIN song[t] :
                        v = Version(song[t][k], lib[t][song[t][k].lib].sid)
    OBVIOUS
  <2>1. PICK s \in Site : v \in Versions(s)
    BY DEF AllVersions
  <2>2. PICK k \in DOMAIN song[s] : v = Version(song[s][k], SongKey(s, k))
    BY <1>2, <2>1
  <2>3. v = Version(song[s][k], lib[s][song[s][k].lib].sid)
    BY <2>2, KeyIsSid
  <2> QED BY <1>3, <2>3
<1>7. \A t \in Site : \A k, m \in DOMAIN lib[t] :
        /\ lib[t][k].del = NULL
        /\ lib[t][k].sid \in Earlier /\ lib[t][k].upd \in Earlier
        /\ lib[t][k].sid = lib[t][m].sid => k = m
        /\ lib[t][k].name = lib[t][m].name => k = m
        /\ lib[t][k].upd = lib[t][m].upd => k = m
  <2> SUFFICES ASSUME NEW t \in Site, NEW k \in DOMAIN lib[t], NEW m \in DOMAIN lib[t]
               PROVE  /\ lib[t][k].del = NULL
                      /\ lib[t][k].sid \in Earlier /\ lib[t][k].upd \in Earlier
                      /\ lib[t][k].sid = lib[t][m].sid => k = m
                      /\ lib[t][k].name = lib[t][m].name => k = m
                      /\ lib[t][k].upd = lib[t][m].upd => k = m
    OBVIOUS
  <2>1. lib[t][k].del = NULL /\ lib[t][m].del = NULL
    BY <1>0 DEF SharedStart, Dead
  <2>2. lib[t][k].sid \in Earlier /\ lib[t][k].upd \in Earlier
    BY <1>0, <1>1, Rows DEF LibRow
  <2>3. lib[t][k].sid = lib[t][m].sid => k = m
    BY <1>0 DEF IInv, DbOK, SidsUnique
  <2>4. lib[t][k].upd = lib[t][m].upd => k = m
    BY <1>0 DEF SharedStart
  <2>5. lib[t][k].name = lib[t][m].name => k = m
    BY <1>0, <2>1 DEF SharedStart, LiveNamesUnique, Live
  <2> QED BY <2>1, <2>2, <2>3, <2>4, <2>5
<1>8. \A t \in Site : \A k, m \in DOMAIN song[t] :
        /\ song[t][k].sid \in Earlier /\ song[t][k].upd \in Earlier
        /\ song[t][k].del \in Earlier /\ song[t][k].lib \in DOMAIN lib[t]
        /\ song[t][k].sid = song[t][m].sid => k = m
        /\ song[t][k].upd = song[t][m].upd => k = m
  <2> SUFFICES ASSUME NEW t \in Site, NEW k \in DOMAIN song[t], NEW m \in DOMAIN song[t]
               PROVE  /\ song[t][k].sid \in Earlier /\ song[t][k].upd \in Earlier
                      /\ song[t][k].del \in Earlier /\ song[t][k].lib \in DOMAIN lib[t]
                      /\ song[t][k].sid = song[t][m].sid => k = m
                      /\ song[t][k].upd = song[t][m].upd => k = m
    OBVIOUS
  <2>1. song[t][k].del < clock
    BY DEF TrashStart
  <2>2. /\ song[t][k].sid \in Earlier /\ song[t][k].upd \in Earlier
        /\ song[t][k].del \in Earlier /\ song[t][k].lib \in DOMAIN lib[t]
    BY <1>0, <1>1, <2>1, Rows DEF SongRow
  <2>3. song[t][k].sid = song[t][m].sid => k = m
    BY <1>0 DEF IInv, DbOK, SidsUnique
  <2>4. song[t][k].upd = song[t][m].upd => k = m
    BY <1>0 DEF SharedStart
  <2> QED BY <2>2, <2>3, <2>4
<1>9. LibsFixed
  <2>0. \A f \in AllFacts : \A t \in Site : \E k \in DOMAIN lib[t] :
          f.sid = lib[t][k].sid /\ f.name = lib[t][k].name
    BY <1>4, <1>5 DEF Fact
  <2>1. \A f, g \in AllFacts : f.sid = g.sid <=> f.name = g.name
    <3> SUFFICES ASSUME NEW f \in AllFacts, NEW g \in AllFacts
                 PROVE  f.sid = g.sid <=> f.name = g.name
      OBVIOUS
    <3>1. PICK t \in Site : TRUE
      BY DEF AllFacts
    <3>2. PICK k \in DOMAIN lib[t] : f.sid = lib[t][k].sid /\ f.name = lib[t][k].name
      BY <2>0
    <3>3. PICK m \in DOMAIN lib[t] : g.sid = lib[t][m].sid /\ g.name = lib[t][m].name
      BY <2>0
    <3>4. /\ lib[t][k].sid = lib[t][m].sid => k = m
          /\ lib[t][k].name = lib[t][m].name => k = m
      BY <1>7
    <3> QED BY <3>2, <3>3, <3>4
  <2>2. \A f \in AllFacts, t \in Site : BySid(lib[t], f.sid) # {}
    BY <2>0 DEF BySid
  <2> QED BY <2>1, <2>2 DEF LibsFixed
<1>10. RowsStamped
  <2> SUFFICES ASSUME NEW a \in AllRows, NEW b \in AllRows
               PROVE  a.upd \in Earlier /\ (a.upd = b.upd => a = b)
    BY DEF RowsStamped
  <2>1. PICK t \in Site : TRUE
    BY DEF AllRows
  <2>2. PICK k \in DOMAIN lib[t] : a = lib[t][k]
    BY <1>4
  <2>3. PICK m \in DOMAIN lib[t] : b = lib[t][m]
    BY <1>4
  <2> QED BY <1>7, <2>2, <2>3
<1>11. RowsMatch
  <2> SUFFICES ASSUME NEW a \in AllRows, NEW v \in AllVersions, a.upd = v.upd
               PROVE  a.sid = v.key /\ a.del = NULL
    BY DEF RowsMatch, Match
  <2>1. PICK t \in Site : TRUE
    BY DEF AllRows
  <2>2. PICK l \in DOMAIN lib[t] : a = lib[t][l]
    BY <1>4
  <2>3. PICK i \in DOMAIN song[t] : v = Version(song[t][i], lib[t][song[t][i].lib].sid)
    BY <1>6
  <2>4. v.upd = song[t][i].upd /\ v.key = lib[t][song[t][i].lib].sid
    BY <2>3 DEF Version
  <2>5. lib[t][l].upd = song[t][i].upd => song[t][i].lib = l
    BY DEF TrashStart
  <2>6. a.del = NULL
    BY <1>7, <2>2
  <2> QED BY <2>2, <2>4, <2>5, <2>6
<1>12. VersionsStamped
  <2> SUFFICES ASSUME NEW u \in AllVersions, NEW v \in AllVersions
               PROVE  /\ u.sid \in Earlier /\ u.upd \in Earlier /\ u.del \in Earlier
                      /\ OneStamp(u, v)
    BY DEF VersionsStamped
  <2>1. PICK t \in Site : TRUE
    BY DEF AllVersions
  <2>2. PICK i \in DOMAIN song[t] : u = Version(song[t][i], lib[t][song[t][i].lib].sid)
    BY <1>6
  <2>3. PICK k \in DOMAIN song[t] : v = Version(song[t][k], lib[t][song[t][k].lib].sid)
    BY <1>6
  <2>4. /\ u.sid = song[t][i].sid /\ u.upd = song[t][i].upd /\ u.del = song[t][i].del
        /\ v.sid = song[t][k].sid /\ v.upd = song[t][k].upd
    BY <2>2, <2>3 DEF Version
  <2>5. u.sid \in Earlier /\ u.upd \in Earlier /\ u.del \in Earlier
    BY <1>8, <2>4
  <2>6. u.sid = v.sid \/ u.upd = v.upd => i = k
    BY <1>8, <2>4
  <2>7. i = k => u = v
    BY <2>2, <2>3
  <2>8. OneStamp(u, v)
    BY <2>6, <2>7 DEF OneStamp
  <2> QED BY <2>5, <2>8
<1>13. SongsKept
  <2> SUFFICES ASSUME NEW v \in AllVersions, NEW t \in Site
               PROVE  BySid(song[t], v.sid) # {}
    BY DEF SongsKept
  <2>1. PICK i \in DOMAIN song[t] : v = Version(song[t][i], lib[t][song[t][i].lib].sid)
    BY <1>6
  <2>2. v.sid = song[t][i].sid
    BY <2>1 DEF Version
  <2> QED BY <2>2 DEF BySid
<1> QED BY <1>9, <1>10, <1>11, <1>12, <1>13 DEF ForcedInv

\* Where two instances begin with one shared database and their libraries are
\* trashed, with the songs in them, and brought back, a song that only one of
\* them shows once they have settled is one the other was made to trash with its
\* library after its last change (force_tombstone leaves the clock alone): they
\* hold one version of it with one content and differ in nothing else.  Libraries
\* keep their names meanwhile; songs are edited, trashed and restored, and created
\* and copied as well where no library is brought back.
THEOREM TrashDisagreementIsForced ==
  ASSUME TwoSites, FixedLibraries
  PROVE  TrashStart /\ [][Next]_vars => []DisagreementIsForced
<1>1. VInv /\ ForcedInv => DisagreementIsForced
  BY SettledForces
<1>2. TrashStart => VInv /\ ForcedInv
  BY SharedVersions, SharedForcing DEF TrashStart, VInv, SharedStart
<1>3. VInv /\ ForcedInv /\ [Next]_vars => (VInv /\ ForcedInv)'
  <2> SUFFICES ASSUME VInv, ForcedInv, [Next]_vars
               PROVE  VInv' /\ ForcedInv'
    OBVIOUS
  <2>1. IInv /\ VersionInv /\ "prune" \notin Ops
    BY DEF VInv, FixedLibraries
  <2>2. IInv' /\ VersionInv'
    BY <2>1, StepIInv, NextKeepsVersions
  <2>3. \A s \in Site : ~pruning[s]
    BY <2>1 DEF VersionInv
  <2>4. ForcedInv'
    BY <2>1, <2>3, NextKeepsForces
  <2> QED BY <2>2, <2>4 DEF VInv
<1> QED BY <1>1, <1>2, <1>3, PTL

=============================================================================
