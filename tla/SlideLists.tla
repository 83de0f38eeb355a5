----------------------------- MODULE SlideLists -----------------------------
(***************************************************************************)
(* The edits of a song as functions of its list of slides, from            *)
(* presenter-server/src/state/slides/edit_ops.rs, and what becomes of the  *)
(* stage-layout markers of a list which the other site's list replaces,    *)
(* from presenter-persistence/src/repository/sync_apply.rs.                *)
(*                                                                         *)
(* A slide is its identity and its content; `order' is its place.          *)
(***************************************************************************)
EXTENDS Naturals, Sequences, FiniteSets, SequencesExt, TLC

CONSTANTS Text,    \* what a slide can say
          Blank,   \* the content of an empty slide
          NULL,    \* no slide: as the anchor of a paste, the end of the song
          Position \* where clients insert slides, the end of the song or beyond

ASSUME BlankAssumption == Blank \in Text
ASSUME PositionAssumption == Position \subseteq Nat

Slide(i, x) == [id |-> i, text |-> x]
Ids(list) == {list[k].id : k \in DOMAIN list}
Place(list, i) == CHOOSE k \in DOMAIN list : list[k].id = i

\* `list' with a block put before place k.
Inserted(list, k, block) ==
  SubSeq(list, 1, k - 1) \o block \o SubSeq(list, k, Len(list))

\* The slides `ids' of the list, cloned in its order as n + 1, n + 2...
Clones(list, ids, n) ==
  LET named == SelectSeq(list, LAMBDA x : x.id \in ids)
  IN  [k \in 1..Len(named) |-> Slide(n + k, named[k].text)]

-----------------------------------------------------------------------------
\* The edits: whether one can be made of a list, and the list it makes. New
\* slides are numbered from n + 1.

Allowed(list, r) ==
  /\ r.op = "paste" => /\ r.ids # {} /\ r.ids \subseteq Ids(list)
                       /\ r.anchor \in Ids(list) \union {NULL}
  /\ r.op = "reorder" => Len(r.order) = Len(list) /\ ToSet(r.order) = Ids(list)
  /\ r.op \in {"update", "duplicate", "delete"} => r.id \in Ids(list)

Pasted(list, r, n) ==
  Inserted(list, IF r.anchor = NULL THEN Len(list) + 1 ELSE Place(list, r.anchor),
           Clones(list, r.ids, n))
Updated(list, r) == [list EXCEPT ![Place(list, r.id)].text = r.text]
Extended(list, r, n) ==
  Inserted(list, (IF r.at < Len(list) THEN r.at ELSE Len(list)) + 1,
           <<Slide(n + 1, Blank)>>)
Duplicated(list, r, n) ==
  Inserted(list, Place(list, r.id) + 1, Clones(list, {r.id}, n))
\* The last slide of a song is not taken away, but emptied.
Shortened(list, r, n) == IF Len(list) = 1 THEN <<Slide(n + 1, Blank)>>
                         ELSE RemoveAt(list, Place(list, r.id))
Reordered(list, r) == [k \in DOMAIN r.order |-> list[Place(list, r.order[k])]]

Result(list, r, n) ==
  IF r.op = "paste" THEN Pasted(list, r, n)
  ELSE IF r.op = "update" THEN Updated(list, r)
  ELSE IF r.op = "insert" THEN Extended(list, r, n)
  ELSE IF r.op = "duplicate" THEN Duplicated(list, r, n)
  ELSE IF r.op = "delete" THEN Shortened(list, r, n)
  ELSE Reordered(list, r)

\* The slides an edit copies.
Copied(r) == CASE r.op = "paste" -> r.ids
               [] r.op = "duplicate" -> {r.id}
               [] OTHER -> {}

\* How many identities the edit takes: those of the copies, or that of an empty
\* slide.
Taken(list, r) ==
  Len(Clones(list, Copied(r), 0))
    + IF r.op = "insert" \/ (r.op = "delete" /\ Len(list) = 1) THEN 1 ELSE 0

Orders(S) == {q \in [1..Cardinality(S) -> S] : ToSet(q) = S}

\* What a client that shows `list' can ask for.
Requests(list) ==
  LET ids == Ids(list) IN
    UNION {[op : {"paste"}, ids : SUBSET ids, anchor : ids \union {NULL}],
           [op : {"update"}, id : ids, text : Text],
           [op : {"insert"}, at : Position],
           [op : {"duplicate", "delete"}, id : ids],
           [op : {"reorder"}, order : Orders(ids)]}

-----------------------------------------------------------------------------
\* A song's list `old' is replaced by `new': the place of `new' that takes
\* over the marker at each of the places M of `old', where there is one.

\* The content of place i is no other slide's.
Distinct(old, i) == \A j \in DOMAIN old : old[j].text = old[i].text => j = i

SameText(old, i, new) == {k \in DOMAIN new : new[k].text = old[i].text}

\* The first slide with the marked slide's content, if that tells which one it
\* was ...
ByText(old, M, new) ==
  [i \in {i \in M : Distinct(old, i) /\ SameText(old, i, new) # {}} |->
     Min(SameText(old, i, new))]

\* Faulty: places are handed out before contents are looked for.
RemappedByPlace(old, M, new) ==
  LET kept == {i \in M : i \in DOMAIN new}
      left == {i \in M \ kept : SameText(old, i, new) # {}}
  IN  [i \in kept \union left |-> IF i \in kept THEN i ELSE Min(SameText(old, i, new))]

\* ... and otherwise the slide in the same place, unless it was taken so.
Remapped(old, M, new) ==
  LET found == ByText(old, M, new)
      left == {i \in M \ DOMAIN found : i \in DOMAIN new /\ i \notin Range(found)}
  IN  [i \in DOMAIN found \union left |-> IF i \in left THEN i ELSE found[i]]
=============================================================================
