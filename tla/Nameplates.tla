----------------------------- MODULE Nameplates -----------------------------
(***************************************************************************)
(* The lower third of one stream output (state/stream_nameplates.rs): the  *)
(* plate on air, kept in memory, what the pages were told last, and the    *)
(* tasks that hide a plate after its time.  Every step takes the lock of   *)
(* the slots anew, so shows, hides, toggles, timers and the deletion of    *)
(* the output interleave between any two steps.  Texts are left out: a     *)
(* plate is what is shown, a show is one request for it.                   *)
(***************************************************************************)
EXTENDS Naturals

CONSTANTS Plate,        \* the persons, and the song
          NoPlate,      \* no plate
          Operator,     \* requests under way at once
          MaxShows      \* bound: shows, hides and deletions

VARIABLES slot,         \* NameplateSlot: active and next_seq
          pages,        \* the show the output pages were told of last
          op,           \* the requests under way
          timers,       \* the tasks of auto-hides
          shows,        \* ghost: shows, hides and deletions so far, their names
          deleted,      \* ghost: the shows made before the output was deleted
          crossed       \* ghost: two changes overlapped since the last that did not

vars == <<slot, pages, op, timers, shows, deleted, crossed>>

Resting == [pc |-> "idle"]
Dark == [plate |-> NoPlate, seq |-> 0, show |-> 0]
NoSlot == [active |-> Dark, next |-> 0]

Init == /\ slot = NoSlot
        /\ pages = Dark
        /\ op = [o \in Operator |-> Resting]
        /\ timers = {}
        /\ shows = 0 /\ deleted = {} /\ crossed = FALSE

\* Changes that were made and whose event is still to be published.
Untold == {o \in Operator : op[o].pc = "publish"}
            \union {t \in timers : t.pc = "publish"}

Goto(o, pc) == op' = [op EXCEPT ![o].pc = pc]
Finish(o) == op' = [op EXCEPT ![o] = Resting]

Begin(o, what) ==
  /\ shows < MaxShows /\ shows' = shows + 1
  /\ op[o] = Resting
  /\ op' = [op EXCEPT ![o] = what]

-----------------------------------------------------------------------------
\* stream_nameplate_show_person, stream_nameplate_show_song
Show(o, p) ==
  /\ Begin(o, [pc |-> "allocate", plate |-> p, show |-> shows + 1, seq |-> 0])
  /\ UNCHANGED <<slot, pages, timers, deleted, crossed>>

Hide(o) ==
  /\ Begin(o, [pc |-> "allocate", plate |-> NoPlate, show |-> shows + 1, seq |-> 0])
  /\ UNCHANGED <<slot, pages, timers, deleted, crossed>>

\* The plate on air is looked at before, and apart from, what follows from it.
Toggle(o, p) ==
  /\ Begin(o, [pc |-> "allocate", show |-> shows + 1, seq |-> 0,
               plate |-> IF slot.active.plate = p THEN NoPlate ELSE p])
  /\ UNCHANGED <<slot, pages, timers, deleted, crossed>>

SameSeq == UNCHANGED slot
NextSeq == slot' = [slot EXCEPT !.next = @ + 1]

\* allocate_seq
Allocate(o) ==
  /\ op[o].pc = "allocate"
  /\ NextSeq
  /\ op' = [op EXCEPT ![o] = [@ EXCEPT !.seq = slot.next, !.pc = "set"]]
  /\ UNCHANGED <<pages, timers, shows, deleted, crossed>>

\* set_active
Set(o) ==
  /\ op[o].pc = "set"
  /\ slot' = [slot EXCEPT !.active =
                IF op[o].plate = NoPlate THEN Dark
                ELSE [plate |-> op[o].plate, seq |-> op[o].seq, show |-> op[o].show]]
  /\ crossed' = (Untold # {})
  /\ Goto(o, "publish")
  /\ UNCHANGED <<pages, timers, shows, deleted>>

\* publish_nameplate: what this request did, not what is on air by now.
Publish(o) ==
  /\ op[o].pc = "publish"
  /\ pages' = IF op[o].plate = NoPlate THEN Dark
              ELSE [plate |-> op[o].plate, seq |-> op[o].seq, show |-> op[o].show]
  /\ IF op[o].plate = NoPlate THEN Finish(o) ELSE Goto(o, "schedule")
  /\ UNCHANGED <<slot, timers, shows, deleted, crossed>>

\* schedule_auto_hide: no task when the definition has no auto_hide_s, or fails.
Schedule(o) ==
  /\ op[o].pc = "schedule"
  /\ timers' \in {timers, timers \union
                   {[seq |-> op[o].seq, show |-> op[o].show, pc |-> "sleep"]}}
  /\ Finish(o)
  /\ UNCHANGED <<slot, pages, shows, deleted, crossed>>

\* stream_nameplate_evict: the numbers start over with the slot.
Evict(o) ==
  /\ Begin(o, [pc |-> "evict", plate |-> NoPlate, dark |-> slot.active = Dark])
  /\ UNCHANGED <<slot, pages, timers, deleted, crossed>>

Remove(o) ==
  /\ op[o].pc = "evict"
  /\ slot' = NoSlot
  /\ deleted' = 1..shows
  /\ crossed' = IF op[o].dark THEN crossed \/ slot.active # Dark ELSE Untold # {}
  /\ IF op[o].dark THEN Finish(o) ELSE Goto(o, "publish")
  /\ UNCHANGED <<pages, timers, shows>>

-----------------------------------------------------------------------------
(* auto_hide_if_current *)

Advance(t, pc) == timers' = (timers \ {t}) \union {[t EXCEPT !.pc = pc]}

Wake(t) ==
  /\ t.pc = "sleep"
  /\ IF slot.active.plate # NoPlate /\ slot.active.seq = t.seq
       THEN Advance(t, "clear")
       ELSE timers' = timers \ {t}
  /\ UNCHANGED <<slot, pages, op, shows, deleted, crossed>>

Clear(t) ==
  /\ t.pc = "clear"
  /\ slot' = [slot EXCEPT !.active = Dark]
  /\ crossed' = (Untold # {})
  /\ Advance(t, "publish")
  /\ UNCHANGED <<pages, op, shows, deleted>>

TellNothing(t) ==
  /\ t.pc = "publish"
  /\ timers' = timers \ {t}
  /\ UNCHANGED <<slot, pages, op, shows, deleted, crossed>>

Tell(t) ==
  /\ t.pc = "publish"
  /\ pages' = Dark
  /\ timers' = timers \ {t}
  /\ UNCHANGED <<slot, op, shows, deleted, crossed>>

Next == \/ \E o \in Operator :
             \/ \E p \in Plate : Show(o, p) \/ Toggle(o, p)
             \/ Hide(o) \/ Evict(o) \/ Remove(o)
             \/ Allocate(o) \/ Set(o) \/ Publish(o) \/ Schedule(o)
        \/ \E t \in timers : Wake(t) \/ Clear(t) \/ Tell(t)

Spec == Init /\ [][Next]_vars

-----------------------------------------------------------------------------
\* An auto-hide that wakes takes the plate on air for its own only if it is the
\* one it was scheduled for, unless one of the two is from before a deletion of
\* the output: the numbers then start over, and a task may hide another plate.
WakesForItsPlate ==
  \A t \in timers : t.pc = "sleep" /\ {t.show, slot.active.show} \cap deleted = {}
    => slot.active = Dark \/ slot.active.seq # t.seq \/ slot.active.show = t.show

\* The pages show the plate that is on air, unless a change is still to be
\* published, or two changes overlapped and none was made alone since.
PagesShowTheSlot ==
  pages = slot.active \/ Untold # {} \/ crossed
=============================================================================
