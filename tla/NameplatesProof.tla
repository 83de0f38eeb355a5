--------------------------- MODULE NameplatesProof ---------------------------
(***************************************************************************)
(* An auto-hide that wakes takes no other plate for its own, for any       *)
(* number of plates, requests and shows.                                   *)
(***************************************************************************)
EXTENDS Nameplates, TLAPS

-----------------------------------------------------------------------------
\* The inductive invariant.

\* A request has its number once it is allocated; one that shows a plate keeps
\* it until its auto-hide is scheduled.
Carries(q) == q.pc \in {"set", "publish", "schedule"} /\ q.plate # NoPlate

\* A request, when there have been m shows.
OpOK(q, m) ==
  /\ q.pc \in {"allocate", "set"} \/ Carries(q) =>
       /\ q = [pc |-> q.pc, plate |-> q.plate, show |-> q.show, seq |-> q.seq]
       /\ q.seq \in Nat /\ q.show \in 1..m
  /\ q.pc = "schedule" => Carries(q)
  /\ q.pc = "evict" => q = [pc |-> "evict", plate |-> NoPlate, dark |-> q.dark]

Types == /\ op = [o \in Operator |-> op[o]]
         /\ \A o \in Operator : OpOK(op[o], shows)
         /\ slot = [active |-> slot.active, next |-> slot.next] /\ slot.next \in Nat
         /\ slot.active # Dark =>
              slot.active = [plate |-> slot.active.plate, seq |-> slot.active.seq,
                             show |-> slot.active.show]
         /\ \A t \in timers : t = [seq |-> t.seq, show |-> t.show, pc |-> t.pc]
         /\ shows \in Nat /\ deleted \subseteq 1..shows

\* Show s carries the number n, in a request, in a timer or on air.
Known(n, s) ==
  \/ \E o \in Operator : Carries(op[o]) /\ op[o].seq = n /\ op[o].show = s
  \/ \E t \in timers : t.seq = n /\ t.show = s
  \/ slot.active # Dark /\ slot.active.seq = n /\ slot.active.show = s

\* Since the output was deleted last, a number was given to one show only, and
\* the next one to none.
NumbersOK ==
  /\ \A n, s : Known(n, s) => n \in Nat /\ s \in 1..shows
  /\ \A n, s : Known(n, s) /\ s \notin deleted => n < slot.next
  /\ \A n, s, u : Known(n, s) /\ Known(n, u) /\ s \notin deleted /\ u \notin deleted => s = u

IInv == Types /\ NumbersOK

LEMMA InvWakes == IInv => WakesForItsPlate
BY DEF IInv, NumbersOK, Known, WakesForItsPlate

LEMMA InitInv == Init => IInv
BY DEF Init, IInv, Types, NumbersOK, Known, OpOK, Carries, Resting, NoSlot, Dark

-----------------------------------------------------------------------------
\* Steps.

\* Nothing is numbered anew.
LEMMA NumbersStay ==
  ASSUME IInv, Types', \A n, s : Known(n, s)' => Known(n, s),
         slot'.next = slot.next, shows' >= shows, deleted' = deleted
  PROVE  NumbersOK'
BY DEF IInv, Types, NumbersOK

\* One request goes on.
LEMMA OthersStay ==
  ASSUME IInv, NEW o \in Operator, NEW q, op' = [op EXCEPT ![o] = q],
         shows' \in Nat, shows' >= shows, OpOK(q, shows')
  PROVE  /\ op' = [p \in Operator |-> op'[p]] /\ op'[o] = q
         /\ \A p \in Operator \ {o} : op'[p] = op[p]
         /\ \A p \in Operator : OpOK(op'[p], shows')
<1>1. /\ op' = [p \in Operator |-> op'[p]] /\ op'[o] = q
      /\ \A p \in Operator \ {o} : op'[p] = op[p]
  BY DEF IInv, Types
<1>2. \A p \in Operator \ {o} : OpOK(op'[p], shows')
  BY <1>1 DEF IInv, Types, OpOK, Carries
<1> QED  BY <1>1, <1>2

\* A new request.
LEMMA BeginInv ==
  ASSUME IInv, NEW o \in Operator, NEW q, Begin(o, q), OpOK(q, shows'), ~Carries(q),
         UNCHANGED <<slot, timers, deleted>>
  PROVE  IInv'
<1>1. op' = [op EXCEPT ![o] = q] /\ shows' \in Nat /\ shows' >= shows
  BY DEF Begin, IInv, Types
<1>2. /\ op' = [p \in Operator |-> op'[p]] /\ op'[o] = q
      /\ \A p \in Operator \ {o} : op'[p] = op[p]
      /\ \A p \in Operator : OpOK(op'[p], shows')
  BY <1>1, OthersStay
<1>3. Types'
  BY <1>1, <1>2 DEF IInv, Types
<1>4. \A n, s : Known(n, s)' => Known(n, s)
  BY <1>2 DEF Known, Carries
<1> QED  BY <1>1, <1>3, <1>4, NumbersStay DEF IInv

LEMMA AskInv ==
  ASSUME IInv, NEW o \in Operator, NEW p,
         Show(o, p) \/ Toggle(o, p) \/ Hide(o) \/ Evict(o)
  PROVE  IInv'
<1>1. \A x : OpOK([pc |-> "allocate", plate |-> x, show |-> shows + 1, seq |-> 0],
                  shows + 1)
  BY DEF IInv, Types, OpOK, Carries
<1>2. CASE Evict(o)
  <2>1. OpOK([pc |-> "evict", plate |-> NoPlate, dark |-> slot.active = Dark],
             shows + 1)
    BY <1>2 DEF Evict, OpOK, Carries
  <2> DEFINE q == [pc |-> "evict", plate |-> NoPlate, dark |-> slot.active = Dark]
  <2>2. ~Carries(q)
    BY DEF Carries
  <2>3. Begin(o, q) /\ shows' = shows + 1 /\ UNCHANGED <<slot, timers, deleted>>
    BY <1>2 DEF Evict, Begin
  <2> HIDE DEF q
  <2> QED  BY <2>1, <2>2, <2>3, BeginInv DEF q
<1>3. CASE Show(o, p) \/ Hide(o)
  BY <1>1, <1>3, BeginInv DEF Show, Hide, Begin, Carries
<1>4. CASE Toggle(o, p)
  BY <1>1, <1>4, BeginInv DEF Toggle, Begin, Carries
<1> QED  BY <1>2, <1>3, <1>4

\* A number is given out: no show that counts has it.
LEMMA AllocateInv == ASSUME IInv, NEW o \in Operator, Allocate(o) PROVE IInv'
<1> DEFINE old == op[o]
           new == [pc |-> "set", plate |-> old.plate, show |-> old.show, seq |-> slot.next]
<1>1. /\ slot' = [active |-> slot.active, next |-> slot.next + 1]
      /\ UNCHANGED <<timers, shows, deleted>>
  BY DEF Allocate, NextSeq, IInv, Types
<1>2. op' = [op EXCEPT ![o] = new]
  <2> DEFINE mid == [old EXCEPT !.seq = slot.next]
  <2>1. op' = [op EXCEPT ![o] = [mid EXCEPT !.pc = "set"]]
    BY DEF Allocate
  <2>2. mid = [pc |-> old.pc, plate |-> old.plate, show |-> old.show, seq |-> slot.next]
    BY DEF Allocate, IInv, Types, OpOK
  <2>3. [mid EXCEPT !.pc = "set"] = new
    <3> HIDE DEF mid
    <3> QED  BY <2>2
  <2> QED  BY <2>1, <2>3
<1>3. old.show \in 1..shows /\ slot.next \in Nat
  BY DEF Allocate, IInv, Types, OpOK
<1>4. OpOK(new, shows')
  BY <1>1, <1>3 DEF OpOK, Carries
<1> HIDE DEF new
<1>5. /\ op' = [p \in Operator |-> op'[p]] /\ op'[o] = new
      /\ \A p \in Operator \ {o} : op'[p] = op[p]
      /\ \A p \in Operator : OpOK(op'[p], shows')
  BY <1>1, <1>2, <1>4, OthersStay DEF IInv, Types
<1>6. Types'
  BY <1>1, <1>3, <1>5 DEF IInv, Types
<1>7. \A n, s : Known(n, s)' => Known(n, s) \/ (n = slot.next /\ s = old.show)
  BY <1>1, <1>5 DEF Known, new
<1>8. NumbersOK'
  BY <1>1, <1>3, <1>7 DEF IInv, NumbersOK
<1> QED  BY <1>6, <1>8 DEF IInv

\* What is set is what will be published.
LEMMA SetGoesOn ==
  ASSUME IInv, NEW o \in Operator, Set(o)
  PROVE  /\ op[o] = [pc |-> "set", plate |-> op[o].plate, show |-> op[o].show,
                     seq |-> op[o].seq]
         /\ op' = [op EXCEPT ![o] = [pc |-> "publish", plate |-> op[o].plate,
                                     show |-> op[o].show, seq |-> op[o].seq]]
<1> DEFINE old == op[o]
           new == [pc |-> "publish", plate |-> old.plate, show |-> old.show, seq |-> old.seq]
<1>1. old = [pc |-> "set", plate |-> old.plate, show |-> old.show, seq |-> old.seq]
  BY DEF Set, IInv, Types, OpOK
<1>2. op' = [op EXCEPT ![o] = [old EXCEPT !.pc = "publish"]]
  BY DEF Set, Goto
<1>3. [old EXCEPT !.pc = "publish"] = new
  <2> HIDE DEF old
  <2> QED  BY <1>1
<1> QED  BY <1>1, <1>2, <1>3

LEMMA SetInv == ASSUME IInv, NEW o \in Operator, Set(o) PROVE IInv'
<1> DEFINE old == op[o]
           new == [pc |-> "publish", plate |-> old.plate, show |-> old.show, seq |-> old.seq]
<1>1. /\ old = [pc |-> "set", plate |-> old.plate, show |-> old.show, seq |-> old.seq]
      /\ old.seq \in Nat /\ old.show \in 1..shows
  BY SetGoesOn DEF Set, IInv, Types, OpOK
<1>2. UNCHANGED <<timers, shows, deleted>> /\ op' = [op EXCEPT ![o] = new]
  BY SetGoesOn DEF Set
<1>3. slot' = [active |-> IF old.plate = NoPlate THEN Dark
                          ELSE [plate |-> old.plate, seq |-> old.seq, show |-> old.show],
               next |-> slot.next]
  BY DEF Set, IInv, Types
<1>4. OpOK(new, shows')
  BY <1>1, <1>2 DEF OpOK, Carries
<1>5. /\ op' = [p \in Operator |-> op'[p]] /\ op'[o] = new
      /\ \A p \in Operator \ {o} : op'[p] = op[p]
      /\ \A p \in Operator : OpOK(op'[p], shows')
  <2> HIDE DEF new
  <2> QED  BY <1>2, <1>4, OthersStay DEF IInv, Types
<1>6. Types'
  BY <1>2, <1>3, <1>5 DEF IInv, Types
<1>7. \A n, s : Known(n, s)' => Known(n, s)
  BY <1>1, <1>2, <1>3, <1>5 DEF Known, Carries
<1> QED  BY <1>2, <1>3, <1>6, <1>7, NumbersStay DEF IInv, Types

\* A request goes on to a step, or ends, with what it carries already.
LEMMA GoOnInv ==
  ASSUME IInv, NEW o \in Operator, NEW q, op' = [op EXCEPT ![o] = q], OpOK(q, shows),
         Carries(q) => Carries(op[o]) /\ q.seq = op[o].seq /\ q.show = op[o].show,
         UNCHANGED <<slot, shows, deleted>>,
         \A t \in timers' : t = [seq |-> t.seq, show |-> t.show, pc |-> t.pc],
         \A t \in timers' : Known(t.seq, t.show)
  PROVE  IInv'
<1>1. OpOK(q, shows')
  OBVIOUS
<1>2. /\ op' = [p \in Operator |-> op'[p]] /\ op'[o] = q
      /\ \A p \in Operator \ {o} : op'[p] = op[p]
      /\ \A p \in Operator : OpOK(op'[p], shows')
  BY <1>1, OthersStay DEF IInv, Types
<1>3. Types'
  BY <1>2 DEF IInv, Types
<1>4. \A n, s : Known(n, s)' => Known(n, s)
  BY <1>2 DEF Known, Carries
<1> QED  BY <1>3, <1>4, NumbersStay DEF IInv, Types

LEMMA PublishInv == ASSUME IInv, NEW o \in Operator, Publish(o) PROVE IInv'
<1>1. \A t \in timers : Known(t.seq, t.show)
  BY DEF Known
<1>2. CASE op[o].plate = NoPlate
  BY <1>1, <1>2, GoOnInv DEF Publish, Finish, Resting, OpOK, Carries, IInv, Types
<1>3. CASE op[o].plate # NoPlate
  <2>1. op[o] = [pc |-> "publish", plate |-> op[o].plate, show |-> op[o].show,
                 seq |-> op[o].seq]
        /\ op[o].seq \in Nat /\ op[o].show \in 1..shows
    BY <1>3 DEF Publish, IInv, Types, OpOK, Carries
  <2> DEFINE new == [pc |-> "schedule", plate |-> op[o].plate, show |-> op[o].show,
                     seq |-> op[o].seq]
  <2>2. op' = [op EXCEPT ![o] = new]
    <3>1. op' = [op EXCEPT ![o] = [op[o] EXCEPT !.pc = "schedule"]]
      BY <1>3 DEF Publish, Goto
    <3>2. [op[o] EXCEPT !.pc = "schedule"] = new
      <4> DEFINE old == op[o]
      <4>1. old = [pc |-> "publish", plate |-> old.plate, show |-> old.show, seq |-> old.seq]
        BY <2>1
      <4>2. [old EXCEPT !.pc = "schedule"]
              = [pc |-> "schedule", plate |-> old.plate, show |-> old.show, seq |-> old.seq]
        <5> HIDE DEF old
        <5> QED  BY <4>1
      <4> QED  BY <4>2
    <3> QED  BY <3>1, <3>2
  <2>3. OpOK(new, shows) /\ Carries(op[o])
    BY <1>3, <2>1 DEF OpOK, Carries
  <2>4. new.seq = op[o].seq /\ new.show = op[o].show
    OBVIOUS
  <2> HIDE DEF new
  <2> QED  BY <1>1, <2>2, <2>3, <2>4, GoOnInv DEF Publish, IInv, Types
<1> QED  BY <1>2, <1>3

LEMMA ScheduleInv == ASSUME IInv, NEW o \in Operator, Schedule(o) PROVE IInv'
<1>1. op' = [op EXCEPT ![o] = Resting] /\ OpOK(Resting, shows) /\ ~Carries(Resting)
  BY DEF Schedule, Finish, OpOK, Carries, Resting
<1>2. Carries(op[o])
  BY DEF Schedule, IInv, Types, OpOK
<1>3. \A t \in timers' : Known(t.seq, t.show)
  BY <1>2 DEF Schedule, Known
<1>4. \A t \in timers' : t = [seq |-> t.seq, show |-> t.show, pc |-> t.pc]
  BY DEF Schedule, IInv, Types
<1> QED  BY <1>1, <1>3, <1>4, GoOnInv DEF Schedule

\* A deletion of an output that was not dark is still to be published.
LEMMA RemoveGoesOn ==
  ASSUME IInv, NEW o \in Operator, Remove(o)
  PROVE  op' = [op EXCEPT ![o] =
                  IF op[o].dark THEN Resting
                  ELSE [pc |-> "publish", plate |-> NoPlate, dark |-> op[o].dark]]
<1> DEFINE old == op[o]
<1>1. old = [pc |-> "evict", plate |-> NoPlate, dark |-> old.dark]
  BY DEF Remove, IInv, Types, OpOK
<1>2. [old EXCEPT !.pc = "publish"] = [pc |-> "publish", plate |-> NoPlate, dark |-> old.dark]
  <2> HIDE DEF old
  <2> QED  BY <1>1
<1>3. op' = [op EXCEPT ![o] = IF old.dark THEN Resting ELSE [old EXCEPT !.pc = "publish"]]
  BY DEF Remove, Finish, Goto
<1> QED  BY <1>2, <1>3

\* The deletion of the output: what is numbered does not count any more.
LEMMA RemoveInv == ASSUME IInv, NEW o \in Operator, Remove(o) PROVE IInv'
<1>1. /\ slot' = NoSlot /\ deleted' = 1..shows /\ UNCHANGED <<timers, shows>>
  BY DEF Remove
<1>2. /\ OpOK(Resting, shows) /\ ~Carries(Resting)
      /\ \A dark : LET q == [pc |-> "publish", plate |-> NoPlate, dark |-> dark]
                    IN  OpOK(q, shows) /\ ~Carries(q)
  BY DEF OpOK, Carries, Resting
<1>3. PICK q : op' = [op EXCEPT ![o] = q] /\ OpOK(q, shows) /\ ~Carries(q)
  <2>1. CASE op[o].dark
    BY <1>2, <2>1, RemoveGoesOn
  <2>2. CASE ~op[o].dark
    BY <1>2, <2>2, RemoveGoesOn
  <2> QED  BY <2>1, <2>2
<1>4. /\ op' = [p \in Operator |-> op'[p]] /\ op'[o] = q
      /\ \A p \in Operator \ {o} : op'[p] = op[p]
      /\ \A p \in Operator : OpOK(op'[p], shows')
  BY <1>1, <1>3, OthersStay DEF IInv, Types
<1>5. Types'
  BY <1>1, <1>4 DEF IInv, Types, NoSlot
<1>6. \A n, s : Known(n, s)' => Known(n, s)
  BY <1>1, <1>3, <1>4 DEF Known, NoSlot
<1>7. NumbersOK'
  BY <1>1, <1>6 DEF IInv, NumbersOK
<1> QED  BY <1>5, <1>7 DEF IInv

\* A timer goes on or ends, and may clear the plate on air.
LEMMA TimerInv ==
  ASSUME IInv, NEW t \in timers, Wake(t) \/ Clear(t) \/ Tell(t) PROVE IInv'
<1>1. UNCHANGED <<op, shows, deleted>>
  BY DEF Wake, Clear, Tell
<1>2. slot' = slot \/ slot' = [active |-> Dark, next |-> slot.next]
  BY DEF Wake, Clear, Tell, IInv, Types
<1>3. \A u \in timers' : /\ u = [seq |-> u.seq, show |-> u.show, pc |-> u.pc]
                         /\ \E v \in timers : v.seq = u.seq /\ v.show = u.show
  <2>1. ASSUME NEW pc
        PROVE  [t EXCEPT !.pc = pc] = [seq |-> t.seq, show |-> t.show, pc |-> pc]
    BY DEF IInv, Types
  <2>2. \A u \in timers' : u \in timers \/ \E pc : u = [t EXCEPT !.pc = pc]
    BY DEF Wake, Clear, Tell, Advance
  <2> QED  BY <2>1, <2>2 DEF IInv, Types
<1>4. Types'
  BY <1>1, <1>2, <1>3 DEF IInv, Types
<1>5. \A n, s : Known(n, s)' => Known(n, s)
  BY <1>1, <1>2, <1>3 DEF Known
<1>6. slot'.next = slot.next
  BY <1>2
<1> QED  BY <1>1, <1>4, <1>5, <1>6, NumbersStay DEF IInv, Types

-----------------------------------------------------------------------------

THEOREM StepInv == ASSUME IInv, [Next]_vars PROVE IInv'
<1>1. CASE UNCHANGED vars
  BY <1>1 DEF vars, IInv, Types, NumbersOK, Known
<1>2. ASSUME NEW o \in Operator, NEW p, Show(o, p) \/ Toggle(o, p) \/ Hide(o) \/ Evict(o)
      PROVE  IInv'
  BY <1>2, AskInv
<1>3. ASSUME NEW o \in Operator, Remove(o) \/ Allocate(o) \/ Set(o) \/ Publish(o) \/ Schedule(o)
      PROVE  IInv'
  BY <1>3, RemoveInv, AllocateInv, SetInv, PublishInv, ScheduleInv
<1>4. ASSUME NEW t \in timers, Wake(t) \/ Clear(t) \/ Tell(t) PROVE IInv'
  BY <1>4, TimerInv
<1> QED  BY <1>1, <1>2, <1>3, <1>4 DEF Next

\* An auto-hide never takes a plate shown after its own for its own, however
\* shows, hides and timers interleave, as long as the output is not deleted
\* (state/stream_nameplates.rs).
THEOREM TimersWakeForTheirPlate == Spec => []WakesForItsPlate
BY InitInv, StepInv, InvWakes, PTL DEF Spec
-----------------------------------------------------------------------------
\* The pages.

\* What a request will tell them.
Tells(q) == IF q.plate = NoPlate THEN Dark
            ELSE [plate |-> q.plate, seq |-> q.seq, show |-> q.show]

Silent(S) == \A x \in S : x.pc # "publish"
RequestsSilent(S) == \A o \in S : op[o].pc # "publish"

\* When no two changes overlapped, at most one is still to be published, and it
\* is the one that is on air.
PagesOK ==
  ~crossed =>
    \/ RequestsSilent(Operator) /\ Silent(timers) /\ pages = slot.active
    \/ \E o \in Operator : /\ op[o].pc = "publish" /\ Tells(op[o]) = slot.active
                           /\ RequestsSilent(Operator \ {o}) /\ Silent(timers)
    \/ \E t \in timers : /\ t.pc = "publish" /\ slot.active = Dark
                         /\ RequestsSilent(Operator) /\ Silent(timers \ {t})

PInv == IInv /\ PagesOK

LEMMA InvPages == PagesOK => PagesShowTheSlot
BY DEF PagesOK, PagesShowTheSlot, Untold, RequestsSilent, Silent

LEMMA InitPages == Init => PagesOK
BY DEF Init, PagesOK, RequestsSilent, Silent, Resting, NoSlot, Dark

LEMMA UntoldNone == Untold = {} <=> RequestsSilent(Operator) /\ Silent(timers)
BY DEF Untold, RequestsSilent, Silent

\* A step that neither changes what is on air nor publishes.
LEMMA PagesStay ==
  ASSUME PagesOK, slot'.active = slot.active, UNCHANGED <<pages, crossed>>,
         NEW o \in Operator, op[o].pc # "publish", op'[o].pc # "publish",
         \A p \in Operator \ {o} : op'[p] = op[p],
         \A t \in timers : t.pc = "publish" => t \in timers',
         \A t \in timers' : t.pc = "publish" => t \in timers
  PROVE  PagesOK'
BY DEF PagesOK, RequestsSilent, Silent

\* A change that is made while none is to be published is the one to be published.
LEMMA PagesSet ==
  ASSUME NEW o \in Operator, crossed' = (Untold # {}), UNCHANGED timers,
         \A p \in Operator \ {o} : op'[p] = op[p],
         op'[o].pc = "publish", Tells(op'[o]) = slot'.active
  PROVE  PagesOK'
<1> SUFFICES ASSUME ~crossed' PROVE PagesOK'
  BY DEF PagesOK
<1>1. RequestsSilent(Operator) /\ Silent(timers)
  BY UntoldNone
<1>2. RequestsSilent(Operator \ {o})' /\ Silent(timers)'
  BY <1>1 DEF RequestsSilent, Silent
<1> QED  BY <1>2 DEF PagesOK, Tells

LEMMA BeginPages ==
  ASSUME PInv, NEW o \in Operator, NEW q, Begin(o, q), q.pc # "publish",
         UNCHANGED <<slot, pages, timers, crossed>>
  PROVE  PagesOK'
<1>1. op[o].pc # "publish" /\ op'[o] = q /\ \A p \in Operator \ {o} : op'[p] = op[p]
  BY DEF Begin, Resting, PInv, IInv, Types
<1> QED  BY <1>1, PagesStay DEF PInv

LEMMA AskPages ==
  ASSUME PInv, NEW o \in Operator, NEW p,
         Show(o, p) \/ Toggle(o, p) \/ Hide(o) \/ Evict(o)
  PROVE  PagesOK'
<1>1. CASE Evict(o)
  <2> DEFINE q == [pc |-> "evict", plate |-> NoPlate, dark |-> slot.active = Dark]
  <2>1. q.pc # "publish" /\ Begin(o, q)
    BY <1>1 DEF Evict
  <2> HIDE DEF q
  <2> QED  BY <1>1, <2>1, BeginPages DEF Evict
<1>2. CASE Show(o, p)
  BY <1>2, BeginPages DEF Show
<1>3. CASE Hide(o)
  BY <1>3, BeginPages DEF Hide
<1>4. CASE Toggle(o, p)
  <2> DEFINE q == [pc |-> "allocate", show |-> shows + 1, seq |-> 0,
                   plate |-> IF slot.active.plate = p THEN NoPlate ELSE p]
  <2>1. q.pc # "publish" /\ Begin(o, q)
    BY <1>4 DEF Toggle
  <2> HIDE DEF q
  <2> QED  BY <1>4, <2>1, BeginPages DEF Toggle
<1> QED  BY <1>1, <1>2, <1>3, <1>4

LEMMA AllocatePages == ASSUME PInv, NEW o \in Operator, Allocate(o) PROVE PagesOK'
<1> DEFINE mid == [op[o] EXCEPT !.seq = slot.next]
<1>1. op[o].pc = "allocate" /\ slot'.active = slot.active
      /\ UNCHANGED <<pages, timers, crossed>>
  BY DEF Allocate, NextSeq, PInv, IInv, Types
<1>2. op' = [op EXCEPT ![o] = [mid EXCEPT !.pc = "set"]]
  BY DEF Allocate
<1>3. mid = [pc |-> op[o].pc, plate |-> op[o].plate, show |-> op[o].show, seq |-> slot.next]
  BY <1>1 DEF PInv, IInv, Types, OpOK
<1>4. [mid EXCEPT !.pc = "set"].pc = "set"
  <2> HIDE DEF mid
  <2> QED  BY <1>3
<1> HIDE DEF mid
<1>5. op'[o].pc = "set" /\ \A p \in Operator \ {o} : op'[p] = op[p]
  BY <1>2, <1>4 DEF PInv, IInv, Types
<1> QED  BY <1>1, <1>5, PagesStay DEF PInv

LEMMA SetPages == ASSUME PInv, NEW o \in Operator, Set(o) PROVE PagesOK'
<1>1. /\ op'[o] = [pc |-> "publish", plate |-> op[o].plate, show |-> op[o].show,
                   seq |-> op[o].seq]
      /\ \A p \in Operator \ {o} : op'[p] = op[p]
  BY SetGoesOn DEF PInv, IInv, Types
<1>2. slot'.active = IF op[o].plate = NoPlate THEN Dark
                     ELSE [plate |-> op[o].plate, seq |-> op[o].seq, show |-> op[o].show]
  BY DEF Set, PInv, IInv, Types
<1>3. Tells(op'[o]) = slot'.active /\ op'[o].pc = "publish"
  BY <1>1, <1>2 DEF Tells
<1> QED  BY <1>1, <1>3, PagesSet DEF Set

\* The request that publishes is the only one that has to, and tells what is on air.
LEMMA PublishPages == ASSUME PInv, NEW o \in Operator, Publish(o) PROVE PagesOK'
<1> SUFFICES ASSUME ~crossed PROVE PagesOK'
  BY DEF Publish, PagesOK
<1>1. op[o].pc = "publish" /\ pages' = Tells(op[o]) /\ UNCHANGED <<slot, timers, crossed>>
  BY DEF Publish, Tells
<1>2. Tells(op[o]) = slot.active /\ RequestsSilent(Operator \ {o}) /\ Silent(timers)
  BY <1>1 DEF PInv, PagesOK, RequestsSilent
<1>3. op'[o].pc # "publish" /\ \A p \in Operator \ {o} : op'[p] = op[p]
  <2>1. CASE op[o].plate = NoPlate
    BY <2>1 DEF Publish, Finish, Resting, PInv, IInv, Types
  <2>2. CASE op[o].plate # NoPlate
    <3> DEFINE old == op[o]
    <3>1. old = [pc |-> "publish", plate |-> old.plate, show |-> old.show, seq |-> old.seq]
      BY <1>1, <2>2 DEF PInv, IInv, Types, OpOK, Carries
    <3>2. op' = [op EXCEPT ![o] = [old EXCEPT !.pc = "schedule"]]
      BY <2>2 DEF Publish, Goto
    <3>3. [old EXCEPT !.pc = "schedule"].pc = "schedule"
      <4> HIDE DEF old
      <4> QED  BY <3>1
    <3> HIDE DEF old
    <3> QED  BY <3>2, <3>3 DEF PInv, IInv, Types
  <2> QED  BY <2>1, <2>2
<1>4. RequestsSilent(Operator)' /\ Silent(timers)' /\ pages' = slot'.active
  BY <1>1, <1>2, <1>3 DEF RequestsSilent, Silent
<1> QED  BY <1>4 DEF PagesOK

LEMMA SchedulePages == ASSUME PInv, NEW o \in Operator, Schedule(o) PROVE PagesOK'
<1>1. op[o].pc = "schedule" /\ op'[o].pc # "publish" /\ UNCHANGED <<slot, pages, crossed>>
      /\ \A p \in Operator \ {o} : op'[p] = op[p]
  BY DEF Schedule, Finish, Resting, PInv, IInv, Types
<1>2. timers \subseteq timers' /\ \A t \in timers' : t.pc = "publish" => t \in timers
  BY DEF Schedule
<1> QED  BY <1>1, <1>2, PagesStay DEF PInv

LEMMA RemovePages == ASSUME PInv, NEW o \in Operator, Remove(o) PROVE PagesOK'
<1>1. op[o].pc = "evict" /\ slot'.active = Dark /\ UNCHANGED <<pages, timers>>
  BY DEF Remove, NoSlot
<1>2. /\ op'[o] = IF op[o].dark THEN Resting
                  ELSE [pc |-> "publish", plate |-> NoPlate, dark |-> op[o].dark]
      /\ \A p \in Operator \ {o} : op'[p] = op[p]
  BY RemoveGoesOn DEF PInv, IInv, Types
<1>3. CASE op[o].dark
  <2> SUFFICES ASSUME ~crossed' PROVE PagesOK'
    BY DEF PagesOK
  <2>1. ~crossed /\ slot.active = Dark
    BY <1>3 DEF Remove
  <2>2. op'[o].pc # "publish"
    BY <1>2, <1>3 DEF Resting
  <2> QED  BY <1>1, <1>2, <2>1, <2>2 DEF PInv, PagesOK, RequestsSilent, Silent, Dark
<1>4. CASE ~op[o].dark
  <2>1. op'[o].pc = "publish" /\ Tells(op'[o]) = slot'.active
    BY <1>1, <1>2, <1>4 DEF Tells
  <2>2. crossed' = (Untold # {})
    BY <1>4 DEF Remove
  <2> QED  BY <1>1, <1>2, <2>1, <2>2, PagesSet
<1> QED  BY <1>3, <1>4

LEMMA TimerPages ==
  ASSUME PInv, NEW t \in timers, Wake(t) \/ Clear(t) \/ Tell(t) PROVE PagesOK'
<1>1. ASSUME NEW pc PROVE [t EXCEPT !.pc = pc].pc = pc
  <2>1. t = [seq |-> t.seq, show |-> t.show, pc |-> t.pc]
    BY DEF PInv, IInv, Types
  <2> QED  BY <2>1
<1>2. CASE Wake(t)
  <2>1. /\ t.pc = "sleep" /\ UNCHANGED <<slot, pages, op, crossed>>
        /\ \/ timers' = (timers \ {t}) \union {[t EXCEPT !.pc = "clear"]}
           \/ timers' = timers \ {t}
    BY <1>2 DEF Wake, Advance
  <2>2. [t EXCEPT !.pc = "clear"].pc = "clear"
    BY <1>1
  <2>3. /\ \A u \in timers : u.pc = "publish" => u \in timers'
        /\ \A u \in timers' : u.pc = "publish" => u \in timers
    BY <2>1, <2>2
  <2> QED  BY <2>1, <2>3 DEF PInv, PagesOK, RequestsSilent, Silent
<1>3. CASE Clear(t)
  <2> DEFINE told == [t EXCEPT !.pc = "publish"]
  <2>1. /\ slot'.active = Dark /\ crossed' = (Untold # {}) /\ UNCHANGED <<pages, op>>
        /\ timers' = (timers \ {t}) \union {told}
    BY <1>3 DEF Clear, Advance, PInv, IInv, Types
  <2>2. told.pc = "publish"
    BY <1>1
  <2> HIDE DEF told
  <2> SUFFICES ASSUME ~crossed' PROVE PagesOK'
    BY DEF PagesOK
  <2>3. RequestsSilent(Operator) /\ Silent(timers)
    BY <2>1, UntoldNone
  <2>4. told \in timers' /\ RequestsSilent(Operator)' /\ \A u \in timers' \ {told} : u.pc # "publish"
    BY <2>1, <2>3 DEF RequestsSilent, Silent
  <2> QED  BY <2>1, <2>2, <2>4 DEF PagesOK, Silent, Dark
<1>4. CASE Tell(t)
  <2>1. /\ t.pc = "publish" /\ pages' = Dark /\ timers' = timers \ {t}
        /\ UNCHANGED <<slot, op, crossed>>
    BY <1>4 DEF Tell
  <2> SUFFICES ASSUME ~crossed PROVE PagesOK'
    BY <2>1 DEF PagesOK
  <2>2. slot.active = Dark /\ RequestsSilent(Operator) /\ Silent(timers \ {t})
    BY <2>1 DEF PInv, PagesOK, Silent
  <2> QED  BY <2>1, <2>2 DEF PagesOK, RequestsSilent, Silent
<1> QED  BY <1>2, <1>3, <1>4

LEMMA StepPages == ASSUME PInv, [Next]_vars PROVE PInv'
<1>1. ASSUME NEW o \in Operator, NEW p, Show(o, p) \/ Toggle(o, p) \/ Hide(o) \/ Evict(o)
      PROVE  PagesOK'
  BY <1>1, AskPages
<1>2. ASSUME NEW o \in Operator, Remove(o) \/ Allocate(o) \/ Set(o) \/ Publish(o) \/ Schedule(o)
      PROVE  PagesOK'
  BY <1>2, RemovePages, AllocatePages, SetPages, PublishPages, SchedulePages
<1>3. ASSUME NEW t \in timers, Wake(t) \/ Clear(t) \/ Tell(t) PROVE PagesOK'
  BY <1>3, TimerPages
<1>4. IInv'
  BY StepInv DEF PInv
<1>5. PagesOK'
  <2>1. CASE UNCHANGED vars
    BY <2>1 DEF vars, PInv, PagesOK, RequestsSilent, Silent, Tells
  <2> QED  BY <1>1, <1>2, <1>3, <2>1 DEF Next
<1> QED  BY <1>4, <1>5 DEF PInv

\* The pages show the plate that is on air whenever every change is published,
\* unless two overlapped and none was made alone since, however shows, hides,
\* auto-hides and the deletion of the output interleave
\* (state/stream_nameplates.rs).
THEOREM PagesAlwaysShowTheSlot == Spec => []PagesShowTheSlot
<1>1. Init => PInv
  BY InitInv, InitPages DEF PInv
<1>2. PInv => PagesShowTheSlot
  BY InvPages DEF PInv
<1> QED  BY <1>1, <1>2, StepPages, PTL DEF Spec
=============================================================================
