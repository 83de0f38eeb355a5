-------------------------- MODULE HealthCacheProof --------------------------
(***************************************************************************)
(* One probe of the AI backend at a time, never none for ever, and none    *)
(* sooner than the time to live allows, for any number of calls.           *)
(***************************************************************************)
EXTENDS HealthCache, FiniteSetTheorems, TLAPS

-----------------------------------------------------------------------------
\* The inductive invariant.

Types == /\ hit \in [Hit -> {"idle", "cold", "stale", "probe", "guard"}]
         /\ refresh \in [Hit -> {"none", "probe", "guard"}]
         /\ refreshing \in BOOLEAN

\* A call, or the refresh it spawned, has the flag.
Inline(h) == hit[h] \in {"probe", "guard"}
Spawned(h) == refresh[h] \in {"probe", "guard"}

FlagHeld ==
  /\ ~refreshing => \A h \in Hit : ~Inline(h) /\ ~Spawned(h)
  /\ refreshing => \E h \in Hit : /\ Inline(h) <=> ~Spawned(h)
                                  /\ \A k \in Hit \ {h} : ~Inline(k) /\ ~Spawned(k)

\* While the last verdict is good no call looks any further.
VerdictServed == recent => fresh /\ seen = {}

IInv == Types /\ FlagHeld /\ VerdictServed

LEMMA InitInv == Init => IInv
BY DEF Init, IInv, Types, FlagHeld, VerdictServed, Inline, Spawned

-----------------------------------------------------------------------------
\* Steps.

LEMMA ReadInv == ASSUME IInv, NEW h \in Hit, Read(h) PROVE IInv'
<1>1. Types' /\ FlagHeld'
  BY DEF Read, Become, IInv, Types, FlagHeld, Inline, Spawned
<1>2. VerdictServed'
  BY DEF Read, IInv, VerdictServed
<1> QED  BY <1>1, <1>2 DEF IInv

\* Who finds the flag clear takes it, and is the only one to have it.
LEMMA TakeInv == ASSUME IInv, NEW h \in Hit, Cold(h) \/ Stale(h) PROVE IInv'
<1>1. Types' /\ VerdictServed'
  <2>1. CASE Cold(h)
    BY <2>1 DEF Cold, Become, IInv, Types, VerdictServed
  <2>2. CASE Stale(h)
    BY <2>2 DEF Stale, Become, IInv, Types, VerdictServed
  <2> QED  BY <2>1, <2>2
<1>2. CASE refreshing
  <2>1. refreshing' /\ \A k \in Hit : (Inline(k)' <=> Inline(k)) /\ (Spawned(k)' <=> Spawned(k))
    BY <1>2 DEF Cold, Stale, Become, IInv, Types, Inline, Spawned
  <2> QED  BY <1>1, <1>2, <2>1 DEF IInv, FlagHeld
<1>3. CASE ~refreshing
  <2>1. \A k \in Hit : ~Inline(k) /\ ~Spawned(k)
    BY <1>3 DEF IInv, FlagHeld
  <2>2. refreshing' /\ (Inline(h)' <=> ~Spawned(h)')
    BY <1>3, <2>1 DEF Cold, Stale, Become, IInv, Types, Inline, Spawned
  <2>3. \A k \in Hit \ {h} : ~Inline(k)' /\ ~Spawned(k)'
    BY <1>3, <2>1 DEF Cold, Stale, Become, IInv, Types, Inline, Spawned
  <2>4. \E g \in Hit : /\ Inline(g)' <=> ~Spawned(g)'
                       /\ \A k \in Hit \ {g} : ~Inline(k)' /\ ~Spawned(k)'
    BY <2>2, <2>3
  <2>5. FlagHeld'
    BY <2>2, <2>4 DEF FlagHeld
  <2> QED  BY <1>1, <2>5 DEF IInv
<1> QED  BY <1>1, <1>2, <1>3 DEF IInv

\* A probe that ended holds the flag until its guard is dropped.
LEMMA ProbedInv == ASSUME IInv, NEW h \in Hit, Probed(h) PROVE IInv'
<1>1. Types' /\ UNCHANGED refreshing
  BY DEF Probed, Become, IInv, Types
<1>2. VerdictServed'
  BY DEF Probed, Answer, Store, VerdictServed
<1>3. \A k \in Hit : (Inline(k)' <=> Inline(k)) /\ (Spawned(k)' <=> Spawned(k))
  BY DEF Probed, Become, IInv, Types, Inline, Spawned
<1> QED  BY <1>1, <1>2, <1>3 DEF IInv, FlagHeld

\* The guard clears the flag of the probe it belongs to, whatever became of it.
LEMMA DropInv == ASSUME IInv, NEW h \in Hit, Release(h) \/ Vanish(h) PROVE IInv'
<1>1. Types' /\ refreshing' = FALSE /\ UNCHANGED <<fresh, recent, seen>>
  BY DEF Release, Vanish, Leave, GuardDropped, Become, IInv, Types
<1>2. PICK had \in Hit : /\ Inline(had) <=> ~Spawned(had)
                         /\ \A k \in Hit \ {had} : ~Inline(k) /\ ~Spawned(k)
  BY DEF Release, Vanish, Leave, IInv, Types, FlagHeld, Inline, Spawned
<1>3. had = h
  BY <1>2 DEF Release, Vanish, Leave, Inline, Spawned
<1>4. ~Inline(h)' /\ ~Spawned(h)'
  BY <1>2, <1>3 DEF Release, Vanish, Leave, Become, IInv, Types, Inline, Spawned
<1>5. \A k \in Hit \ {h} : ~Inline(k)' /\ ~Spawned(k)'
  BY <1>2, <1>3 DEF Release, Vanish, Leave, Become, IInv, Types, Inline, Spawned
<1> QED  BY <1>1, <1>4, <1>5 DEF IInv, FlagHeld, VerdictServed

THEOREM StepInv == ASSUME IInv, [Next]_healthVars PROVE IInv'
<1>1. CASE UNCHANGED healthVars \/ Expire
  BY <1>1 DEF healthVars, Expire, IInv, Types, FlagHeld, VerdictServed, Inline, Spawned
<1>2. ASSUME NEW h \in Hit,
             Read(h) \/ Cold(h) \/ Stale(h) \/ Probed(h) \/ Release(h) \/ Vanish(h)
      PROVE  IInv'
  BY <1>2, ReadInv, TakeInv, ProbedInv, DropInv
<1> QED  BY <1>1, <1>2 DEF Next

-----------------------------------------------------------------------------
\* Results.

\* As many probes as flags: the one that has the flag, or none.
LEMMA InvFlag == IInv => FlagIsOfTheProbe
<1> SUFFICES ASSUME IInv PROVE FlagIsOfTheProbe
  OBVIOUS
<1>1. CASE ~refreshing
  <2>1. Probes = {} /\ Holding = {}
    BY <1>1 DEF IInv, FlagHeld, Inline, Spawned, Probes, Holding
  <2> QED  BY <1>1, <2>1, FS_EmptySet DEF FlagIsOfTheProbe
<1>2. CASE refreshing
  <2>1. PICK h \in Hit : /\ Inline(h) <=> ~Spawned(h)
                         /\ \A k \in Hit \ {h} : ~Inline(k) /\ ~Spawned(k)
    BY <1>2 DEF IInv, FlagHeld
  <2>2. \/ Probes = {h} /\ Holding = {}
        \/ Probes = {} /\ Holding = {h}
    BY <2>1 DEF IInv, Types, Inline, Spawned, Probes, Holding
  <2>3. Cardinality({h}) = 1 /\ Cardinality({}) = 0
    BY FS_EmptySet, FS_Singleton
  <2> QED  BY <1>2, <2>2, <2>3 DEF FlagIsOfTheProbe
<1> QED  BY <1>1, <1>2

\* The flag of the refresh is set exactly while one probe is in flight or ends,
\* also when it panics or its client goes away (ai/health_cache.rs).
THEOREM FlagAlwaysOfTheProbe == Spec => []FlagIsOfTheProbe
BY InitInv, StepInv, InvFlag, PTL DEF Spec

\* Within the time to live of a verdict no call that came after it starts a
\* probe (ai/health_cache.rs).
THEOREM ProbesStaySpaced == Spec => ProbesAreSpaced
<1>1. IInv /\ [Next]_healthVars => [Spaced]_healthVars
  BY DEF IInv, VerdictServed, Spaced
<1> QED  BY InitInv, StepInv, <1>1, PTL DEF Spec, ProbesAreSpaced
=============================================================================
