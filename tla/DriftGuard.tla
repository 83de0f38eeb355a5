----------------------------- MODULE DriftGuard -----------------------------
(***************************************************************************)
(* The self-heal of an encoder whose timestamps run ahead of the clock     *)
(* (presenter-ndi/src/manager/drift_guard.rs, supervisor.rs): on its ticks *)
(* a supervisor reads the lead of the pipeline, and the memory of its      *)
(* source, shared by all supervisors it ever has, says whether to rebuild. *)
(* A supervisor that is being replaced may still be in its check while the *)
(* next one is in its first, and the pipeline may die, or be replaced, at  *)
(* any step.                                                               *)
(*                                                                         *)
(* Time is counted in windows of the lead meter (30 seconds); a lead that  *)
(* is missing, between the two limits, or of a window of start-up is       *)
(* neutral.  A check does not wait, so no time passes while one is under   *)
(* way.  Logging is left out.                                              *)
(***************************************************************************)
EXTENDS Naturals, Sequences

CONSTANTS Checker,      \* supervisors in their check at once
          NULL,
          Sustain,      \* SUSTAIN_TICKS
          Spacing,      \* MIN_SPACING, in windows
          Hour,         \* BUDGET_WINDOW, in windows
          MaxRebuilds,  \* MAX_REBUILDS_PER_HOUR
          Built         \* bound: pipelines told apart, more than are held at once

VARIABLES encoder,   \* the pipeline of the source: generation, windows old, streaming
          guard,     \* DriftGuard
          checks,    \* the checks under way
          rebuilds,  \* ghost: windows since each drift rebuild of the last hour
          over       \* ghost: windows over the trigger of this pipeline since it was clear

driftVars == <<encoder, guard, checks, rebuilds, over>>

NoCheck == [pc |-> "idle"]

Init == /\ encoder = [generation |-> CHOOSE g \in Built : TRUE, age |-> 0, streaming |-> TRUE]
        /\ guard = [generation |-> NULL, ticks |-> 0, fires |-> <<>>]
        /\ checks = [c \in Checker |-> NoCheck]
        /\ rebuilds = <<>> /\ over = 0

UpTo(n, max) == IF n < max THEN n ELSE max
Older(ages) == [i \in DOMAIN ages |-> UpTo(ages[i] + 1, Hour)]

\* The front is dropped while it is an hour old.
Begins(ages, i) == /\ \A j \in 1..(i - 1) : ages[j] >= Hour
                   /\ i <= Len(ages) => ages[i] < Hour
Recent(ages) == SubSeq(ages, CHOOSE i \in 1..(Len(ages) + 1) : Begins(ages, i), Len(ages))

Window == /\ \A c \in Checker : checks[c] = NoCheck
          /\ encoder' = [encoder EXCEPT !.age = 1]
          /\ guard' = [guard EXCEPT !.fires = Older(@)]
          /\ rebuilds' = Recent(Older(rebuilds))
          /\ UNCHANGED <<checks, over>>

Die == /\ encoder.streaming
       /\ encoder' = [encoder EXCEPT !.streaming = FALSE]
       /\ UNCHANGED <<guard, checks, rebuilds, over>>

ForgetSource == guard' = [generation |-> NULL, ticks |-> 0, fires |-> <<>>]

\* The memory belongs to the source, in the manager, not to the supervisor.
KeepSource == UNCHANGED guard

\* A new pipeline, by the supervisor of the dead one or by a start with a new one.
Replace ==
  LET held == {encoder.generation, guard.generation}
                \union {checks[c].generation : c \in {d \in Checker : checks[d] # NoCheck}}
  IN  /\ encoder' = [generation |-> CHOOSE g \in Built : g \notin held,
                     age |-> 0, streaming |-> TRUE]
      /\ KeepSource
      /\ over' = 0
      /\ UNCHANGED <<checks, rebuilds>>

-----------------------------------------------------------------------------
(* drift_check *)

ReadLead(c) ==
  /\ checks[c] = NoCheck
  /\ encoder.streaming
  /\ \E lead \in {"clear", "neutral", "over"} :
       /\ encoder.age = 0 => lead = "neutral"
       /\ checks' = [checks EXCEPT ![c] = [pc |-> "tick", lead |-> lead,
                                           generation |-> encoder.generation]]
  /\ UNCHANGED <<encoder, guard, rebuilds, over>>

AnyPipeline(check) == guard.ticks

\* DriftGuard.observe: the count belongs to one pipeline.
Observed(check) == IF guard.generation = check.generation THEN guard.ticks ELSE 0

Counts(check) == check.lead \in {"clear", "over"}
Counted(ticks, lead) == IF lead = "over" THEN UpTo(ticks + 1, Sustain) ELSE 0

\* A rebuild is due, and neither the last one nor those of the hour forbid it.
Allowed(fires) == /\ fires # <<>> => fires[Len(fires)] >= Spacing
                  /\ Len(fires) < MaxRebuilds

\* DriftGuard.on_tick
OnTick(c) ==
  LET check == checks[c]
      seen == Observed(check)
      ticks == IF Counts(check) THEN Counted(seen, check.lead) ELSE seen
      due == Counts(check) /\ check.lead = "over" /\ ticks >= Sustain
      fires == IF due THEN Recent(guard.fires) ELSE guard.fires
  IN  /\ check.pc = "tick"
      /\ guard' = [generation |-> check.generation, ticks |-> ticks, fires |-> fires]
      /\ checks' = [checks EXCEPT ![c] = IF due /\ Allowed(fires)
                                           THEN [check EXCEPT !.pc = "request"]
                                           ELSE NoCheck]
      /\ over' = IF Counts(check) /\ check.generation = encoder.generation
                   THEN Counted(over, check.lead) ELSE over
      /\ UNCHANGED <<encoder, rebuilds>>

\* request_self_heal_rebuild: a pipeline that no longer streams refuses.
Request(c) ==
  LET check == checks[c]
      confirmed == encoder.generation = check.generation /\ encoder.streaming
  IN  /\ check.pc = "request"
      /\ encoder' = [encoder EXCEPT !.streaming = @ /\ ~confirmed]
      /\ rebuilds' = IF confirmed THEN Append(rebuilds, 0) ELSE rebuilds
      /\ checks' = [checks EXCEPT ![c] = IF confirmed THEN [check EXCEPT !.pc = "record"]
                                         ELSE NoCheck]
      /\ UNCHANGED <<guard, over>>

\* DriftGuard.record_rebuild
Record(c) ==
  /\ checks[c].pc = "record"
  /\ guard' = [guard EXCEPT !.ticks = 0, !.fires = Append(@, 0)]
  /\ checks' = [checks EXCEPT ![c] = NoCheck]
  /\ UNCHANGED <<encoder, rebuilds, over>>

Next == \/ Window \/ Die \/ Replace
        \/ \E c \in Checker : ReadLead(c) \/ OnTick(c) \/ Request(c) \/ Record(c)

Spec == Init /\ [][Next]_driftVars

-----------------------------------------------------------------------------
\* A drift rebuild blanks every display of the site: no two are less than the
\* spacing apart and no hour has more than its budget, whichever supervisors
\* asked for them and however often the pipeline was replaced (#854).
RebuildsAreSpaced ==
  /\ Len(rebuilds) <= MaxRebuilds
  /\ \A i \in 2..Len(rebuilds) : rebuilds[i - 1] >= rebuilds[i] + Spacing

\* A rebuild is asked of a pipeline only after two windows over the trigger of
\* its own, with none that was clear since: none is counted from the pipeline
\* before it, nor from the first seconds of its life.
Earned ==
  \A c \in Checker :
    (/\ checks'[c].pc = "request" /\ checks[c].pc = "tick"
     /\ checks[c].generation = encoder.generation) => over' >= Sustain
RebuildsAreEarned == [][Earned]_driftVars

-----------------------------------------------------------------------------
(* The inductive invariant of the proofs (LoopsProof). *)

Check == [pc : {"tick", "request", "record"}, lead : {"clear", "neutral", "over"},
          generation : Built]

Types == /\ encoder \in [generation : Built, age : Nat, streaming : BOOLEAN]
         /\ guard \in [generation : Built \union {NULL}, ticks : Nat, fires : Seq(Nat)]
         /\ checks \in [Checker -> Check \union {NoCheck}]
         /\ rebuilds \in Seq(Nat) /\ over \in Nat

\* The windows the guard counts of the pipeline are windows of the pipeline.
CountOK == guard.generation = encoder.generation => guard.ticks <= over

Pending == \E c \in Checker : checks[c].pc = "record"

\* While a rebuild is still to be recorded no other one is confirmed: the
\* pipeline after it is too young for its lead to count.
PendingOK ==
  \A c \in Checker : checks[c].pc = "record" =>
    /\ \A d \in Checker \ {c} : checks[d].pc # "record"
    /\ encoder.streaming =>
         /\ encoder.age = 0
         /\ \A d \in Checker : checks[d] # NoCheck /\ checks[d].generation = encoder.generation
              => checks[d].pc = "tick" /\ checks[d].lead = "neutral"

\* A check that will be confirmed was allowed by what is known now.
RequestsOK ==
  \A c \in Checker :
    (/\ checks[c].pc = "request" /\ encoder.streaming
     /\ checks[c].generation = encoder.generation) => Allowed(rebuilds)

\* The guard holds the rebuilds of the hour, but for one still to be recorded.
FiresOK ==
  \E k \in 0..Len(guard.fires) :
    LET held == Len(guard.fires) - k
    IN  /\ Begins(guard.fires, k + 1)
        /\ \A i \in 1..held : rebuilds[i] = guard.fires[k + i]
        /\ IF Pending THEN Len(rebuilds) = held + 1 /\ rebuilds[held + 1] = 0
           ELSE Len(rebuilds) = held

SpacingOK == /\ Len(rebuilds) <= MaxRebuilds
             /\ \A i, j \in 1..Len(rebuilds) : i < j => rebuilds[i] >= rebuilds[j] + Spacing

IInv == Types /\ CountOK /\ PendingOK /\ RequestsOK /\ FiresOK /\ SpacingOK
=============================================================================
