---------------------------- MODULE HealthCache ----------------------------
(***************************************************************************)
(* The cached verdict of /healthz on the AI backend (ai/health_cache.rs):  *)
(* served while fresh, served and refreshed in the background when stale,  *)
(* probed inline when there is none.  Handlers run on several threads, so  *)
(* what a hit read under the lock may be old when it takes the flag; a     *)
(* probe may answer, fail, panic, or go away with the client of a cold     *)
(* hit.  A verdict is abstracted to whether a probe gave it; time, to      *)
(* whether it is older than the time to live.                              *)
(***************************************************************************)
EXTENDS Naturals, FiniteSets

CONSTANTS Hit,       \* calls of /healthz under way at once
          MaxHits    \* bound: calls, panics and clients gone

VARIABLES cached,      \* what is cached: nothing, a failure, or a verdict
          fresh,       \* is it younger than AI_HEALTH_TTL
          refreshing,  \* the flag of the refresh in flight
          hit,         \* the calls under way
          refresh,     \* the background refreshes, by the call that spawned them
          calls,       \* calls and faults so far
          recent,      \* ghost: a probe ended within the time to live
          seen         \* ghost: the calls that read the cache since it ended

healthVars == <<cached, fresh, refreshing, hit, refresh, calls, recent, seen>>

Init == /\ cached = "none" /\ fresh = FALSE
        /\ refreshing = FALSE
        /\ hit = [h \in Hit |-> "idle"]
        /\ refresh = [h \in Hit |-> "none"]
        /\ calls = 0
        /\ recent = FALSE /\ seen = {}

Count == calls < MaxHits /\ calls' = calls + 1
Become(h, pc) == hit' = [hit EXCEPT ![h] = pc]

\* The probes in flight, and those that ended but still hold the flag.
Probes == {h \in Hit : hit[h] = "probe"} \union {h \in Hit : refresh[h] = "probe"}
Holding == {h \in Hit : hit[h] = "guard"} \union {h \in Hit : refresh[h] = "guard"}

-----------------------------------------------------------------------------
\* A fresh verdict is served at once; any other is followed by a look at the flag.
Read(h) ==
  /\ Count
  /\ hit[h] = "idle"
  /\ ~fresh
  /\ Become(h, IF cached = "none" THEN "cold" ELSE "stale")
  /\ seen' = seen \union {h}
  /\ UNCHANGED <<cached, fresh, refreshing, refresh, recent>>

\* refreshing.swap on a cold cache: the loser is told that it is warming up.
Cold(h) ==
  /\ hit[h] = "cold"
  /\ Become(h, IF refreshing THEN "idle" ELSE "probe")
  /\ refreshing' = TRUE
  /\ UNCHANGED <<cached, fresh, refresh, calls, recent, seen>>

\* spawn_refresh_if_idle
Stale(h) ==
  /\ hit[h] = "stale"
  /\ refresh' = IF refreshing THEN refresh ELSE [refresh EXCEPT ![h] = "probe"]
  /\ refreshing' = TRUE
  /\ Become(h, "idle")
  /\ UNCHANGED <<cached, fresh, calls, recent, seen>>

StoreVerdict(old, value) ==
  /\ cached' = (IF value = "failure" THEN old ELSE value)
  /\ fresh' = (value # "failure")

\* Also a failure is good for the time to live; it replaces no verdict.
Store(old, value) ==
  /\ cached' = (IF value = "failure" THEN old ELSE value)
  /\ fresh' = TRUE

Answer(old) == /\ \E value \in {"verdict", "failure"} : Store(old, value)
               /\ recent' = TRUE /\ seen' = {}

\* The probe of the cold hit, and that of the background.
Probed(h) ==
  /\ \/ /\ hit[h] = "probe"
        /\ Answer("failure")
        /\ Become(h, "guard") /\ UNCHANGED refresh
     \/ /\ refresh[h] = "probe"
        /\ Answer(cached)
        /\ refresh' = [refresh EXCEPT ![h] = "guard"] /\ UNCHANGED hit
  /\ UNCHANGED <<refreshing, calls>>

GuardForgotten == UNCHANGED refreshing

\* RefreshGuard
GuardDropped == refreshing' = FALSE

Leave(h, pc) ==
  \/ hit[h] = pc /\ Become(h, "idle") /\ UNCHANGED refresh
  \/ refresh[h] = pc /\ refresh' = [refresh EXCEPT ![h] = "none"] /\ UNCHANGED hit

Release(h) ==
  /\ Leave(h, "guard")
  /\ refreshing' = FALSE
  /\ UNCHANGED <<cached, fresh, calls, recent, seen>>

\* A probe panics, or the client that waits for it goes away.
Vanish(h) ==
  /\ Count
  /\ Leave(h, "probe")
  /\ GuardDropped
  /\ UNCHANGED <<cached, fresh, recent, seen>>

\* The time to live passes.
Expire == /\ recent
          /\ recent' = FALSE /\ fresh' = FALSE
          /\ UNCHANGED <<cached, refreshing, hit, refresh, calls, seen>>

Next == \/ \E h \in Hit : \/ Read(h) \/ Cold(h) \/ Stale(h)
                          \/ Probed(h) \/ Release(h) \/ Vanish(h)
        \/ Expire

Spec == Init /\ [][Next]_healthVars

-----------------------------------------------------------------------------
\* At most one probe is in flight; while one is, or has yet to let go of it, the
\* flag is set, and else it is clear, whatever became of the last probe: no call
\* is left with a verdict that nothing refreshes any more.
FlagIsOfTheProbe ==
  Cardinality(Probes) + Cardinality(Holding) = (IF refreshing THEN 1 ELSE 0)

\* Within the time to live of the last probe that ended, a probe is started only
\* by a call that had read the cache before that one ended: a backend that fails
\* is probed no more often than one that answers.
Spaced == \A h \in Hit : (h \in Probes' /\ h \notin Probes /\ recent) => h \notin seen
ProbesAreSpaced == [][Spaced]_healthVars
=============================================================================
