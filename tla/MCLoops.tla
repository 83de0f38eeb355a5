------------------------------ MODULE MCLoops ------------------------------
(***************************************************************************)
(* The background loops of the server that share no state, checked side by *)
(* side: a behaviour picks one of them and runs it alone, so that the      *)
(* states of one are not multiplied by those of the others.  SongNames has *)
(* its own variables; the others share v1, v2 ..., which are those of the  *)
(* loop it picked, in the order that module declares.                      *)
(***************************************************************************)
EXTENDS SongNames, FiniteSets

CONSTANTS Plate, NoPlate, Operator, MaxShows,
          Hit, MaxHits,
          StaleCycles, Capacity, MaxTroubles,
          Checker, Sustain, Spacing, Hour, MaxRebuilds, Built,
          File, Refresher, Grace, Unused, MaxAsks,
          Deck, Threshold, MaxHostEvents

VARIABLES loop, v1, v2, v3, v4, v5, v6, v7, v8, v9, v10, v11, v12

shared == <<v1, v2, v3, v4, v5, v6, v7, v8, v9, v10, v11, v12>>
loopVars == <<loop, vars, shared>>

Plates == INSTANCE Nameplates
  WITH slot <- v1, pages <- v2, op <- v3, timers <- v4, shows <- v5,
       deleted <- v6, crossed <- v7
Health == INSTANCE HealthCache
  WITH cached <- v1, fresh <- v2, refreshing <- v3, hit <- v4,
       refresh <- v5, calls <- v6, recent <- v7, seen <- v8
Tv == INSTANCE StageTv
  WITH on <- v1, listed <- v2, app <- v3, front <- v4, wanted <- v5,
       queue <- v6, worker <- v7, shown <- v8, stale <- v9, troubles <- v10,
       adrift <- v11, overtaken <- v12
Drift == INSTANCE DriftGuard
  WITH encoder <- v1, guard <- v2, checks <- v3, rebuilds <- v4, over <- v5
Drive == INSTANCE DriveMirror
  WITH Request <- Refresher, disk <- v1, manifest <- v2, page <- v3,
       mirror <- v4, referenced <- v5, changed <- v6, nudged <- v7,
       pending <- v8, extra <- v9, refresh <- v10, asks <- v11, excused <- v12
Host == INSTANCE ResolumeHost
  WITH MaxEvents <- MaxHostEvents, arena <- v1, mapping <- v2, lane <- v3,
       tracked <- v4, connected <- v5, health <- v6, push <- v7,
       sure <- v8, unsaid <- v9, fetches <- v10, events <- v11

\* What the proofs need of the constants (LoopsProof): the limits are numbers,
\* NULL is none of the values it stands in for, and pipelines that the checks
\* under way still know are told apart from a new one.
ASSUME TvAssumption == StaleCycles \in Nat
ASSUME DriftAssumption ==
  /\ Sustain \in Nat /\ Spacing \in Nat /\ MaxRebuilds \in Nat /\ Hour \in Nat \ {0}
  /\ IsFiniteSet(Checker) /\ IsFiniteSet(Built)
  /\ Cardinality(Built) > Cardinality(Checker) + 2
ASSUME DriveAssumption == Grace \in Nat /\ Unused \in Nat
ASSUME HostAssumption ==
  /\ Deck # {} /\ Threshold \in Nat
  /\ NULL \notin Host!Levels /\ NULL \notin Host!Clip /\ NULL \notin Host!Mappings

NamesRuns == loop = "names" /\ UNCHANGED <<loop, shared>>
PlatesRuns == loop = "plates" /\ UNCHANGED <<loop, vars, v8, v9, v10, v11, v12>>
HealthRuns == loop = "health" /\ UNCHANGED <<loop, vars, v9, v10, v11, v12>>
TvRuns == loop = "tv" /\ UNCHANGED <<loop, vars>>
DriftRuns == loop = "drift" /\ UNCHANGED <<loop, vars, v6, v7, v8, v9, v10, v11, v12>>
DriveRuns == loop = "drive" /\ UNCHANGED <<loop, vars>>
HostRuns == loop = "host" /\ UNCHANGED <<loop, vars, v12>>

MCInit ==
  /\ Init
  /\ \/ /\ loop = "names"
        /\ v1 = NULL /\ v2 = NULL /\ v3 = NULL /\ v4 = NULL /\ v5 = NULL /\ v6 = NULL
        /\ v7 = NULL /\ v8 = NULL /\ v9 = NULL /\ v10 = NULL /\ v11 = NULL /\ v12 = NULL
     \/ /\ loop = "plates" /\ Plates!Init
        /\ v8 = NULL /\ v9 = NULL /\ v10 = NULL /\ v11 = NULL /\ v12 = NULL
     \/ /\ loop = "health" /\ Health!Init
        /\ v9 = NULL /\ v10 = NULL /\ v11 = NULL /\ v12 = NULL
     \/ /\ loop = "tv" /\ Tv!Init
     \/ /\ loop = "drift" /\ Drift!Init
        /\ v6 = NULL /\ v7 = NULL /\ v8 = NULL /\ v9 = NULL /\ v10 = NULL /\
           v11 = NULL /\ v12 = NULL
     \/ /\ loop = "drive" /\ Drive!Init
     \/ /\ loop = "host" /\ Host!Init
        /\ v12 = NULL

MCNext == \/ NamesRuns /\ Next
          \/ PlatesRuns /\ Plates!Next
          \/ HealthRuns /\ Health!Next
          \/ TvRuns /\ Tv!Next
          \/ DriftRuns /\ Drift!Next
          \/ DriveRuns /\ Drive!Next
          \/ HostRuns /\ Host!Next

\* The fairness each of the two loops states of itself.
MCFairness == /\ WF_loopVars(TvRuns /\ Tv!Cycle)
              /\ WF_loopVars(TvRuns /\ Tv!Tick)
              /\ SF_loopVars(TvRuns /\ Tv!Command)
              /\ WF_loopVars(DriveRuns /\ Drive!Pass)
              /\ SF_loopVars(DriveRuns /\ Drive!TakeNudge)

MCSpec == MCInit /\ [][MCNext]_loopVars /\ MCFairness

-----------------------------------------------------------------------------
\* NamesAreCurrent and NoNudgeLost are stated in SongNames.

\* An auto-hide takes no other plate for its own (Nameplates).
WakesForItsPlate == loop = "plates" => Plates!WakesForItsPlate

\* The output pages show the plate on air (Nameplates).
PagesShowTheSlot == loop = "plates" => Plates!PagesShowTheSlot

\* One probe of the AI backend at a time, and never none for ever (HealthCache).
FlagIsOfTheProbe == loop = "health" => Health!FlagIsOfTheProbe

\* A failing AI backend is not probed by every call (HealthCache).
ProbesAreSpaced == [][loop = "health" => Health!Spaced]_loopVars

\* Only what was given up and went on takes a current stage app down (StageTv).
CurrentAppStays == [][loop = "tv" => Tv!AppStays]_loopVars

\* Only a display stuck as offline is disconnected (StageTv).
DisconnectsStuckOnly == loop = "tv" => Tv!DisconnectsStuckOnly

\* A display that stays on shows the stage in the end (StageTv).
StageComesBack == <>[](loop = "tv" /\ Tv!Stays) => <>[](loop = "tv" /\ v4)

\* Drift rebuilds keep their spacing and their budget (DriftGuard).
RebuildsAreSpaced == loop = "drift" => Drift!RebuildsAreSpaced

\* A drift rebuild is asked of a pipeline for its own lead (DriftGuard).
RebuildsAreEarned == [][loop = "drift" => Drift!Earned]_loopVars

\* What a fresh playlist names is served (DriveMirror).
FreshPlaylistsAreServed == loop = "drive" => Drive!FreshPlaylistsAreServed

\* No folder is shown as being synced for ever (DriveMirror).
Marked == loop = "drive" /\ v8
MarksEnd == Marked ~> ~Marked

\* A verse is never written into the clip that is on air (ResolumeHost).
LiveTextStays == loop = "host" => Host!LiveTextStays

\* A verse is connected at full opacity whatever clears did (ResolumeHost).
VersesAreVisible == loop = "host" => Host!VersesAreVisible

\* The composition is fetched once for every cause to fetch it (ResolumeHost).
FetchesAreEarned == loop = "host" => Host!FetchesAreEarned
=============================================================================
