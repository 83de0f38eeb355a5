------------------------------ MODULE LoopsProof ------------------------------
(***************************************************************************)
(* The background loops, for any constants that satisfy the assumptions of *)
(* MCLoops: each loop has an inductive invariant, stated in its own module, *)
(* that holds while a behaviour runs that loop.                            *)
(***************************************************************************)
EXTENDS MCLoops, TLAPS, FiniteSetTheorems, WellFoundedInduction, SequenceTheorems,
        FunctionTheorems

LEMMA LoopSteps ==
  ASSUME [MCNext]_loopVars
  PROVE  /\ loop' = loop
         /\ loop = "plates" => [Plates!Next]_(Plates!vars)
         /\ loop = "health" => [Health!Next]_(Health!healthVars)
         /\ loop = "tv" => [Tv!Next]_(Tv!tvVars)
         /\ loop = "drift" => [Drift!Next]_(Drift!driftVars)
         /\ loop = "drive" => [Drive!Next]_(Drive!driveVars)
         /\ loop = "host" => [Host!Next]_(Host!hostVars)
BY DEF MCNext, NamesRuns, PlatesRuns, HealthRuns, TvRuns, DriftRuns, DriveRuns, HostRuns,
       loopVars, shared, Plates!vars, Health!healthVars, Tv!tvVars, Drift!driftVars,
       Drive!driveVars, Host!hostVars, Host!driver, Host!ghosts

LEMMA LoopInits ==
  ASSUME MCInit
  PROVE  /\ loop = "plates" => Plates!Init
         /\ loop = "health" => Health!Init
         /\ loop = "tv" => Tv!Init
         /\ loop = "drift" => Drift!Init
         /\ loop = "drive" => Drive!Init
         /\ loop = "host" => Host!Init
BY DEF MCInit

-----------------------------------------------------------------------------
(* The nameplates of an output and the AI health cache: what NameplatesProof    *)
(* and HealthCacheProof prove of their modules, of the loops that run here.     *)

PP == INSTANCE NameplatesProof
  WITH slot <- v1, pages <- v2, op <- v3, timers <- v4, shows <- v5,
       deleted <- v6, crossed <- v7
HP == INSTANCE HealthCacheProof
  WITH cached <- v1, fresh <- v2, refreshing <- v3, hit <- v4,
       refresh <- v5, calls <- v6, recent <- v7, seen <- v8

LEMMA PlatesSame ==
  /\ PP!Init <=> Plates!Init
  /\ PP!Next <=> Plates!Next
  /\ PP!vars = Plates!vars
  /\ PP!WakesForItsPlate <=> Plates!WakesForItsPlate
  /\ PP!PagesShowTheSlot <=> Plates!PagesShowTheSlot
<1> USE DEF PP!Dark, Plates!Dark, PP!Resting, Plates!Resting, PP!NoSlot, Plates!NoSlot,
            PP!Untold, Plates!Untold
<1>1. PP!Init <=> Plates!Init
  BY DEF PP!Init, Plates!Init
<1>2. PP!Next <=> Plates!Next
  BY DEF PP!Next, Plates!Next, PP!Show, Plates!Show, PP!Hide, Plates!Hide,
         PP!Toggle, Plates!Toggle, PP!NextSeq, Plates!NextSeq,
         PP!Allocate, Plates!Allocate, PP!Set, Plates!Set, PP!Publish, Plates!Publish,
         PP!Schedule, Plates!Schedule, PP!Evict, Plates!Evict, PP!Remove, Plates!Remove,
         PP!Advance, Plates!Advance, PP!Wake, Plates!Wake, PP!Clear, Plates!Clear,
         PP!Tell, Plates!Tell, PP!Begin, Plates!Begin, PP!Goto, Plates!Goto,
         PP!Finish, Plates!Finish
<1>3. PP!vars = Plates!vars
  BY DEF PP!vars, Plates!vars
<1>4. PP!WakesForItsPlate <=> Plates!WakesForItsPlate
  BY DEF PP!WakesForItsPlate, Plates!WakesForItsPlate
<1>5. PP!PagesShowTheSlot <=> Plates!PagesShowTheSlot
  BY DEF PP!PagesShowTheSlot, Plates!PagesShowTheSlot
<1> QED  BY <1>1, <1>2, <1>3, <1>4, <1>5

PlatesInv == loop = "plates" => PP!PInv

LEMMA PlatesInvariant == MCSpec => []PlatesInv
<1>1. MCInit => PlatesInv
  BY LoopInits, PlatesSame, PP!InitInv, PP!InitPages DEF PlatesInv, PP!PInv
<1>2. PlatesInv /\ [MCNext]_loopVars => PlatesInv'
  <2> SUFFICES ASSUME loop = "plates", PP!PInv, [MCNext]_loopVars PROVE PP!PInv'
    BY LoopSteps DEF PlatesInv
  <2>1. PP!Next \/ UNCHANGED PP!vars
    BY LoopSteps, PlatesSame DEF PP!vars, Plates!vars
  <2> QED  BY <2>1, PP!StepPages
<1> QED  BY <1>1, <1>2, PTL DEF MCSpec

\* An auto-hide takes no other plate for its own (state/stream_nameplates.rs).
THEOREM AutoHidesWakeForTheirPlate == MCSpec => []WakesForItsPlate
<1>1. PlatesInv => WakesForItsPlate
  BY PlatesSame, PP!InvWakes DEF PlatesInv, PP!PInv, WakesForItsPlate
<1> QED  BY <1>1, PlatesInvariant, PTL

\* The pages show the plate that is on air whenever every change is published,
\* unless two overlapped and none was made alone since
\* (state/stream_nameplates.rs, publish_nameplate).
THEOREM OutputPagesShowTheSlot == MCSpec => []PagesShowTheSlot
<1>1. PlatesInv => PagesShowTheSlot
  BY PlatesSame, PP!InvPages DEF PlatesInv, PP!PInv, PagesShowTheSlot
<1> QED  BY <1>1, PlatesInvariant, PTL

LEMMA HealthSame ==
  /\ HP!Init <=> Health!Init
  /\ HP!Next <=> Health!Next
  /\ HP!healthVars = Health!healthVars
  /\ HP!FlagIsOfTheProbe <=> Health!FlagIsOfTheProbe
  /\ HP!Spaced <=> Health!Spaced
<1>1. HP!Init <=> Health!Init
  BY DEF HP!Init, Health!Init
<1>2. HP!Next <=> Health!Next
  BY DEF HP!Next, Health!Next, HP!Count, Health!Count, HP!Become, Health!Become,
         HP!Read, Health!Read, HP!Cold, Health!Cold, HP!Stale, Health!Stale,
         HP!Store, Health!Store, HP!Answer, Health!Answer, HP!Probed, Health!Probed,
         HP!GuardDropped, Health!GuardDropped, HP!Leave, Health!Leave,
         HP!Release, Health!Release, HP!Vanish, Health!Vanish, HP!Expire, Health!Expire
<1>3. HP!healthVars = Health!healthVars
  BY DEF HP!healthVars, Health!healthVars
<1>4. HP!Probes = Health!Probes /\ HP!Holding = Health!Holding
      /\ HP!Probes' = Health!Probes'
  BY DEF HP!Probes, Health!Probes, HP!Holding, Health!Holding
<1>5. HP!FlagIsOfTheProbe <=> Health!FlagIsOfTheProbe
  <2>1. \A S : HP!Cardinality(S) = Health!Cardinality(S)
    BY DEF HP!Cardinality, Health!Cardinality
  <2> QED  BY <1>4, <2>1 DEF HP!FlagIsOfTheProbe, Health!FlagIsOfTheProbe
<1>6. HP!Spaced <=> Health!Spaced
  BY <1>4 DEF HP!Spaced, Health!Spaced
<1> QED  BY <1>1, <1>2, <1>3, <1>5, <1>6

HealthInv == loop = "health" => HP!IInv

LEMMA HealthInvariant == MCSpec => []HealthInv
<1>1. MCInit => HealthInv
  BY LoopInits, HealthSame, HP!InitInv DEF HealthInv
<1>2. HealthInv /\ [MCNext]_loopVars => HealthInv'
  <2> SUFFICES ASSUME loop = "health", HP!IInv, [MCNext]_loopVars PROVE HP!IInv'
    BY LoopSteps DEF HealthInv
  <2>1. HP!Next \/ UNCHANGED HP!healthVars
    BY LoopSteps, HealthSame DEF HP!healthVars, Health!healthVars
  <2> QED  BY <2>1, HP!StepInv
<1> QED  BY <1>1, <1>2, PTL DEF MCSpec

\* The flag of the refresh is that of the one probe there is, also of one that
\* panics or whose client goes away (ai/health_cache.rs).
THEOREM RefreshFlagIsOfTheProbe == MCSpec => []FlagIsOfTheProbe
<1>1. HealthInv => FlagIsOfTheProbe
  BY HealthSame, HP!InvFlag DEF HealthInv, FlagIsOfTheProbe
<1> QED  BY <1>1, HealthInvariant, PTL

\* A failing backend is probed no more often than one that answers
\* (ai/health_cache.rs, AI_HEALTH_TTL).
THEOREM ProbesAreAlwaysSpaced == MCSpec => ProbesAreSpaced
<1>1. ASSUME HP!IInv, [HP!Next]_(HP!healthVars) PROVE HP!Spaced
  BY <1>1 DEF HP!IInv, HP!VerdictServed, HP!Spaced, HP!Probes, HP!healthVars
<1>2. HealthInv /\ [MCNext]_loopVars => [loop = "health" => Health!Spaced]_loopVars
  <2> SUFFICES ASSUME loop = "health", HP!IInv, [MCNext]_loopVars PROVE Health!Spaced
    BY DEF HealthInv
  <2>1. HP!Next \/ UNCHANGED HP!healthVars
    BY LoopSteps, HealthSame DEF HP!healthVars, Health!healthVars
  <2> QED  BY <1>1, <2>1, HealthSame
<1> QED  BY <1>2, HealthInvariant, PTL DEF MCSpec, ProbesAreSpaced

-----------------------------------------------------------------------------
(* The worker of an Android display. *)

LEMMA TvInitInv == Tv!Init => Tv!IInv
BY TvAssumption
   DEF Tv!Init, Tv!IInv, Tv!Types, Tv!AdriftOK, Tv!StreakOK, Tv!ReplacesOK, Tv!At

\* Every command adrift was given up, and gets through once.
LEMMA TvAdriftInv == ASSUME Tv!IInv, [Tv!Next]_(Tv!tvVars) PROVE Tv!AdriftOK'
<1>1. v11 \in [Tv!Commands -> Nat]
  BY DEF Tv!IInv, Tv!AdriftOK
<1>2. ASSUME NEW c \in Tv!Commands, v11' = [v11 EXCEPT ![c] = @ + 1] PROVE Tv!AdriftOK'
  BY <1>1, <1>2 DEF Tv!AdriftOK
<1>3. ASSUME NEW c \in Tv!Commands, Tv!GetsThrough(c) PROVE Tv!AdriftOK'
  <2>1. v11[c] \in Nat /\ v11[c] > 0 /\ v11' = [v11 EXCEPT ![c] = @ - 1]
    BY <1>1, <1>3 DEF Tv!GetsThrough
  <2>2. v11[c] - 1 \in Nat
    BY <2>1
  <2> QED  BY <1>1, <2>1, <2>2 DEF Tv!AdriftOK
<1>4. CASE v11' = v11
  BY <1>1, <1>4 DEF Tv!AdriftOK
<1>5. /\ "connect" \in Tv!Commands /\ "disconnect" \in Tv!Commands
      /\ "install" \in Tv!Commands /\ "uninstall" \in Tv!Commands
      /\ "launch" \in Tv!Commands
  BY DEF Tv!Commands
<1>6. ASSUME NEW c \in Tv!Commands, Tv!GivenUp(c) \/ Tv!Fails(c) PROVE Tv!AdriftOK'
  BY <1>2, <1>4, <1>6 DEF Tv!GivenUp, Tv!Fails, Tv!abroad
<1>7. CASE Tv!Late
  BY <1>3, <1>5, <1>7
     DEF Tv!Late, Tv!LateConnect, Tv!LateDisconnect, Tv!LateInstall, Tv!LateUninstall,
         Tv!LateLaunch
<1>8. CASE \/ Tv!Disconnect \/ Tv!Connect
           \/ Tv!Install \/ Tv!Uninstall \/ Tv!CleanInstall \/ Tv!Launch
  BY <1>4, <1>5, <1>6, <1>8
     DEF Tv!Disconnect, Tv!Connect, Tv!Install, Tv!Uninstall, Tv!CleanInstall, Tv!Launch,
         Tv!abroad
<1>9. CASE \/ Tv!Display \/ Tv!Registry \/ Tv!Tick \/ Tv!Command
           \/ Tv!List \/ Tv!Path \/ Tv!Version \/ Tv!Front \/ UNCHANGED Tv!tvVars
  BY <1>4, <1>9
     DEF Tv!Display, Tv!Registry, Tv!SwitchOff, Tv!SwitchOn, Tv!Prompt, Tv!Accept,
         Tv!Resurface, Tv!LaunchNow, Tv!Save, Tv!Tick, Tv!Command, Tv!List, Tv!Path,
         Tv!Version, Tv!Front, Tv!abroad, Tv!tvVars
<1> QED  BY <1>7, <1>8, <1>9 DEF Tv!Next, Tv!Cycle

\* The rest of the invariant.
TvCore == Tv!Types /\ Tv!StreakOK /\ Tv!ReplacesOK

LEMMA TvDisplayInv ==
  ASSUME Tv!IInv, Tv!Display \/ Tv!Registry \/ UNCHANGED Tv!tvVars PROVE TvCore'
<1>1. UNCHANGED <<v7, v9, v3, v12>>
  BY DEF Tv!Display, Tv!Registry, Tv!SwitchOff, Tv!SwitchOn, Tv!Prompt, Tv!Accept,
         Tv!Resurface, Tv!LaunchNow, Tv!Save, Tv!tv, Tv!settings, Tv!abroad, Tv!tvVars
<1> QED  BY <1>1 DEF TvCore, Tv!IInv, Tv!Types, Tv!StreakOK, Tv!ReplacesOK, Tv!At

LEMMA TvBeginInv == ASSUME Tv!IInv, Tv!Tick \/ Tv!Command PROVE TvCore'
<1> USE DEF TvCore, Tv!IInv, Tv!Types, Tv!StreakOK, Tv!ReplacesOK, Tv!At
<1>1. CASE Tv!Tick
  BY <1>1 DEF Tv!Tick, Tv!tv, Tv!settings, Tv!abroad
<1>2. CASE Tv!Command /\ Head(v6) = "launch"
  BY <1>2 DEF Tv!Command, Tv!tv, Tv!abroad
<1>3. CASE Tv!Command /\ Head(v6) = "enable"
  <2>1. v7' = [v7 EXCEPT !.enabled = TRUE, !.stuck = 0]
    BY <1>3 DEF Tv!Command
  <2>2. v3' = v3 /\ v9' = 0 /\ v7.pc = "idle"
    BY <1>3 DEF Tv!Command, Tv!tv
  <2>3. v7' = [pc |-> "idle", enabled |-> TRUE, forced |-> v7.forced, stuck |-> 0]
    BY <2>1, <2>2
  <2> QED  BY <2>2, <2>3
<1>4. CASE Tv!Command /\ Head(v6) \notin {"launch", "enable"}
  <2>1. v7' = [v7 EXCEPT !.enabled = FALSE, !.stuck = 0]
    BY <1>4 DEF Tv!Command
  <2>2. v3' = v3 /\ v9' = 0 /\ v7.pc = "idle"
    BY <1>4 DEF Tv!Command, Tv!tv
  <2>3. v7' = [pc |-> "idle", enabled |-> FALSE, forced |-> v7.forced, stuck |-> 0]
    BY <2>1, <2>2
  <2> QED  BY <2>2, <2>3
<1> QED  BY <1>1, <1>2, <1>3, <1>4

LEMMA TvListInv == ASSUME Tv!IInv, Tv!List PROVE TvCore'
<1>1. PICK state : LET stuck == Tv!Stuck(state) IN
        /\ v9' = IF state = "offline" THEN v9 + 1 ELSE 0
        /\ v7' = [v7 EXCEPT
             !.stuck = IF stuck >= StaleCycles THEN 0 ELSE stuck,
             !.pc = IF state = "device" THEN "path"
                    ELSE IF stuck >= StaleCycles THEN "disconnect" ELSE "connect"]
  BY DEF Tv!List
<1> USE DEF Tv!IInv, Tv!Types, Tv!StreakOK, Tv!ReplacesOK, Tv!At
<1>2. Tv!Stuck(state) \in Nat /\ Tv!Stuck(state) <= v9' /\ v9' \in Nat
  BY <1>1 DEF Tv!Stuck
<1> DEFINE stuck == IF Tv!Stuck(state) >= StaleCycles THEN 0 ELSE Tv!Stuck(state)
           pc == IF state = "device" THEN "path"
                 ELSE IF Tv!Stuck(state) >= StaleCycles THEN "disconnect" ELSE "connect"
<1>3. /\ stuck \in Nat /\ stuck <= v9'
      /\ pc \in {"path", "disconnect", "connect"}
      /\ pc = "disconnect" => stuck = 0 /\ v9' >= StaleCycles
  BY <1>2, TvAssumption
<1>4. v7' = [v7 EXCEPT !.stuck = stuck, !.pc = pc]
  BY <1>1
<1> HIDE DEF stuck, pc
<1> QED  BY <1>2, <1>3, <1>4 DEF Tv!List, Tv!tv, Tv!abroad, TvCore

LEMMA TvConnectInv == ASSUME Tv!IInv, Tv!Disconnect \/ Tv!Connect PROVE TvCore'
<1>1. UNCHANGED <<v3, v12>>
  BY DEF Tv!Disconnect, Tv!Connect, Tv!GivenUp, Tv!abroad
<1> QED  BY <1>1 DEF Tv!Disconnect, Tv!Connect, Tv!Step, Tv!End, TvCore, Tv!IInv, Tv!Types,
                     Tv!StreakOK, Tv!ReplacesOK, Tv!At, Tv!settings

\* What is read is what the worker acts on.
LEMMA TvReadInv == ASSUME Tv!IInv, Tv!Path \/ Tv!Version PROVE TvCore'
BY DEF Tv!Path, Tv!Version, Tv!TakenForUnknown, Tv!Step, Tv!End, TvCore, Tv!IInv, Tv!Types,
       Tv!StreakOK, Tv!ReplacesOK, Tv!At, Tv!tv, Tv!settings

\* A command that fails leaves the app, and whether it was overtaken, as they are.
LEMMA TvFails == ASSUME NEW c, Tv!Fails(c) PROVE v12' = v12
BY DEF Tv!Fails, Tv!GivenUp, Tv!abroad

LEMMA TvInstallInv ==
  ASSUME Tv!IInv, Tv!Install \/ Tv!Uninstall \/ Tv!CleanInstall
  PROVE  TvCore'
<1>1. v12' = v12
  BY TvFails DEF Tv!Install, Tv!Uninstall, Tv!CleanInstall, Tv!abroad
<1> QED  BY <1>1 DEF Tv!Install, Tv!Uninstall, Tv!CleanInstall, Tv!Step, Tv!End, TvCore,
                     Tv!IInv, Tv!Types, Tv!StreakOK, Tv!ReplacesOK, Tv!At, Tv!settings

LEMMA TvLaunchInv == ASSUME Tv!IInv, Tv!Front \/ Tv!Launch PROVE TvCore'
<1>1. v12' = v12
  BY TvFails DEF Tv!Front, Tv!Launch, Tv!abroad
<1> QED  BY <1>1 DEF Tv!Front, Tv!Launch, Tv!Step, Tv!End, TvCore, Tv!IInv, Tv!Types,
                     Tv!StreakOK, Tv!ReplacesOK, Tv!At, Tv!tv, Tv!settings

\* A late install leaves a current app, and says so; a late uninstall leaves none.
LEMMA TvLateInv == ASSUME Tv!IInv, Tv!Late PROVE TvCore'
<1>1. /\ UNCHANGED <<v7, v9>>
      /\ \/ v3' = v3 /\ v12' = v12
         \/ v12' = TRUE
         \/ v3' = "none"
  <2>1. ASSUME NEW c, Tv!GetsThrough(c) PROVE UNCHANGED <<v7, v9>>
    BY <2>1 DEF Tv!GetsThrough
  <2> QED
    BY <2>1 DEF Tv!Late, Tv!LateConnect, Tv!LateDisconnect, Tv!LateInstall,
                Tv!LateUninstall, Tv!LateLaunch
<1> QED  BY <1>1 DEF TvCore, Tv!IInv, Tv!Types, Tv!StreakOK, Tv!ReplacesOK, Tv!At

LEMMA TvStepInv == ASSUME Tv!IInv, [Tv!Next]_(Tv!tvVars) PROVE Tv!IInv'
<1>1. TvCore'
  BY TvDisplayInv, TvBeginInv, TvListInv, TvConnectInv, TvReadInv, TvInstallInv,
     TvLaunchInv, TvLateInv
     DEF Tv!Next, Tv!Cycle
<1>2. Tv!AdriftOK'
  BY TvAdriftInv
<1> QED  BY <1>1, <1>2 DEF TvCore, Tv!IInv

\* Only the steps that replace the app touch it, and what was given up.
LEMMA TvAppStays == ASSUME Tv!IInv, [Tv!Next]_(Tv!tvVars) PROVE Tv!AppStays
<1>1. CASE Tv!Install \/ Tv!Uninstall \/ Tv!CleanInstall
  BY <1>1 DEF Tv!Install, Tv!Uninstall, Tv!CleanInstall, Tv!IInv, Tv!ReplacesOK, Tv!At,
              Tv!AppStays
<1>2. CASE Tv!LateUninstall
  <2>1. "uninstall" \in Tv!Commands
    BY DEF Tv!Commands
  <2>2. v11["uninstall"] \in Nat /\ v11' = [v11 EXCEPT !["uninstall"] = @ - 1]
    BY <1>2, <2>1 DEF Tv!LateUninstall, Tv!GetsThrough, Tv!IInv, Tv!AdriftOK
  <2>3. v11'["uninstall"] = v11["uninstall"] - 1
    BY <2>1, <2>2 DEF Tv!IInv, Tv!AdriftOK
  <2>4. v11'["uninstall"] < v11["uninstall"]
    BY <2>2, <2>3
  <2> QED  BY <2>4 DEF Tv!AppStays
<1>3. CASE Tv!LateInstall
  BY <1>3 DEF Tv!LateInstall, Tv!AppStays
<1>4. CASE ~(Tv!Install \/ Tv!Uninstall \/ Tv!CleanInstall \/ Tv!LateUninstall
               \/ Tv!LateInstall)
  BY <1>4 DEF Tv!Next, Tv!Cycle, Tv!Late, Tv!Display, Tv!Registry, Tv!SwitchOff,
              Tv!SwitchOn, Tv!Prompt, Tv!Accept, Tv!Resurface, Tv!LaunchNow, Tv!Save,
              Tv!Tick, Tv!Command, Tv!List, Tv!Disconnect, Tv!Connect, Tv!Path,
              Tv!Version, Tv!Front, Tv!Launch, Tv!LateConnect, Tv!LateDisconnect,
              Tv!LateLaunch, Tv!tv, Tv!settings, Tv!tvVars, Tv!AppStays
<1> QED  BY <1>1, <1>2, <1>3, <1>4

TvInv == loop = "tv" => Tv!IInv

LEMMA TvInvariant == MCSpec => []TvInv
<1>1. MCInit => TvInv
  BY LoopInits, TvInitInv DEF TvInv
<1>2. TvInv /\ [MCNext]_loopVars => TvInv'
  BY LoopSteps, TvStepInv DEF TvInv
<1> QED  BY <1>1, <1>2, PTL DEF MCSpec

\* The worker disconnects a display only after the adb listings that make it
\* stale (android_stage/adb.rs), whatever the display, the operator and the
\* commands do meanwhile.
THEOREM OnlyStuckDisplaysAreDisconnected == MCSpec => []DisconnectsStuckOnly
<1>1. TvInv => DisconnectsStuckOnly
  BY DEF TvInv, Tv!IInv, Tv!StreakOK, DisconnectsStuckOnly, Tv!DisconnectsStuckOnly, Tv!At
<1> QED  BY <1>1, TvInvariant, PTL

\* A current app is taken down by no command whose answer the worker waits for, but
\* by the fallback of an install that was given up and got through since the app was
\* last read, and by an uninstall that was given up (android_stage/adb.rs).
THEOREM CurrentAppsStay == MCSpec => CurrentAppStays
<1>1. TvInv /\ [MCNext]_loopVars => [loop = "tv" => Tv!AppStays]_loopVars
  BY LoopSteps, TvAppStays DEF TvInv
<1> QED  BY <1>1, TvInvariant, PTL DEF MCSpec, CurrentAppStays

-----------------------------------------------------------------------------
(* The mirror of a Drive folder: v1 is its disk, v2 the manifest, v3 the page, *)
(* v4 the task and v12 the files that are excused.                             *)

LEMMA DriveInitInv == Drive!Init => Drive!IInv
BY DriveAssumption
   DEF Drive!Init, Drive!IInv, Drive!Types, Drive!SyncOK, Drive!RetiredOK, Drive!PagesOK,
       Drive!Syncing, Drive!At, Drive!NoManifest, Drive!None, Drive!Passes, Drive!Select

\* Files and playlists stay, and no sync begins.
LEMMA DriveMirrorInv ==
  ASSUME Drive!IInv, UNCHANGED <<v1, v2, v3, v12>>, v4' \in Drive!Passes,
         ~(v4'.pc \in {"files", "write"})
  PROVE  Drive!IInv'
BY DEF Drive!IInv, Drive!Types, Drive!SyncOK, Drive!RetiredOK, Drive!PagesOK,
       Drive!GraceOK, Drive!Syncing, Drive!At

LEMMA DriveTakeInv ==
  ASSUME Drive!IInv, Drive!Tick \/ Drive!TakeNudge \/ Drive!TakeChange \/ Drive!Crash
  PROVE  Drive!IInv'
<1>1. /\ UNCHANGED <<v1, v2, v3, v12>>
      /\ v4' \in Drive!Passes /\ ~(v4'.pc \in {"files", "write"})
  BY DEF Drive!Tick, Drive!TakeNudge, Drive!TakeChange, Drive!Crash, Drive!Passes,
         Drive!Select, Drive!files
<1> QED  BY <1>1, DriveMirrorInv

LEMMA DriveDebouncedInv == ASSUME Drive!IInv, Drive!Debounced PROVE Drive!IInv'
<1>1. v4 \in [pc : {"begin", "debounce"}, trigger : {"periodic", "forced", "config"}]
  BY DEF Drive!Debounced, Drive!At, Drive!IInv, Drive!Types, Drive!Passes, Drive!Syncs,
         Drive!Select
<1>2. /\ v4' = [pc |-> "begin", trigger |-> v4.trigger]
      /\ UNCHANGED <<v1, v2, v3, v12>>
  BY <1>1 DEF Drive!Debounced, Drive!Step, Drive!files
<1>3. v4' \in Drive!Passes
  BY <1>1, <1>2 DEF Drive!Passes
<1> QED  BY <1>2, <1>3, DriveMirrorInv

LEMMA DriveBeginInv == ASSUME Drive!IInv, Drive!Begin PROVE Drive!IInv'
<1>1. v4 \in [pc : {"begin", "debounce"}, trigger : {"periodic", "forced", "config"}]
  BY DEF Drive!Begin, Drive!At, Drive!IInv, Drive!Types, Drive!Passes, Drive!Syncs,
         Drive!Select
<1>2. PICK complete \in BOOLEAN :
        v4' = [pc |-> "plan", trigger |-> v4.trigger, complete |-> complete,
               named |-> v5 /\ complete, marked |-> v8 /\ v4.trigger = "forced"]
  BY DEF Drive!Begin
<1>3. (v5 /\ complete) \in BOOLEAN /\ (v8 /\ v4.trigger = "forced") \in BOOLEAN
  OBVIOUS
<1>4. v4' \in Drive!Passes /\ v4'.pc = "plan"
  BY <1>1, <1>2, <1>3 DEF Drive!Passes
<1>5. UNCHANGED <<v1, v2, v3, v12>>
  BY DEF Drive!Begin, Drive!files
<1> QED  BY <1>4, <1>5, DriveMirrorInv

LEMMA DrivePlanInv == ASSUME Drive!IInv, Drive!Plan PROVE Drive!IInv'
<1>1. PICK due, remove \in BOOLEAN :
        v4' = [pc |-> IF due THEN "list" ELSE "end", marked |-> v4.marked /\ ~due,
               remove |-> remove]
  <2> DEFINE wanted == v4.named \/ v9
             due(read) == wanted /\ ~(v4.trigger = "config"
                                        /\ (read /\ v2.synced /\ v2.age < 1))
  <2>1. PICK read \in BOOLEAN :
          v4' = [pc |-> IF due(read) THEN "list" ELSE "end", marked |-> v4.marked /\ ~due(read),
                 remove |-> v4.complete /\ ~wanted]
    BY DEF Drive!Plan
  <2>2. due(read) \in BOOLEAN /\ (v4.complete /\ ~wanted) \in BOOLEAN
    OBVIOUS
  <2> HIDE DEF due, wanted
  <2> QED  BY <2>1, <2>2
<1>2. (v4.marked /\ ~due) \in BOOLEAN
  OBVIOUS
<1>3. v4' \in Drive!Passes /\ v4'.pc \in {"list", "end"}
  BY <1>1, <1>2 DEF Drive!Passes
<1>4. UNCHANGED <<v1, v2, v3, v12>>
  BY DEF Drive!Plan, Drive!files
<1> QED  BY <1>3, <1>4, DriveMirrorInv

\* A task between a plan and its end.
DriveGoes == [pc : {"list", "prune", "record", "synced", "end"}, marked : BOOLEAN,
              remove : BOOLEAN]

LEMMA DriveShape ==
  ASSUME Drive!IInv
  PROVE  /\ v4.pc \in {"list", "prune", "record", "synced", "end"} => v4 \in DriveGoes
         /\ v4.pc \in {"files", "write"} => v4 \in Drive!Syncs
         /\ DriveGoes \subseteq Drive!Passes /\ Drive!Syncs \subseteq Drive!Passes
BY DEF Drive!IInv, Drive!Types, Drive!Passes, Drive!Select, Drive!Syncs, DriveGoes

\* A sync that begins sees what is in its grace period, or nothing.
LEMMA DriveListInv == ASSUME Drive!IInv, Drive!List PROVE Drive!IInv'
<1>1. UNCHANGED <<v1, v2, v3, v12>>
  BY DEF Drive!List, Drive!files
<1>2. v4 \in DriveGoes
  BY DriveShape DEF Drive!List, Drive!At
<1>3. CASE Drive!Step("record")
  <2>1. v4' = [pc |-> "record", marked |-> v4.marked, remove |-> v4.remove]
    BY <1>2, <1>3 DEF Drive!Step, DriveGoes
  <2>2. v4' \in Drive!Passes
    BY <1>2, <2>1, DriveShape DEF DriveGoes
  <2> QED  BY <1>1, <2>1, <2>2, DriveMirrorInv
<1>4. CASE ~Drive!Step("record")
  <2> DEFINE inGrace(read) == {f \in DOMAIN v2.retired : read /\ v2.retired[f] < Grace}
  <2>1. PICK listed \in SUBSET File, read \in BOOLEAN :
          v4' = [pc |-> "files", marked |-> v4.marked, remove |-> v4.remove,
                 read |-> read, age |-> 0, left |-> listed, items |-> {},
                 graced |-> inGrace(read)]
    BY <1>4 DEF Drive!List
  <2> DEFINE graced == inGrace(read)
  <2>2. graced \subseteq File
    BY DEF Drive!IInv, Drive!Types
  <2>3. \A f \in DOMAIN v2.retired : read /\ v2.retired[f] < Grace => f \in graced
    OBVIOUS
  <2>4. graced \subseteq DOMAIN v2.retired /\ (~read => graced = {})
    OBVIOUS
  <2>5. v4' = [pc |-> "files", marked |-> v4.marked, remove |-> v4.remove, read |-> read,
               age |-> 0, left |-> listed, items |-> {}, graced |-> graced]
    BY <2>1
  <2> HIDE DEF graced
  <2>6. v4' \in Drive!Passes
    BY <1>2, <2>2, <2>5, DriveShape DEF Drive!Syncs, DriveGoes
  <2>7. Drive!SyncOK'
    BY <1>1, <2>4, <2>5 DEF Drive!SyncOK, Drive!Old
  <2>8. Drive!PagesOK'
    BY <1>1, <2>3, <2>5, DriveAssumption
       DEF Drive!IInv, Drive!Types, Drive!PagesOK, Drive!GraceOK
  <2> QED  BY <1>1, <2>6, <2>7, <2>8 DEF Drive!IInv, Drive!Types, Drive!RetiredOK
<1> QED  BY <1>3, <1>4

\* A file is downloaded, or the copy there is kept.
LEMMA DriveFetchInv == ASSUME Drive!IInv, Drive!Fetch PROVE Drive!IInv'
<1>1. v4 \in Drive!Syncs /\ v4.pc = "files"
  BY DriveShape DEF Drive!Fetch, Drive!At
<1>2. UNCHANGED <<v2, v3, v12>>
  BY DEF Drive!Fetch
<1>3. PICK f \in v4.left, kept \in SUBSET File :
        /\ v4' = [v4 EXCEPT !.left = @ \ {f}, !.items = @ \union kept]
        /\ v1' \in {v1, v1 \union {f}} /\ kept \subseteq v1'
  <2>1. PICK f \in v4.left :
          \/ v1' = v1 \union {f}
             /\ v4' = [v4 EXCEPT !.left = @ \ {f}, !.items = @ \union {f}]
          \/ v1' = v1
             /\ \E kept \in SUBSET Drive!Kept(f) :
                  v4' = [v4 EXCEPT !.left = @ \ {f}, !.items = @ \union kept]
    BY DEF Drive!Fetch
  <2>2. Drive!Kept(f) \subseteq {f} /\ Drive!Kept(f) \subseteq v1
    BY DEF Drive!Kept
  <2>3. f \in File
    BY <1>1 DEF Drive!Syncs
  <2>4. CASE v1' = v1 \union {f}
               /\ v4' = [v4 EXCEPT !.left = @ \ {f}, !.items = @ \union {f}]
    BY <2>4, <2>3
  <2>5. CASE v1' = v1
               /\ \E kept \in SUBSET Drive!Kept(f) :
                    v4' = [v4 EXCEPT !.left = @ \ {f}, !.items = @ \union kept]
    <3>1. PICK kept \in SUBSET Drive!Kept(f) :
            v4' = [v4 EXCEPT !.left = @ \ {f}, !.items = @ \union kept]
      BY <2>5
    <3>2. kept \in SUBSET File /\ kept \subseteq v1
      BY <2>2, <2>3
    <3> QED  BY <2>5, <3>1, <3>2
  <2> QED  BY <2>1, <2>4, <2>5
<1>4. v4' = [pc |-> "files", marked |-> v4.marked, remove |-> v4.remove, read |-> v4.read,
             age |-> v4.age, left |-> v4.left \ {f}, items |-> v4.items \union kept,
             graced |-> v4.graced]
  BY <1>1, <1>3 DEF Drive!Syncs
<1>5. v4' \in Drive!Passes
  BY <1>1, <1>3, <1>4, DriveShape DEF Drive!Syncs
<1>6. v1' \subseteq File /\ v1 \subseteq v1'
  BY <1>1, <1>3 DEF Drive!IInv, Drive!Types, Drive!Syncs
<1>7. Drive!SyncOK'
  BY <1>1, <1>2, <1>3, <1>4, <1>6
     DEF Drive!IInv, Drive!SyncOK, Drive!Old, Drive!Syncing, Drive!At
<1>8. Drive!PagesOK'
  BY <1>1, <1>2, <1>4, <1>6
     DEF Drive!IInv, Drive!PagesOK, Drive!GraceOK, Drive!Syncing, Drive!At
<1> QED  BY <1>2, <1>5, <1>6, <1>7, <1>8 DEF Drive!IInv, Drive!Types, Drive!RetiredOK

LEMMA DriveFetchedInv == ASSUME Drive!IInv, Drive!Fetched PROVE Drive!IInv'
<1>1. v4 \in Drive!Syncs /\ v4.pc = "files"
  BY DriveShape DEF Drive!Fetched, Drive!At
<1>2. /\ UNCHANGED <<v1, v2, v3, v12>>
      /\ v4' = [v4 EXCEPT !.pc = "write"]
  BY DEF Drive!Fetched, Drive!Step, Drive!files
<1>3. v4' \in Drive!Passes /\ v4'.read = v4.read /\ v4'.items = v4.items
      /\ v4'.graced = v4.graced
  BY <1>1, <1>2, DriveShape DEF Drive!Syncs
<1> QED  BY <1>1, <1>2, <1>3
            DEF Drive!IInv, Drive!Types, Drive!SyncOK, Drive!Old, Drive!RetiredOK,
                Drive!PagesOK, Drive!GraceOK, Drive!Syncing, Drive!At

\* What a sync knows of the one before it.
LEMMA DriveOld ==
  ASSUME Drive!IInv, Drive!Write
  PROVE  /\ Drive!Old.retired \in [DOMAIN Drive!Old.retired -> Nat]
         /\ Drive!Old.items \subseteq File /\ DOMAIN Drive!Old.retired \subseteq File
         /\ Drive!Old.items \intersect DOMAIN Drive!Old.retired = {}
         /\ v4.read => Drive!Old = v2
         /\ v4.graced \subseteq DOMAIN Drive!Old.retired
<1>1. v4.graced \subseteq DOMAIN Drive!Old.retired
  BY DEF Drive!Write, Drive!At, Drive!IInv, Drive!SyncOK, Drive!Syncing
<1>2. CASE v4.read
  BY <1>1, <1>2 DEF Drive!Old, Drive!IInv, Drive!Types, Drive!RetiredOK
<1>3. CASE ~v4.read
  <2>1. Drive!Old.items = {} /\ Drive!Old.retired = [f \in {} |-> 0]
    BY <1>3 DEF Drive!Old, Drive!NoManifest, Drive!None
  <2> QED  BY <1>1, <1>3, <2>1
<1> QED  BY <1>2, <1>3

\* What leaves the playlist is retired with the age of the listing.
LEMMA DriveRetire ==
  ASSUME Drive!IInv, Drive!Write
  PROVE  /\ Drive!Retire \in [DOMAIN Drive!Retire -> Nat]
         /\ DOMAIN Drive!Retire = (v4.graced \ v4.items) \union (Drive!Old.items \ v4.items)
         /\ \A f \in DOMAIN Drive!Retire :
              Drive!Retire[f] = IF f \in v4.graced THEN Drive!Old.retired[f] ELSE v4.age
<1>1. v4.age \in Nat
  BY DriveShape DEF Drive!Write, Drive!At, Drive!Syncs
<1> DEFINE old == Drive!Old
<1>2. old.retired \in [DOMAIN old.retired -> Nat] /\ v4.graced \subseteq DOMAIN old.retired
  BY DriveOld
<1>3. Drive!Retire = [f \in (v4.graced \ v4.items) \union (old.items \ v4.items) |->
                        IF f \in v4.graced THEN old.retired[f] ELSE v4.age]
  BY DEF Drive!Retire
<1> HIDE DEF old
<1>4. /\ Drive!Retire \in [DOMAIN Drive!Retire -> Nat]
      /\ DOMAIN Drive!Retire = (v4.graced \ v4.items) \union (old.items \ v4.items)
      /\ \A f \in DOMAIN Drive!Retire :
           Drive!Retire[f] = IF f \in v4.graced THEN old.retired[f] ELSE v4.age
  BY <1>1, <1>2, <1>3
<1> QED  BY <1>4 DEF old

\* A task that goes on is at a step it knows.
LEMMA DriveGoOn ==
  ASSUME Drive!IInv, NEW pc \in {"prune", "record", "synced", "end"}, Drive!GoOn(pc),
         v4.pc \in {"write", "prune", "record", "synced"}
  PROVE  v4' \in Drive!Passes /\ v4'.pc = pc
<1>1. v4.marked \in BOOLEAN /\ v4.remove \in BOOLEAN
  BY DriveShape DEF Drive!Syncs, DriveGoes
<1>2. v4' = [pc |-> pc, marked |-> v4.marked, remove |-> v4.remove]
  BY DEF Drive!GoOn
<1> QED  BY <1>1, <1>2, DriveShape DEF DriveGoes

LEMMA DriveWriteInv == ASSUME Drive!IInv, Drive!Write PROVE Drive!IInv'
<1>1. v4 \in Drive!Syncs /\ v4.pc = "write"
  BY DriveShape DEF Drive!Write, Drive!At
<1>2. UNCHANGED <<v1, v3>>
  BY DEF Drive!Write
<1>3. CASE UNCHANGED <<v2, v12>> /\ Drive!GoOn("record")
  <2>1. v4' \in Drive!Passes /\ v4'.pc = "record"
    BY <1>1, <1>3, DriveGoOn
  <2> QED  BY <1>2, <1>3, <2>1, DriveMirrorInv
<1>4. CASE ~(UNCHANGED <<v2, v12>> /\ Drive!GoOn("record"))
  <2> DEFINE retired == Drive!Retire
             old == Drive!Old
             lost == Drive!Lost
  <2>1. /\ v2' = [items |-> v4.items, retired |-> retired, synced |-> TRUE, age |-> v4.age]
        /\ v12' = (v12 \ v4.items) \union lost
        /\ Drive!GoOn("prune")
    BY <1>4 DEF Drive!Write
  <2>2. /\ retired \in [DOMAIN retired -> Nat]
        /\ DOMAIN retired = (v4.graced \ v4.items) \union (old.items \ v4.items)
        /\ \A f \in DOMAIN retired :
             retired[f] = IF f \in v4.graced THEN old.retired[f] ELSE v4.age
    BY DriveRetire
  <2>3. /\ old.items \subseteq File /\ DOMAIN old.retired \subseteq File
        /\ old.items \intersect DOMAIN old.retired = {}
        /\ v4.read => old = v2
        /\ v4.graced \subseteq DOMAIN old.retired
    BY DriveOld
  <2>4. /\ lost \subseteq v2.items \union DOMAIN v2.retired
        /\ v4.read => \A f \in v2.items \ (v4.items \union lost) : v4.age + 1 < Grace
        /\ ~v4.read => (v2.items \union DOMAIN v2.retired) \ v4.items \subseteq lost
    BY DEF Drive!Lost
  <2> HIDE DEF retired, old, lost
  <2>5. v4' \in Drive!Passes /\ v4'.pc = "prune"
    BY <1>1, <2>1, DriveGoOn
  <2>6. v4.items \subseteq File /\ v4.graced \subseteq File /\ v4.age \in Nat
    BY <1>1 DEF Drive!Syncs
  <2>7. Drive!Types'
    <3>1. v12' \subseteq File
      BY <2>1, <2>4 DEF Drive!IInv, Drive!Types
    <3>2. DOMAIN retired \subseteq File
      BY <2>2, <2>3, <2>6
    <3> QED  BY <1>2, <2>1, <2>2, <2>5, <2>6, <3>1, <3>2 DEF Drive!IInv, Drive!Types
  <2>8. Drive!SyncOK'
    BY <2>5 DEF Drive!SyncOK, Drive!Syncing, Drive!At
  <2>9. ASSUME v3.age <= 1, NEW f \in v3.items \ v12'
        PROVE  f \in v1 /\ (f \in v4.items \/ (f \in DOMAIN retired
                                                 /\ retired[f] + 1 < Grace + v3.age))
    <3>1. CASE f \in v4.items
      BY <1>1, <3>1 DEF Drive!IInv, Drive!SyncOK, Drive!Syncing, Drive!At
    <3>2. CASE f \notin v4.items
      <4>1. f \in v1 /\ (f \in v2.items \/ Drive!GraceOK(f)) /\ f \notin lost
        BY <2>1, <2>9, <3>2 DEF Drive!IInv, Drive!PagesOK
      <4>2. v4.read /\ old = v2
        BY <2>3, <2>4, <3>2, <4>1 DEF Drive!GraceOK
      <4>3. CASE f \in v4.graced
        <5>1. f \notin v2.items
          BY <2>3, <4>2, <4>3
        <5>2. retired[f] = v2.retired[f] /\ f \in DOMAIN retired
          BY <2>2, <3>2, <4>2, <4>3
        <5> QED  BY <4>1, <5>1, <5>2 DEF Drive!GraceOK
      <4>4. CASE f \notin v4.graced
        <5>1. f \in v2.items
          BY <1>1, <4>1, <4>2, <4>4 DEF Drive!GraceOK, Drive!Syncing, Drive!At
        <5>2. f \in DOMAIN retired /\ retired[f] = v4.age /\ v4.age + 1 < Grace
          BY <2>2, <2>4, <3>2, <4>1, <4>2, <4>4, <5>1
        <5> QED  BY <2>6, <4>1, <5>2, DriveAssumption DEF Drive!IInv, Drive!Types
      <4> QED  BY <4>3, <4>4
    <3> QED  BY <3>1, <3>2
  <2>10. Drive!PagesOK'
    BY <1>2, <2>1, <2>5, <2>9
       DEF Drive!PagesOK, Drive!GraceOK, Drive!Syncing, Drive!At
  <2>11. Drive!RetiredOK'
    BY <2>1, <2>2 DEF Drive!RetiredOK
  <2> QED  BY <2>7, <2>8, <2>10, <2>11 DEF Drive!IInv
<1> QED  BY <1>3, <1>4

\* The record of a sync that failed leaves the playlist, or excuses its files.
LEMMA DriveRecordInv == ASSUME Drive!IInv, Drive!Record PROVE Drive!IInv'
<1>1. v4 \in DriveGoes /\ v4.pc = "record"
  BY DriveShape DEF Drive!Record, Drive!At
<1>2. UNCHANGED <<v1, v3>> /\ v4' = [v4 EXCEPT !.pc = "synced"]
  BY DEF Drive!Record, Drive!Step
<1>3. v4' \in Drive!Passes /\ v4'.pc = "synced"
  BY <1>1, <1>2, DriveShape DEF DriveGoes
<1>4. CASE UNCHANGED <<v2, v12>>
  BY <1>2, <1>3, <1>4, DriveMirrorInv
<1>5. CASE v12' = v12 /\ v2' = [v2 EXCEPT !.age = IF v2.synced THEN @ ELSE 0]
  <2> DEFINE age == IF v2.synced THEN v2.age ELSE 0
  <2>1. age \in Nat
    BY DEF Drive!IInv, Drive!Types
  <2>2. v2' = [items |-> v2.items, retired |-> v2.retired, synced |-> v2.synced, age |-> age]
    BY <1>5 DEF Drive!IInv, Drive!Types
  <2> HIDE DEF age
  <2> QED  BY <1>2, <1>3, <1>5, <2>1, <2>2
              DEF Drive!IInv, Drive!Types, Drive!SyncOK, Drive!RetiredOK, Drive!PagesOK,
                  Drive!GraceOK, Drive!Syncing, Drive!At
<1>6. CASE v2' = [Drive!NoManifest EXCEPT !.age = 0]
             /\ v12' = v12 \union v2.items \union DOMAIN v2.retired
  <2>1. v2' = [items |-> {}, retired |-> [f \in {} |-> 0], synced |-> FALSE, age |-> 0]
    BY <1>6 DEF Drive!NoManifest, Drive!None
  <2>2. ASSUME v3.age <= 1, NEW f \in v3.items \ v12' PROVE FALSE
    BY <1>6, <2>2 DEF Drive!IInv, Drive!PagesOK, Drive!GraceOK
  <2>3. Drive!Types'
    <3>1. v12' \subseteq File
      BY <1>6 DEF Drive!IInv, Drive!Types
    <3>2. DOMAIN v2'.retired = {} /\ v2'.retired \in [{} -> Nat]
      BY <2>1
    <3> QED  BY <1>2, <1>3, <2>1, <3>1, <3>2 DEF Drive!IInv, Drive!Types
  <2>4. Drive!PagesOK'
    BY <1>2, <2>2 DEF Drive!PagesOK
  <2> QED  BY <1>3, <2>1, <2>3, <2>4
              DEF Drive!IInv, Drive!SyncOK, Drive!RetiredOK, Drive!Syncing, Drive!At
<1> QED  BY <1>4, <1>5, <1>6 DEF Drive!Record

LEMMA DrivePruneInv == ASSUME Drive!IInv, Drive!Prune PROVE Drive!IInv'
<1>1. v4 \in DriveGoes /\ v4.pc = "prune"
  BY DriveShape DEF Drive!Prune, Drive!At
<1>2. UNCHANGED <<v2, v3, v12>>
  BY DEF Drive!Prune
<1>3. CASE v1' = v1 /\ Drive!Step("synced")
  <2>1. v4' = [v4 EXCEPT !.pc = "synced"]
    BY <1>3 DEF Drive!Step
  <2>2. v4' \in Drive!Passes /\ v4'.pc = "synced"
    BY <1>1, <2>1, DriveShape DEF DriveGoes
  <2> QED  BY <1>2, <1>3, <2>2, DriveMirrorInv
<1>4. CASE ~(v1' = v1 /\ Drive!Step("synced"))
  <2>1. PICK f \in v1 \ (v2.items \union DOMAIN v2.retired) : v1' = v1 \ {f} /\ v4' = v4
    BY <1>4 DEF Drive!Prune
  <2> QED  BY <1>1, <1>2, <2>1
              DEF Drive!IInv, Drive!Types, Drive!SyncOK, Drive!RetiredOK, Drive!PagesOK,
                  Drive!GraceOK, Drive!Syncing, Drive!At
<1> QED  BY <1>3, <1>4

LEMMA DriveSyncedInv == ASSUME Drive!IInv, Drive!Synced PROVE Drive!IInv'
<1>1. v4.pc = "synced" /\ Drive!GoOn("end") /\ UNCHANGED <<v1, v2, v3, v12>>
  BY DEF Drive!Synced, Drive!At, Drive!files
<1>2. v4' \in Drive!Passes /\ v4'.pc = "end"
  BY <1>1, DriveGoOn
<1> QED  BY <1>1, <1>2, DriveMirrorInv

\* A mirror that is removed, if not whole, excuses every file.
LEMMA DriveEndInv == ASSUME Drive!IInv, Drive!End PROVE Drive!IInv'
<1>1. v4' = Drive!Select /\ v3' = v3
  BY DEF Drive!End
<1>2. v4' \in Drive!Passes /\ v4'.pc = "select"
  BY <1>1 DEF Drive!Passes, Drive!Select
<1>3. CASE UNCHANGED <<v1, v2, v12>>
  BY <1>1, <1>2, <1>3, DriveMirrorInv
<1>4. CASE v1' \in SUBSET v1 /\ v2' \in {v2, Drive!NoManifest} /\ v12' = File
  <2>1. v3.items \ v12' = {}
    BY <1>4 DEF Drive!IInv, Drive!Types
  <2>2. Drive!PagesOK' /\ Drive!SyncOK'
    BY <1>1, <1>2, <2>1 DEF Drive!PagesOK, Drive!SyncOK, Drive!Syncing, Drive!At
  <2>3. v1' \subseteq File
    BY <1>4 DEF Drive!IInv, Drive!Types
  <2>4. CASE v2' = v2
    BY <1>1, <1>2, <1>4, <2>2, <2>3, <2>4 DEF Drive!IInv, Drive!Types, Drive!RetiredOK
  <2>5. CASE v2' = Drive!NoManifest
    <3>1. v2' = [items |-> {}, retired |-> [f \in {} |-> 0], synced |-> FALSE,
                 age |-> Unused]
      BY <2>5 DEF Drive!NoManifest, Drive!None
    <3> QED  BY <1>1, <1>2, <1>4, <2>2, <2>3, <3>1, DriveAssumption
                DEF Drive!IInv, Drive!Types, Drive!RetiredOK
  <2> QED  BY <1>4, <2>4, <2>5
<1> QED  BY <1>3, <1>4 DEF Drive!End, Drive!Remove

\* The outside of the task.
LEMMA DriveOutsideInv ==
  ASSUME Drive!IInv,
         \/ Drive!Configure \/ UNCHANGED Drive!driveVars
         \/ \E r \in Refresher : Drive!AskRefresh(r) \/ Drive!MarkRefresh(r)
  PROVE  Drive!IInv'
<1>1. UNCHANGED <<v1, v2, v3, v4, v12>>
  BY DEF Drive!Configure, Drive!AskRefresh, Drive!MarkRefresh, Drive!driveVars, Drive!files
<1> QED  BY <1>1 DEF Drive!IInv, Drive!Types, Drive!SyncOK, Drive!Old, Drive!RetiredOK,
                     Drive!PagesOK, Drive!GraceOK, Drive!Syncing, Drive!At

LEMMA DriveFetchPlaylistInv == ASSUME Drive!IInv, Drive!FetchPlaylist PROVE Drive!IInv'
<1>1. PICK present \in SUBSET (v2.items \intersect v1) :
        v3' = [items |-> present, age |-> 0]
  BY DEF Drive!FetchPlaylist
<1>2. UNCHANGED <<v1, v2, v4, v12>>
  BY DEF Drive!FetchPlaylist
<1>3. present \subseteq File
  BY DEF Drive!IInv, Drive!Types
<1> QED  BY <1>1, <1>2, <1>3
            DEF Drive!IInv, Drive!Types, Drive!SyncOK, Drive!Old, Drive!RetiredOK,
                Drive!PagesOK, Drive!GraceOK, Drive!Syncing, Drive!At

\* A minute ages a playlist and what is retired alike.
LEMMA DriveMinuteInv == ASSUME Drive!IInv, Drive!Minute PROVE Drive!IInv'
<1> DEFINE retired == [f \in DOMAIN v2.retired |-> Drive!UpTo(v2.retired[f] + 1, Grace)]
<1>1. \A n, max \in Nat : Drive!UpTo(n, max) \in Nat /\ Drive!UpTo(n, max) <= n
  BY DEF Drive!UpTo
<1>2. /\ v2' = [items |-> v2.items, retired |-> retired, synced |-> v2.synced,
                age |-> Drive!UpTo(v2.age + 1, Unused)]
      /\ v3' = [items |-> v3.items, age |-> Drive!UpTo(v3.age + 1, 2)]
      /\ UNCHANGED <<v1, v12>>
  BY DEF Drive!Minute, Drive!IInv, Drive!Types
<1>3. /\ DOMAIN retired = DOMAIN v2.retired /\ retired \in [DOMAIN retired -> Nat]
      /\ \A f \in DOMAIN retired : retired[f] <= v2.retired[f] + 1
  BY <1>1, DriveAssumption DEF Drive!IInv, Drive!Types
<1>4. \/ v4' = v4
      \/ v4.pc \in {"files", "write"} /\ v4' = [v4 EXCEPT !.age = Drive!UpTo(@ + 1, Grace)]
  BY DEF Drive!Minute, Drive!At
<1>5. /\ v4' \in Drive!Passes
      /\ v4'.pc = v4.pc
      /\ v4.pc \in {"files", "write"} =>
           v4'.items = v4.items /\ v4'.graced = v4.graced /\ v4'.read = v4.read
  <2>1. CASE v4' = v4
    BY <2>1 DEF Drive!IInv, Drive!Types
  <2>2. CASE v4.pc \in {"files", "write"}
             /\ v4' = [v4 EXCEPT !.age = Drive!UpTo(@ + 1, Grace)]
    <3>1. v4 \in Drive!Syncs
      BY <2>2, DriveShape
    <3>2. Drive!UpTo(v4.age + 1, Grace) \in Nat
      BY <1>1, <3>1, DriveAssumption DEF Drive!Syncs
    <3> QED  BY <2>2, <3>1, <3>2, DriveShape DEF Drive!Syncs
  <2> QED  BY <1>4, <2>1, <2>2
<1> HIDE DEF retired
<1>6. Drive!Types'
  BY <1>1, <1>2, <1>3, <1>5, DriveAssumption DEF Drive!IInv, Drive!Types
<1>7. Drive!SyncOK' /\ Drive!RetiredOK'
  BY <1>2, <1>3, <1>5
     DEF Drive!IInv, Drive!SyncOK, Drive!Old, Drive!RetiredOK, Drive!Syncing, Drive!At
<1>8. Drive!PagesOK'
  <2>1. v3'.age <= 1 => v3'.age = v3.age + 1 /\ v3.age <= 1
    BY <1>2 DEF Drive!UpTo, Drive!IInv, Drive!Types
  <2>2. SUFFICES ASSUME v3'.age <= 1, NEW f \in v3.items \ v12
        PROVE  f \in v1 /\ (f \in v2.items \/ Drive!GraceOK(f)')
    BY <1>2 DEF Drive!PagesOK
  <2>3. f \in v1 /\ (f \in v2.items \/ Drive!GraceOK(f))
    BY <2>1, <2>2 DEF Drive!IInv, Drive!PagesOK
  <2>4. ASSUME Drive!GraceOK(f) PROVE Drive!GraceOK(f)'
    BY <1>2, <1>3, <1>5, <2>1, <2>2, <2>4, DriveAssumption
       DEF Drive!GraceOK, Drive!IInv, Drive!Types, Drive!Syncing, Drive!At
  <2> QED  BY <2>3, <2>4
<1> QED  BY <1>6, <1>7, <1>8 DEF Drive!IInv

LEMMA DriveStepInv == ASSUME Drive!IInv, [Drive!Next]_(Drive!driveVars) PROVE Drive!IInv'
BY DriveMinuteInv, DriveFetchPlaylistInv, DriveOutsideInv, DriveTakeInv, DriveDebouncedInv,
   DriveBeginInv, DrivePlanInv, DriveListInv, DriveFetchInv, DriveFetchedInv,
   DriveWriteInv, DriveRecordInv, DrivePruneInv, DriveSyncedInv, DriveEndInv
   DEF Drive!Next, Drive!Pass

DriveInv == loop = "drive" => Drive!IInv

\* What a page asks for while its playlist is fresh is on the disk and in the
\* manifest (state/stream_playback.rs), whatever the folder lists, and wherever
\* the server dies, unless the manifest could not be read when it was replaced or
\* removed, or the sync took as long as the grace period.
THEOREM FreshPlaylistsAreAlwaysServed == MCSpec => []FreshPlaylistsAreServed
<1>1. MCInit => DriveInv
  BY LoopInits, DriveInitInv DEF DriveInv
<1>2. DriveInv /\ [MCNext]_loopVars => DriveInv'
  BY LoopSteps, DriveStepInv DEF DriveInv
<1>3. DriveInv => FreshPlaylistsAreServed
  BY DEF DriveInv, Drive!IInv, Drive!PagesOK, Drive!GraceOK, FreshPlaylistsAreServed,
         Drive!FreshPlaylistsAreServed, Drive!Served
<1> QED  BY <1>1, <1>2, <1>3, PTL DEF MCSpec

-----------------------------------------------------------------------------
(* The drift guard of an encoder: v1 is the encoder, v2 the guard, v3 the      *)
(* checks, v4 the rebuilds and v5 the windows over.                            *)

\* Every non-empty set of natural numbers has a least element.
LEMMA LeastNumber ==
  ASSUME NEW N \in SUBSET Nat, N # {}
  PROVE  \E n \in N : \A m \in N : n <= m
<1> DEFINE Below == {1..n : n \in N}
<1>1. Below \subseteq FiniteSubsetsOf(Nat) /\ Below # {}
  <2>1. ASSUME NEW n \in N PROVE 1..n \subseteq Nat /\ IsFiniteSet(1..n)
    BY FS_Interval
  <2> QED  BY <2>1, Zenon DEF FiniteSubsetsOf
<1>2. PICK B \in Below : \A C \in Below : <<C, B>> \notin StrictSubsetOrdering(Nat)
  BY ONLY <1>1, WFMin, FS_StrictSubsetOrderingWellFounded
<1>3. PICK n \in N : B = 1..n
  OBVIOUS
<1>4. ASSUME NEW m \in N, m < n PROVE FALSE
  <2>1. 1..m \subseteq 1..n /\ n \in 1..n /\ n \notin 1..m
    BY <1>4
  <2>2. 1..m # 1..n /\ 1..m \in SUBSET Nat /\ 1..n \in SUBSET Nat
    BY <2>1
  <2>3. <<1..m, 1..n>> \in StrictSubsetOrdering(Nat)
    BY <2>1, <2>2 DEF StrictSubsetOrdering
  <2> QED  BY <1>2, <1>3, <2>3
<1> QED  BY <1>4

\* Recent drops a prefix, and only one prefix ends where it must.
LEMMA DriftRecent ==
  ASSUME NEW ages \in Seq(Nat)
  PROVE  \E k \in 0..Len(ages) :
           /\ Drift!Begins(ages, k + 1)
           /\ \A n \in 0..Len(ages) : Drift!Begins(ages, n + 1) => n = k
           /\ Drift!Recent(ages) \in Seq(Nat)
           /\ Len(Drift!Recent(ages)) = Len(ages) - k
           /\ \A i \in 1..(Len(ages) - k) : Drift!Recent(ages)[i] = ages[k + i]
<1> DEFINE N == {i \in 1..(Len(ages) + 1) : i <= Len(ages) => ages[i] < Hour}
<1>1. PICK n \in N : \A m \in N : n <= m
  <2>1. N \in SUBSET Nat /\ Len(ages) + 1 \in N
    OBVIOUS
  <2> HIDE DEF N
  <2> QED  BY <2>1, LeastNumber
<1>2. n \in 1..(Len(ages) + 1) /\ Drift!Begins(ages, n)
  BY <1>1, DriftAssumption DEF Drift!Begins
<1>3. \A i, j \in 1..(Len(ages) + 1) : Drift!Begins(ages, i) /\ Drift!Begins(ages, j) => i = j
  <2>1. ASSUME NEW i \in 1..(Len(ages) + 1), NEW j \in 1..(Len(ages) + 1),
               Drift!Begins(ages, i), Drift!Begins(ages, j), i < j
        PROVE  FALSE
    BY <2>1, DriftAssumption DEF Drift!Begins
  <2> QED  BY <2>1
<1>4. (CHOOSE i \in 1..(Len(ages) + 1) : Drift!Begins(ages, i)) = n
  BY <1>2, <1>3
<1>5. Drift!Recent(ages) = SubSeq(ages, n, Len(ages))
  BY <1>4 DEF Drift!Recent
<1>6. /\ SubSeq(ages, n, Len(ages)) \in Seq(Nat)
      /\ Len(SubSeq(ages, n, Len(ages))) = Len(ages) - (n - 1)
      /\ \A i \in 1..(Len(ages) - n + 1) : SubSeq(ages, n, Len(ages))[i] = ages[n + i - 1]
  <2>1. n \in Int /\ Len(ages) \in Int /\ \A i \in n..Len(ages) : ages[i] \in Nat
    BY <1>2
  <2> QED  BY <1>2, <2>1, SubSeqProperties
<1> WITNESS n - 1 \in 0..Len(ages)
<1> QED  BY <1>2, <1>3, <1>5, <1>6

LEMMA DriftOlder ==
  ASSUME NEW ages \in Seq(Nat)
  PROVE  /\ Drift!Older(ages) \in Seq(Nat) /\ Len(Drift!Older(ages)) = Len(ages)
         /\ \A i \in 1..Len(ages) :
              Drift!Older(ages)[i] = IF ages[i] + 1 < Hour THEN ages[i] + 1 ELSE Hour
<1>1. /\ Len(ages) \in Nat /\ DOMAIN ages = 1..Len(ages)
      /\ \A i \in 1..Len(ages) : ages[i] \in Nat
  OBVIOUS
<1>2. Drift!Older(ages) \in [1..Len(ages) -> Nat]
  BY <1>1, DriftAssumption DEF Drift!Older, Drift!UpTo
<1>3. Drift!Older(ages) \in Seq(Nat)
  BY <1>1, <1>2, SeqDef
<1>4. Len(Drift!Older(ages)) = Len(ages)
  BY <1>1, <1>2, <1>3, LenProperties
<1>5. \A i \in 1..Len(ages) :
        Drift!Older(ages)[i] = IF ages[i] + 1 < Hour THEN ages[i] + 1 ELSE Hour
  BY <1>1 DEF Drift!Older, Drift!UpTo
<1> QED  BY <1>3, <1>4, <1>5

\* A new pipeline can be told apart from those that are still known.
LEMMA DriftNewPipeline ==
  ASSUME Drift!Types
  PROVE  \E g \in Built :
           /\ g \notin {v1.generation, v2.generation}
           /\ \A c \in Checker : v3[c] # Drift!NoCheck => v3[c].generation # g
<1> DEFINE D == {c \in Checker : v3[c] # Drift!NoCheck}
           G == {v3[c].generation : c \in D}
           held == (G \union {v2.generation}) \union {v1.generation}
<1>1. IsFiniteSet(D) /\ Cardinality(D) <= Cardinality(Checker)
  BY DriftAssumption, FS_Subset
<1>2. IsFiniteSet(G) /\ Cardinality(G) <= Cardinality(D)
  <2>1. [c \in D |-> v3[c].generation] \in Surjection(D, G)
    BY DEF Surjection
  <2> QED  BY <1>1, <2>1, FS_Surjection
<1>3. IsFiniteSet(held) /\ Cardinality(held) <= Cardinality(G) + 2
  <2> HIDE DEF G
  <2>1. /\ IsFiniteSet(G \union {v2.generation})
        /\ Cardinality(G \union {v2.generation}) \in {Cardinality(G), Cardinality(G) + 1}
    BY <1>2, FS_AddElement
  <2>2. /\ IsFiniteSet(held)
        /\ Cardinality(held) \in {Cardinality(G \union {v2.generation}),
                                  Cardinality(G \union {v2.generation}) + 1}
    BY <2>1, FS_AddElement
  <2>3. Cardinality(G) \in Nat
    BY <1>2, FS_CardinalityType
  <2> QED  BY <2>1, <2>2, <2>3
<1>4. ~(Built \subseteq held)
  <2>1. Cardinality(D) \in Nat /\ Cardinality(G) \in Nat /\ Cardinality(held) \in Nat
        /\ Cardinality(Checker) \in Nat /\ Cardinality(Built) \in Nat
    BY <1>1, <1>2, <1>3, DriftAssumption, FS_CardinalityType
  <2>2. ASSUME Built \subseteq held PROVE Cardinality(Built) <= Cardinality(held)
    BY <1>3, <2>2, FS_Subset
  <2> HIDE DEF D, G, held
  <2> QED  BY <1>1, <1>2, <1>3, <2>1, <2>2, DriftAssumption
<1>5. PICK g \in Built : g \notin held
  BY <1>4
<1>6. g \notin {v1.generation, v2.generation} /\ g \notin G
  BY <1>5
<1>7. \A c \in Checker : v3[c] # Drift!NoCheck => v3[c].generation # g
  BY <1>6
<1> QED  BY <1>6, <1>7

LEMMA DriftInitInv == Drift!Init => Drift!IInv
<1> SUFFICES ASSUME Drift!Init PROVE Drift!IInv
  OBVIOUS
<1>1. (CHOOSE g \in Built : TRUE) \in Built
  <2>1. Cardinality(Checker) \in Nat /\ Cardinality({}) = 0
    BY DriftAssumption, FS_CardinalityType, FS_EmptySet
  <2>2. ASSUME Built = {} PROVE FALSE
    <3>1. Cardinality(Built) = 0
      BY <2>1, <2>2
    <3> QED  BY <2>1, <3>1, DriftAssumption
  <2>3. \E g \in Built : TRUE
    BY <2>2
  <2> QED  BY <2>3
<1>2. Drift!Types
  BY <1>1 DEF Drift!Init, Drift!Types, Drift!NoCheck
<1>3. Drift!CountOK /\ Drift!PendingOK /\ Drift!RequestsOK /\ ~Drift!Pending
  BY DEF Drift!Init, Drift!CountOK, Drift!PendingOK, Drift!RequestsOK, Drift!Pending,
         Drift!NoCheck
<1>4. Drift!FiresOK
  <2>1. Len(v2.fires) = 0 /\ Len(v4) = 0
    BY DEF Drift!Init
  <2>2. 0 \in 0..Len(v2.fires) /\ Drift!Begins(v2.fires, 0 + 1)
    BY <2>1 DEF Drift!Begins
  <2>3. /\ \A i \in 1..(Len(v2.fires) - 0) : v4[i] = v2.fires[0 + i]
        /\ Len(v4) = Len(v2.fires) - 0
    BY <2>1
  <2> QED  BY <1>3, <2>2, <2>3 DEF Drift!FiresOK
<1>5. Drift!SpacingOK
  BY DriftAssumption DEF Drift!Init, Drift!SpacingOK
<1> QED  BY <1>2, <1>3, <1>4, <1>5 DEF Drift!IInv

\* What a step keeps that touches neither the checks nor the guard.
LEMMA DriftSameFires ==
  ASSUME Drift!FiresOK, UNCHANGED <<v2, v4>>, Drift!Pending' = Drift!Pending
  PROVE  Drift!FiresOK'
BY DEF Drift!FiresOK, Drift!Begins

\* Time passes while no check is under way: both memories age alike, and the
\* hour ends for both at the same rebuild.
LEMMA DriftWindowInv == ASSUME Drift!IInv, Drift!Window PROVE Drift!IInv'
<1> DEFINE older == Drift!Older(v4)
           fires == Drift!Older(v2.fires)
<1>1. /\ \A c \in Checker : v3[c] = Drift!NoCheck
      /\ v1' = [v1 EXCEPT !.age = 1]
      /\ v2' = [v2 EXCEPT !.fires = fires]
      /\ v4' = Drift!Recent(older)
      /\ UNCHANGED <<v3, v5>>
  BY DEF Drift!Window
<1>2. /\ older \in Seq(Nat) /\ Len(older) = Len(v4)
      /\ \A i \in 1..Len(v4) : older[i] = IF v4[i] + 1 < Hour THEN v4[i] + 1 ELSE Hour
  BY DriftOlder DEF Drift!IInv, Drift!Types
<1>3. /\ fires \in Seq(Nat) /\ Len(fires) = Len(v2.fires)
      /\ \A i \in 1..Len(v2.fires) :
           fires[i] = IF v2.fires[i] + 1 < Hour THEN v2.fires[i] + 1 ELSE Hour
  BY DriftOlder DEF Drift!IInv, Drift!Types
<1> HIDE DEF older, fires
<1>4. PICK m \in 0..Len(older) :
        /\ \A j \in 1..m : older[j] >= Hour
        /\ m + 1 <= Len(older) => older[m + 1] < Hour
        /\ v4' \in Seq(Nat)
        /\ Len(v4') = Len(older) - m
        /\ \A i \in 1..(Len(older) - m) : v4'[i] = older[m + i]
  <2>1. \A m \in 0..Len(older) : Drift!Begins(older, m + 1) =>
          /\ \A j \in 1..m : older[j] >= Hour
          /\ m + 1 <= Len(older) => older[m + 1] < Hour
    BY <1>2 DEF Drift!Begins
  <2> QED  BY <1>1, <1>2, <2>1, DriftRecent
<1>5. ~Drift!Pending /\ ~Drift!Pending'
  BY <1>1 DEF Drift!Pending, Drift!NoCheck
<1>6. Drift!Types'
  BY <1>1, <1>3, <1>4 DEF Drift!IInv, Drift!Types
<1>7. Drift!CountOK' /\ Drift!PendingOK' /\ Drift!RequestsOK'
  BY <1>1
     DEF Drift!IInv, Drift!Types, Drift!CountOK, Drift!PendingOK, Drift!RequestsOK,
         Drift!NoCheck
<1>8. Drift!FiresOK'
  <2>1. PICK k \in 0..Len(v2.fires) :
          /\ \A j \in 1..k : v2.fires[j] >= Hour
          /\ \A i \in 1..(Len(v2.fires) - k) : v4[i] = v2.fires[k + i]
          /\ Len(v4) = Len(v2.fires) - k
    <3>1. \A k \in 0..Len(v2.fires) :
            Drift!Begins(v2.fires, k + 1) => \A j \in 1..k : v2.fires[j] >= Hour
      BY DEF Drift!Begins
    <3> QED  BY <1>5, <3>1 DEF Drift!IInv, Drift!FiresOK
  <2>2. v2'.fires = fires /\ k + m \in 0..Len(fires)
    BY <1>1, <1>2, <1>3, <2>1 DEF Drift!IInv, Drift!Types
  <2>3. ASSUME NEW i \in 1..Len(older) PROVE older[i] = fires[k + i]
    <3>1. i \in 1..Len(v4) /\ k + i \in 1..Len(v2.fires) /\ v4[i] = v2.fires[k + i]
      BY <1>2, <2>1
    <3>2. older[i] = IF v4[i] + 1 < Hour THEN v4[i] + 1 ELSE Hour
      BY <1>2, <3>1
    <3>3. fires[k + i] = IF v2.fires[k + i] + 1 < Hour THEN v2.fires[k + i] + 1 ELSE Hour
      BY <1>3, <3>1
    <3> QED  BY <3>1, <3>2, <3>3
  <2>4. Drift!Begins(fires, k + m + 1)
    <3>1. ASSUME NEW j \in 1..(k + m) PROVE fires[j] >= Hour
      <4>1. CASE j <= k
        <5>1. j \in 1..Len(v2.fires) /\ v2.fires[j] >= Hour /\ v2.fires[j] \in Nat
          BY <2>1, <4>1 DEF Drift!IInv, Drift!Types
        <5> QED  BY <1>3, <5>1, DriftAssumption
      <4>2. CASE j > k
        <5>1. j - k \in 1..m /\ j - k \in 1..Len(older) /\ k + (j - k) = j
          BY <4>2
        <5> QED  BY <1>4, <2>3, <5>1
      <4> QED  BY <4>1, <4>2
    <3>2. k + m + 1 <= Len(fires) => fires[k + m + 1] < Hour
      <4>1. k + m + 1 <= Len(fires) => m + 1 \in 1..Len(older) /\ k + (m + 1) = k + m + 1
        BY <1>2, <1>3, <2>1
      <4> QED  BY <1>4, <2>3, <4>1
    <3>3. (k + m + 1) - 1 = k + m
      OBVIOUS
    <3> QED  BY <3>1, <3>2, <3>3 DEF Drift!Begins
  <2>5. /\ Len(v4') = Len(fires) - (k + m)
        /\ \A i \in 1..(Len(fires) - (k + m)) : v4'[i] = fires[k + m + i]
    <3>1. Len(older) - m = Len(fires) - (k + m)
      BY <1>2, <1>3, <2>1
    <3>2. ASSUME NEW i \in 1..(Len(older) - m) PROVE v4'[i] = fires[k + m + i]
      <4>1. m + i \in 1..Len(older) /\ k + (m + i) = k + m + i
        OBVIOUS
      <4> QED  BY <1>4, <2>3, <4>1
    <3> QED  BY <1>4, <3>1, <3>2
  <2> QED  BY <1>5, <2>2, <2>4, <2>5 DEF Drift!FiresOK
<1>9. Drift!SpacingOK'
  <2>1. /\ Len(v4) \in Nat /\ Len(v4) <= MaxRebuilds
        /\ \A i \in 1..Len(v4) : v4[i] \in Nat
        /\ \A i, j \in 1..Len(v4) : i < j => v4[i] >= v4[j] + Spacing
    BY DEF Drift!IInv, Drift!Types, Drift!SpacingOK
  <2>2. Hour \in Nat /\ Spacing \in Nat /\ MaxRebuilds \in Nat
    BY DriftAssumption
  <2>3. m \in Nat /\ Len(v4') = Len(v4) - m /\ Len(v4') \in Nat /\ Len(v4') <= MaxRebuilds
    BY <1>2, <1>4, <2>1, <2>2
  <2>4. ASSUME NEW i \in 1..Len(v4') PROVE v4'[i] = v4[m + i] + 1 /\ m + i \in 1..Len(v4)
    <3>1. m + i \in 1..Len(v4) /\ m + 1 \in 1..Len(v4)
      BY <2>1, <2>3
    <3>2. v4'[i] = older[m + i] /\ older[m + 1] < Hour
      BY <1>2, <1>4, <2>3, <3>1
    <3>3. /\ v4[m + i] \in Nat /\ v4[m + 1] \in Nat
          /\ v4[m + i] <= v4[m + 1]
      <4>1. i = 1 \/ m + 1 < m + i
        BY <2>3
      <4> QED  BY <2>1, <2>2, <3>1, <4>1
    <3>4. /\ older[m + i] = IF v4[m + i] + 1 < Hour THEN v4[m + i] + 1 ELSE Hour
          /\ older[m + 1] = IF v4[m + 1] + 1 < Hour THEN v4[m + 1] + 1 ELSE Hour
      BY <1>2, <3>1
    <3> QED  BY <2>2, <3>1, <3>2, <3>3, <3>4
  <2>5. ASSUME NEW i \in 1..Len(v4'), NEW j \in 1..Len(v4'), i < j
        PROVE  v4'[i] >= v4'[j] + Spacing
    <3>1. v4'[i] = v4[m + i] + 1 /\ v4'[j] = v4[m + j] + 1
      BY <2>4
    <3>2. /\ m + i \in 1..Len(v4) /\ m + j \in 1..Len(v4) /\ m + i < m + j
          /\ v4[m + i] \in Nat /\ v4[m + j] \in Nat
      BY <2>1, <2>3, <2>4, <2>5
    <3>3. v4[m + i] >= v4[m + j] + Spacing
      BY <2>1, <3>2
    <3> QED  BY <2>2, <3>1, <3>2, <3>3
  <2> QED  BY <2>3, <2>5 DEF Drift!SpacingOK
<1> QED  BY <1>6, <1>7, <1>8, <1>9 DEF Drift!IInv

LEMMA DriftDieInv == ASSUME Drift!IInv, Drift!Die \/ UNCHANGED Drift!driftVars PROVE Drift!IInv'
<1>1. /\ v1' \in {v1, [v1 EXCEPT !.streaming = FALSE]}
      /\ UNCHANGED <<v2, v3, v4, v5>>
  BY DEF Drift!Die, Drift!driftVars
<1>2. Drift!Types' /\ v1'.generation = v1.generation /\ v1'.age = v1.age
      /\ v1'.streaming \in {FALSE, v1.streaming}
  BY <1>1 DEF Drift!IInv, Drift!Types
<1>3. Drift!CountOK' /\ Drift!PendingOK' /\ Drift!RequestsOK'
  BY <1>1, <1>2
     DEF Drift!IInv, Drift!CountOK, Drift!PendingOK, Drift!RequestsOK, Drift!Allowed
<1>4. Drift!FiresOK' /\ Drift!SpacingOK'
  BY <1>1 DEF Drift!IInv, Drift!FiresOK, Drift!Pending, Drift!Begins, Drift!SpacingOK
<1> QED  BY <1>2, <1>3, <1>4 DEF Drift!IInv

\* A new pipeline is counted from nothing, and no check is of it yet.
LEMMA DriftReplaceInv == ASSUME Drift!IInv, Drift!Replace PROVE Drift!IInv'
<1> DEFINE held == {v1.generation, v2.generation}
                     \union {v3[c].generation : c \in {d \in Checker : v3[d] # Drift!NoCheck}}
           new == CHOOSE g \in Built : g \notin held
<1>1. /\ v1' = [generation |-> new, age |-> 0, streaming |-> TRUE]
      /\ v5' = 0 /\ UNCHANGED <<v2, v3, v4>>
  BY DEF Drift!Replace, Drift!KeepSource
<1>2. new \in Built /\ new \notin held
  <2>1. \E g \in Built : g \notin held
    BY DriftNewPipeline DEF Drift!IInv
  <2> QED  BY <2>1
<1>3. new # v2.generation /\ \A c \in Checker : v3[c] # Drift!NoCheck => v3[c].generation # new
  BY <1>2
<1> HIDE DEF new
<1>4. Drift!Types'
  BY <1>1, <1>2 DEF Drift!IInv, Drift!Types
<1>5. Drift!CountOK' /\ Drift!PendingOK' /\ Drift!RequestsOK'
  BY <1>1, <1>3
     DEF Drift!IInv, Drift!CountOK, Drift!PendingOK, Drift!RequestsOK, Drift!NoCheck
<1>6. Drift!FiresOK' /\ Drift!SpacingOK'
  BY <1>1 DEF Drift!IInv, Drift!FiresOK, Drift!Pending, Drift!Begins, Drift!SpacingOK
<1> QED  BY <1>4, <1>5, <1>6 DEF Drift!IInv

LEMMA DriftReadLeadInv ==
  ASSUME Drift!IInv, NEW c \in Checker, Drift!ReadLead(c) PROVE Drift!IInv'
<1>1. PICK lead \in {"clear", "neutral", "over"} :
        /\ v1.age = 0 => lead = "neutral"
        /\ v3' = [v3 EXCEPT ![c] = [pc |-> "tick", lead |-> lead,
                                    generation |-> v1.generation]]
  BY DEF Drift!ReadLead
<1>2. v3[c].pc = "idle" /\ v1.streaming /\ UNCHANGED <<v1, v2, v4, v5>>
  BY DEF Drift!ReadLead, Drift!NoCheck
<1>3. /\ v3'[c] = [pc |-> "tick", lead |-> lead, generation |-> v1.generation]
      /\ \A d \in Checker \ {c} : v3'[d] = v3[d]
  BY <1>1 DEF Drift!IInv, Drift!Types
<1>4. Drift!Types'
  BY <1>1, <1>2 DEF Drift!IInv, Drift!Types, Drift!Check
<1>5. Drift!Pending' = Drift!Pending
  BY <1>2, <1>3 DEF Drift!Pending
<1>6. Drift!CountOK' /\ Drift!SpacingOK'
  BY <1>2 DEF Drift!IInv, Drift!CountOK, Drift!SpacingOK
<1>7. Drift!PendingOK'
  BY <1>1, <1>2, <1>3 DEF Drift!IInv, Drift!PendingOK
<1>8. Drift!RequestsOK'
  BY <1>2, <1>3 DEF Drift!IInv, Drift!RequestsOK, Drift!Allowed
<1>9. Drift!FiresOK'
  BY <1>2, <1>5, DriftSameFires DEF Drift!IInv
<1> QED  BY <1>4, <1>6, <1>7, <1>8, <1>9 DEF Drift!IInv

\* With nothing left to record, what on_tick keeps of the guard's memory is the
\* rebuilds of the hour.
LEMMA DriftRecentIsRebuilds ==
  ASSUME Drift!Types, Drift!FiresOK, ~Drift!Pending
  PROVE  /\ Len(Drift!Recent(v2.fires)) = Len(v4)
         /\ \A i \in 1..Len(v4) : Drift!Recent(v2.fires)[i] = v4[i]
<1>1. PICK k \in 0..Len(v2.fires) :
        /\ Drift!Begins(v2.fires, k + 1)
        /\ \A i \in 1..(Len(v2.fires) - k) : v4[i] = v2.fires[k + i]
        /\ Len(v4) = Len(v2.fires) - k
  BY DEF Drift!FiresOK
<1>2. v2.fires \in Seq(Nat)
  BY DEF Drift!Types
<1>3. PICK n \in 0..Len(v2.fires) :
        /\ \A m \in 0..Len(v2.fires) : Drift!Begins(v2.fires, m + 1) => m = n
        /\ Len(Drift!Recent(v2.fires)) = Len(v2.fires) - n
        /\ \A i \in 1..(Len(v2.fires) - n) : Drift!Recent(v2.fires)[i] = v2.fires[n + i]
  BY <1>2, DriftRecent
<1>4. n = k
  BY <1>1, <1>3
<1> QED  BY <1>1, <1>3, <1>4

\* Dropping rebuilds of more than an hour ago changes nothing that is known.
LEMMA DriftRecentFires ==
  ASSUME Drift!Types, Drift!FiresOK, v2'.fires = Drift!Recent(v2.fires), v4' = v4,
         Drift!Pending' = Drift!Pending
  PROVE  Drift!FiresOK' /\ v2'.fires \in Seq(Nat)
<1>1. PICK k \in 0..Len(v2.fires) :
        LET held == Len(v2.fires) - k
        IN  /\ Drift!Begins(v2.fires, k + 1)
            /\ \A i \in 1..held : v4[i] = v2.fires[k + i]
            /\ IF Drift!Pending THEN Len(v4) = held + 1 /\ v4[held + 1] = 0
               ELSE Len(v4) = held
  BY DEF Drift!FiresOK
<1>2. v2.fires \in Seq(Nat) /\ Len(v2.fires) \in Nat
  BY DEF Drift!Types
<1>3. PICK n \in 0..Len(v2.fires) :
        /\ \A m \in 0..Len(v2.fires) : Drift!Begins(v2.fires, m + 1) => m = n
        /\ Drift!Recent(v2.fires) \in Seq(Nat)
        /\ Len(Drift!Recent(v2.fires)) = Len(v2.fires) - n
        /\ \A i \in 1..(Len(v2.fires) - n) : Drift!Recent(v2.fires)[i] = v2.fires[n + i]
  BY <1>2, DriftRecent
<1>4. n = k
  BY <1>1, <1>3
<1>5. Drift!Begins(v2'.fires, 0 + 1)
  <2>1. k + 1 <= Len(v2.fires) => v2.fires[k + 1] < Hour
    BY <1>1 DEF Drift!Begins
  <2>2. 1 <= Len(v2'.fires) => v2'.fires[1] < Hour
    <3>1. 1 <= Len(v2'.fires) => 1 \in 1..(Len(v2.fires) - k) /\ k + 1 <= Len(v2.fires)
      BY <1>2, <1>3, <1>4
    <3> QED  BY <1>3, <1>4, <2>1, <3>1
  <2>3. \A j \in 1..((0 + 1) - 1) : FALSE
    OBVIOUS
  <2> QED  BY <2>2, <2>3 DEF Drift!Begins
<1>6. /\ Len(v2'.fires) - 0 = Len(v2.fires) - k /\ 0 \in 0..Len(v2'.fires)
      /\ \A i \in 1..(Len(v2.fires) - k) : v4'[i] = v2'.fires[0 + i]
  BY <1>1, <1>2, <1>3, <1>4
<1>7. IF Drift!Pending' THEN /\ Len(v4') = (Len(v2'.fires) - 0) + 1
                             /\ v4'[(Len(v2'.fires) - 0) + 1] = 0
      ELSE Len(v4') = Len(v2'.fires) - 0
  BY <1>1, <1>6
<1> HIDE DEF Drift!Pending
<1> QED  BY <1>3, <1>5, <1>6, <1>7 DEF Drift!FiresOK

LEMMA DriftOnTickInv ==
  ASSUME Drift!IInv, NEW c \in Checker, Drift!OnTick(c) PROVE Drift!IInv'
<1> DEFINE check == v3[c]
           seen == Drift!Observed(check)
           ticks == IF Drift!Counts(check) THEN Drift!Counted(seen, check.lead) ELSE seen
           due == Drift!Counts(check) /\ check.lead = "over" /\ ticks >= Sustain
           fires == IF due THEN Drift!Recent(v2.fires) ELSE v2.fires
           asks == due /\ Drift!Allowed(fires)
<1>1. /\ check.pc = "tick"
      /\ v2' = [generation |-> check.generation, ticks |-> ticks, fires |-> fires]
      /\ v3' = [v3 EXCEPT ![c] = IF asks THEN [check EXCEPT !.pc = "request"]
                                 ELSE Drift!NoCheck]
      /\ v5' = IF Drift!Counts(check) /\ check.generation = v1.generation
                 THEN Drift!Counted(v5, check.lead) ELSE v5
      /\ UNCHANGED <<v1, v4>>
  BY DEF Drift!OnTick
<1>2. /\ check \in Drift!Check /\ check.generation \in Built
      /\ check.lead \in {"clear", "neutral", "over"}
      /\ v2.ticks \in Nat /\ v5 \in Nat /\ Sustain \in Nat
  BY <1>1, DriftAssumption DEF Drift!IInv, Drift!Types, Drift!Check, Drift!NoCheck
<1>3. seen \in Nat /\ ticks \in Nat /\ v5' \in Nat
  BY <1>1, <1>2 DEF Drift!Observed, Drift!Counted, Drift!UpTo
<1>4. check.generation = v1.generation => ticks <= v5'
  <2>1. check.generation = v1.generation => seen <= v5
    BY <1>2 DEF Drift!Observed, Drift!IInv, Drift!CountOK
  <2>2. \A a, b \in Nat : a <= b => Drift!Counted(a, check.lead) <= Drift!Counted(b, check.lead)
    BY <1>2 DEF Drift!Counted, Drift!UpTo
  <2>3. CASE Drift!Counts(check)
    BY <1>1, <1>2, <1>3, <2>1, <2>2, <2>3
  <2>4. CASE ~Drift!Counts(check)
    BY <1>1, <2>1, <2>4
  <2> QED  BY <2>3, <2>4
<1>5. (due /\ v1.streaming /\ check.generation = v1.generation) => ~Drift!Pending
  <2>1. due => check.lead = "over"
    OBVIOUS
  <2>2. check # Drift!NoCheck
    BY <1>1 DEF Drift!NoCheck
  <2>3. ASSUME v1.streaming, check.generation = v1.generation, NEW e \in Checker,
               v3[e].pc = "record"
        PROVE  check.lead = "neutral"
    BY <2>2, <2>3 DEF Drift!IInv, Drift!PendingOK
  <2> QED  BY <2>1, <2>3 DEF Drift!Pending
<1>6. /\ v3'[c] = IF asks THEN [pc |-> "request", lead |-> check.lead,
                                generation |-> check.generation]
                  ELSE Drift!NoCheck
      /\ \A d \in Checker \ {c} : v3'[d] = v3[d]
      /\ v3' \in [Checker -> Drift!Check \union {Drift!NoCheck}]
  <2>1. [check EXCEPT !.pc = "request"] =
          [pc |-> "request", lead |-> check.lead, generation |-> check.generation]
    BY <1>2 DEF Drift!Check
  <2>2. v3' = [v3 EXCEPT ![c] = IF asks THEN [pc |-> "request", lead |-> check.lead,
                                              generation |-> check.generation]
                                ELSE Drift!NoCheck]
    BY <1>1, <2>1
  <2>3. v3 \in [Checker -> Drift!Check \union {Drift!NoCheck}]
    BY DEF Drift!IInv, Drift!Types
  <2>4. [pc |-> "request", lead |-> check.lead, generation |-> check.generation] \in Drift!Check
    BY <1>2 DEF Drift!Check
  <2> HIDE DEF asks, check
  <2> QED  BY <2>2, <2>3, <2>4
<1>7. Drift!Pending' = Drift!Pending
  BY <1>1, <1>6 DEF Drift!Pending, Drift!NoCheck
<1>8. v2'.fires = fires /\ v2'.ticks = ticks /\ v2'.generation = check.generation
  BY <1>1
<1>9. Drift!FiresOK' /\ fires \in Seq(Nat)
  <2>1. CASE due
    BY <1>1, <1>7, <1>8, <2>1, DriftRecentFires DEF Drift!IInv
  <2>2. CASE ~due
    <3>1. v2'.fires = v2.fires /\ v4' = v4
      BY <1>1, <1>8, <2>2
    <3>2. Drift!FiresOK'
      BY <1>7, <3>1 DEF Drift!IInv, Drift!FiresOK, Drift!Begins
    <3> QED  BY <1>8, <3>1, <3>2 DEF Drift!IInv, Drift!Types
  <2> HIDE DEF due
  <2> QED  BY <2>1, <2>2
<1>10. Drift!Types'
  <2>1. v2' \in [generation : Built \union {NULL}, ticks : Nat, fires : Seq(Nat)]
    <3> HIDE DEF ticks, fires
    <3> QED  BY <1>1, <1>2, <1>3, <1>9
  <2> HIDE DEF check, ticks, fires
  <2> QED  BY <1>1, <1>3, <1>6, <2>1 DEF Drift!IInv, Drift!Types
<1>11. Drift!CountOK' /\ Drift!SpacingOK'
  BY <1>1, <1>4, <1>8 DEF Drift!IInv, Drift!CountOK, Drift!SpacingOK
<1>12. Drift!PendingOK'
  <2>1. ASSUME v1.streaming, v3'[c] # Drift!NoCheck, check.generation = v1.generation
        PROVE  ~Drift!Pending
    BY <1>5, <1>6, <2>1
  <2>2. \/ v3'[c].pc # "record" /\ v3'[c].generation = check.generation
        \/ v3'[c] = Drift!NoCheck
    BY <1>6
  <2>3. Drift!NoCheck.pc # "record"
    BY DEF Drift!NoCheck
  <2> HIDE DEF check
  <2> QED  BY <1>1, <1>6, <2>1, <2>2, <2>3 DEF Drift!IInv, Drift!PendingOK, Drift!Pending
<1>13. Drift!RequestsOK'
  <2>1. ASSUME asks, v1.streaming, check.generation = v1.generation
        PROVE  Drift!Allowed(v4)
    <3>1. fires = Drift!Recent(v2.fires) /\ ~Drift!Pending
      BY <1>5, <2>1
    <3>2. Len(fires) = Len(v4) /\ \A i \in 1..Len(v4) : fires[i] = v4[i]
      BY <3>1, DriftRecentIsRebuilds DEF Drift!IInv
    <3>3. v4 \in Seq(Nat) /\ fires \in Seq(Nat)
      BY <1>9 DEF Drift!IInv, Drift!Types
    <3>4. Drift!Allowed(fires)
      BY <2>1
    <3> HIDE DEF fires
    <3>5. v4 # <<>> => fires # <<>> /\ Len(v4) \in 1..Len(v4)
      BY <3>2, <3>3
    <3> QED  BY <3>2, <3>4, <3>5 DEF Drift!Allowed
  <2>2. v3'[c].pc = "request" => asks /\ v3'[c].generation = check.generation
    BY <1>6 DEF Drift!NoCheck
  <2> HIDE DEF check, asks
  <2> QED  BY <1>1, <1>6, <2>1, <2>2 DEF Drift!IInv, Drift!RequestsOK, Drift!Allowed
<1> QED  BY <1>9, <1>10, <1>11, <1>12, <1>13 DEF Drift!IInv

LEMMA DriftRequestInv ==
  ASSUME Drift!IInv, NEW c \in Checker, Drift!Request(c) PROVE Drift!IInv'
<1> DEFINE confirmed == v1.generation = v3[c].generation /\ v1.streaming
<1>1. /\ v3[c].pc = "request"
      /\ v1' = [v1 EXCEPT !.streaming = v1.streaming /\ ~confirmed]
      /\ v4' = IF confirmed THEN Append(v4, 0) ELSE v4
      /\ v3' = [v3 EXCEPT ![c] = IF confirmed THEN [v3[c] EXCEPT !.pc = "record"]
                                 ELSE Drift!NoCheck]
      /\ UNCHANGED <<v2, v5>>
  BY DEF Drift!Request
<1>2. v3[c] \in Drift!Check /\ v1 \in [generation : Built, age : Nat, streaming : BOOLEAN]
  BY <1>1 DEF Drift!IInv, Drift!Types, Drift!NoCheck
<1> DEFINE recorded == [pc |-> "record", lead |-> v3[c].lead, generation |-> v3[c].generation]
<1>3. /\ v3'[c] = IF confirmed THEN recorded ELSE Drift!NoCheck
      /\ \A d \in Checker \ {c} : v3'[d] = v3[d]
      /\ v3' \in [Checker -> Drift!Check \union {Drift!NoCheck}]
  <2>1. [v3[c] EXCEPT !.pc = "record"] = recorded /\ recorded \in Drift!Check
    BY <1>2 DEF Drift!Check
  <2>2. v3' = [v3 EXCEPT ![c] = IF confirmed THEN recorded ELSE Drift!NoCheck]
    BY <1>1, <2>1
  <2>3. v3 \in [Checker -> Drift!Check \union {Drift!NoCheck}]
    BY DEF Drift!IInv, Drift!Types
  <2> HIDE DEF recorded, confirmed
  <2> QED  BY <2>1, <2>2, <2>3
<1>4. /\ v1' \in [generation : Built, age : Nat, streaming : BOOLEAN]
      /\ v1'.generation = v1.generation /\ v1'.age = v1.age
      /\ v1'.streaming => v1.streaming
      /\ confirmed => ~v1'.streaming
      /\ ~confirmed => v1'.streaming = v1.streaming
  <2> HIDE DEF confirmed
  <2>1. CASE confirmed
    <3>1. v1' = [generation |-> v1.generation, age |-> v1.age, streaming |-> FALSE]
      BY <1>1, <1>2, <2>1
    <3> QED  BY <1>2, <2>1, <3>1
  <2>2. CASE ~confirmed
    <3>1. v1' = [generation |-> v1.generation, age |-> v1.age, streaming |-> v1.streaming]
      BY <1>1, <1>2, <2>2
    <3> QED  BY <1>2, <2>2, <3>1
  <2> QED  BY <2>1, <2>2
\* A check that asks for a rebuild of the pipeline is there when none is pending.
<1>5. confirmed => ~Drift!Pending /\ Drift!Allowed(v4)
  <2>1. confirmed => Drift!Allowed(v4)
    BY <1>1 DEF Drift!IInv, Drift!RequestsOK
  <2>2. ASSUME confirmed, NEW e \in Checker, v3[e].pc = "record" PROVE FALSE
    BY <1>1, <2>2 DEF Drift!IInv, Drift!PendingOK, Drift!NoCheck
  <2> QED  BY <2>1, <2>2 DEF Drift!Pending
<1>6. v4 \in Seq(Nat) /\ Len(v4) \in Nat /\ v4' \in Seq(Nat)
  BY <1>1 DEF Drift!IInv, Drift!Types
<1>7. confirmed => /\ Len(v4') = Len(v4) + 1 /\ v4'[Len(v4) + 1] = 0
                   /\ \A i \in 1..Len(v4) : v4'[i] = v4[i]
  BY <1>1, <1>6
<1>8. ~confirmed => v4' = v4
  BY <1>1
<1>9. confirmed => Drift!Pending'
  BY <1>3 DEF Drift!Pending
<1>10. ~confirmed => Drift!Pending' = Drift!Pending
  BY <1>1, <1>3 DEF Drift!Pending, Drift!NoCheck
<1> HIDE DEF confirmed
<1>11. Drift!Types'
  BY <1>1, <1>3, <1>4, <1>6 DEF Drift!IInv, Drift!Types
<1>12. Drift!CountOK'
  BY <1>1, <1>4 DEF Drift!IInv, Drift!CountOK
<1>13. Drift!PendingOK'
  <2>1. CASE confirmed
    <3>1. ASSUME NEW e \in Checker \ {c} PROVE v3'[e].pc # "record"
      BY <1>3, <1>5, <2>1 DEF Drift!Pending
    <3> QED  BY <1>4, <2>1, <3>1 DEF Drift!PendingOK
  <2>2. CASE ~confirmed
    BY <1>3, <1>4, <2>2 DEF Drift!IInv, Drift!PendingOK, Drift!NoCheck
  <2> QED  BY <2>1, <2>2
<1>14. Drift!RequestsOK'
  <2>1. CASE confirmed
    BY <1>4, <2>1 DEF Drift!RequestsOK
  <2>2. CASE ~confirmed
    BY <1>3, <1>4, <1>8, <2>2 DEF Drift!IInv, Drift!RequestsOK, Drift!NoCheck, Drift!Allowed
  <2> QED  BY <2>1, <2>2
<1>15. Drift!FiresOK'
  <2>1. CASE confirmed
    <3>1. PICK k \in 0..Len(v2.fires) :
            /\ Drift!Begins(v2.fires, k + 1)
            /\ \A i \in 1..(Len(v2.fires) - k) : v4[i] = v2.fires[k + i]
            /\ Len(v4) = Len(v2.fires) - k
      BY <1>5, <2>1 DEF Drift!IInv, Drift!FiresOK
    <3>2. /\ \A i \in 1..(Len(v2.fires) - k) : v4'[i] = v2.fires[k + i]
          /\ Len(v4') = (Len(v2.fires) - k) + 1 /\ v4'[(Len(v2.fires) - k) + 1] = 0
      BY <1>7, <2>1, <3>1
    <3>3. Drift!Begins(v2'.fires, k + 1) /\ v2' = v2
      BY <1>1, <3>1 DEF Drift!Begins
    <3>4. Drift!Pending'
      BY <1>9, <2>1
    <3> HIDE DEF Drift!Pending
    <3> QED  BY <3>2, <3>3, <3>4 DEF Drift!FiresOK
  <2>2. CASE ~confirmed
    <3>1. UNCHANGED <<v2, v4>> /\ Drift!Pending' = Drift!Pending
      BY <1>1, <1>8, <1>10, <2>2
    <3> QED  BY <3>1, DriftSameFires DEF Drift!IInv
  <2> QED  BY <2>1, <2>2
<1>16. Drift!SpacingOK'
  <2>1. CASE confirmed
    <3>1. /\ Len(v4) \in Nat /\ \A i \in 1..Len(v4) : v4[i] \in Nat
          /\ \A i, j \in 1..Len(v4) : i < j => v4[i] >= v4[j] + Spacing
          /\ Spacing \in Nat /\ MaxRebuilds \in Nat
      BY DriftAssumption DEF Drift!IInv, Drift!Types, Drift!SpacingOK
    <3>2. /\ v4 # <<>> => v4[Len(v4)] >= Spacing
          /\ Len(v4) < MaxRebuilds
      BY <1>5, <2>1 DEF Drift!Allowed
    <3>3. Len(v4') <= MaxRebuilds
      BY <1>7, <2>1, <3>1, <3>2
    <3>4. ASSUME NEW i \in 1..Len(v4'), NEW j \in 1..Len(v4'), i < j
          PROVE  v4'[i] >= v4'[j] + Spacing
      <4>1. i \in 1..Len(v4) /\ v4'[i] = v4[i] /\ v4[i] \in Nat
        BY <1>7, <2>1, <3>1, <3>4
      <4>2. CASE j = Len(v4) + 1
        <5>1. v4 # <<>> /\ Len(v4) \in 1..Len(v4) /\ v4[Len(v4)] >= Spacing
          BY <1>6, <3>2, <4>1
        <5>2. i = Len(v4) \/ (i < Len(v4) /\ v4[i] >= v4[Len(v4)] + Spacing)
          BY <3>1, <4>1, <5>1
        <5>3. v4[i] >= Spacing
          BY <3>1, <4>1, <5>1, <5>2
        <5> QED  BY <1>7, <2>1, <3>1, <4>1, <4>2, <5>3
      <4>3. CASE j \in 1..Len(v4)
        BY <1>7, <2>1, <3>1, <3>4, <4>1, <4>3
      <4> QED  BY <1>7, <2>1, <3>1, <4>2, <4>3
    <3> QED  BY <3>3, <3>4 DEF Drift!SpacingOK
  <2>2. CASE ~confirmed
    BY <1>8, <2>2 DEF Drift!IInv, Drift!SpacingOK
  <2> QED  BY <2>1, <2>2
<1> QED  BY <1>11, <1>12, <1>13, <1>14, <1>15, <1>16 DEF Drift!IInv

LEMMA DriftRecordInv ==
  ASSUME Drift!IInv, NEW c \in Checker, Drift!Record(c) PROVE Drift!IInv'
<1>1. /\ v3[c].pc = "record"
      /\ v2' = [v2 EXCEPT !.ticks = 0, !.fires = Append(v2.fires, 0)]
      /\ v3' = [v3 EXCEPT ![c] = Drift!NoCheck]
      /\ UNCHANGED <<v1, v4, v5>>
  BY DEF Drift!Record
<1>2. v2 \in [generation : Built \union {NULL}, ticks : Nat, fires : Seq(Nat)]
  BY DEF Drift!IInv, Drift!Types
<1>3. v2' = [generation |-> v2.generation, ticks |-> 0, fires |-> Append(v2.fires, 0)]
  BY <1>1, <1>2
<1>4. v3'[c] = Drift!NoCheck /\ \A d \in Checker \ {c} : v3'[d] = v3[d]
  BY <1>1 DEF Drift!IInv, Drift!Types
<1>5. \A d \in Checker \ {c} : v3[d].pc # "record"
  BY <1>1 DEF Drift!IInv, Drift!PendingOK
<1>6. Drift!Pending /\ ~Drift!Pending'
  BY <1>1, <1>4, <1>5 DEF Drift!Pending, Drift!NoCheck
<1>7. Drift!Types'
  <2>1. v2' \in [generation : Built \union {NULL}, ticks : Nat, fires : Seq(Nat)]
    BY <1>2, <1>3
  <2>2. v3' \in [Checker -> Drift!Check \union {Drift!NoCheck}]
    BY <1>1 DEF Drift!IInv, Drift!Types
  <2> QED  BY <1>1, <2>1, <2>2 DEF Drift!IInv, Drift!Types
<1>8. Drift!CountOK' /\ Drift!SpacingOK'
  BY <1>1, <1>3 DEF Drift!IInv, Drift!CountOK, Drift!SpacingOK, Drift!Types
<1>9. Drift!PendingOK'
  BY <1>4, <1>5 DEF Drift!PendingOK, Drift!NoCheck
<1>10. Drift!RequestsOK'
  <2>1. ASSUME NEW d \in Checker \ {c}, v3[d].pc = "request", v1.streaming,
               v3[d].generation = v1.generation
        PROVE  FALSE
    BY <1>1, <2>1 DEF Drift!IInv, Drift!PendingOK, Drift!NoCheck
  <2> QED  BY <1>1, <1>4, <2>1 DEF Drift!RequestsOK, Drift!NoCheck
<1>11. Drift!FiresOK'
  <2>1. PICK k \in 0..Len(v2.fires) :
          /\ Drift!Begins(v2.fires, k + 1)
          /\ \A i \in 1..(Len(v2.fires) - k) : v4[i] = v2.fires[k + i]
          /\ Len(v4) = (Len(v2.fires) - k) + 1 /\ v4[(Len(v2.fires) - k) + 1] = 0
    BY <1>6 DEF Drift!IInv, Drift!FiresOK
  <2>2. /\ Len(v2.fires) \in Nat /\ Len(v2'.fires) = Len(v2.fires) + 1
        /\ v2'.fires[Len(v2.fires) + 1] = 0
        /\ \A i \in 1..Len(v2.fires) : v2'.fires[i] = v2.fires[i]
    BY <1>2, <1>3
  <2>3. k \in 0..Len(v2'.fires) /\ (k + 1) - 1 = k /\ Hour \in Nat \ {0}
    BY <2>2, DriftAssumption
  <2>4. Drift!Begins(v2'.fires, k + 1)
    <3>1. \A j \in 1..k : v2'.fires[j] >= Hour
      <4>1. \A j \in 1..k : v2.fires[j] >= Hour /\ j \in 1..Len(v2.fires)
        BY <2>1, <2>3 DEF Drift!Begins
      <4> QED  BY <2>2, <4>1
    <3>2. k + 1 <= Len(v2'.fires) => v2'.fires[k + 1] < Hour
      <4>1. CASE k = Len(v2.fires)
        BY <2>2, <2>3, <4>1
      <4>2. CASE k < Len(v2.fires)
        <5>1. k + 1 \in 1..Len(v2.fires) /\ v2.fires[k + 1] < Hour
          BY <2>1, <2>2, <4>2 DEF Drift!Begins
        <5> QED  BY <2>2, <5>1
      <4> QED  BY <2>2, <4>1, <4>2
    <3> QED  BY <2>3, <3>1, <3>2 DEF Drift!Begins
  <2>5. Len(v4') = Len(v2'.fires) - k
    BY <1>1, <2>1, <2>2
  <2>6. ASSUME NEW i \in 1..(Len(v2'.fires) - k) PROVE v4'[i] = v2'.fires[k + i]
    <3>1. CASE i = (Len(v2.fires) - k) + 1
      <4>1. k + i = Len(v2.fires) + 1
        BY <2>2, <3>1
      <4> QED  BY <1>1, <2>1, <2>2, <3>1, <4>1
    <3>2. CASE i # (Len(v2.fires) - k) + 1
      <4>1. i \in 1..(Len(v2.fires) - k) /\ k + i \in 1..Len(v2.fires)
        BY <2>2, <3>2
      <4> QED  BY <1>1, <2>1, <2>2, <4>1
    <3> QED  BY <3>1, <3>2
  <2> QED  BY <1>6, <2>3, <2>4, <2>5, <2>6 DEF Drift!FiresOK
<1> QED  BY <1>7, <1>8, <1>9, <1>10, <1>11 DEF Drift!IInv

LEMMA DriftStepInv == ASSUME Drift!IInv, [Drift!Next]_(Drift!driftVars) PROVE Drift!IInv'
<1>1. CASE Drift!Window
  BY <1>1, DriftWindowInv
<1>2. CASE Drift!Die \/ UNCHANGED Drift!driftVars
  BY <1>2, DriftDieInv
<1>3. CASE Drift!Replace
  BY <1>3, DriftReplaceInv
<1>4. ASSUME NEW c \in Checker,
             Drift!ReadLead(c) \/ Drift!OnTick(c) \/ Drift!Request(c) \/ Drift!Record(c)
      PROVE  Drift!IInv'
  BY <1>4, DriftReadLeadInv, DriftOnTickInv, DriftRequestInv, DriftRecordInv
<1> QED  BY <1>1, <1>2, <1>3, <1>4 DEF Drift!Next

\* A check that asks for a rebuild of the pipeline has counted no window that
\* was not one of the pipeline's own.
LEMMA DriftOnTickEarned ==
  ASSUME Drift!IInv, NEW c \in Checker, Drift!OnTick(c),
         v3'[c].pc = "request", v3[c].generation = v1.generation
  PROVE  v5' >= Sustain
<1> DEFINE seen == Drift!Observed(v3[c])
           ticks == Drift!Counted(seen, "over")
<1>1. v3[c].pc = "tick" /\ v3'[c] # Drift!NoCheck
  BY DEF Drift!OnTick, Drift!NoCheck
<1>2. /\ v3[c].lead = "over" /\ ticks >= Sustain
      /\ v5' = Drift!Counted(v5, "over")
  BY <1>1 DEF Drift!OnTick, Drift!IInv, Drift!Types, Drift!Counts
<1>3. v2.ticks \in Nat /\ v5 \in Nat /\ Sustain \in Nat
  BY DriftAssumption DEF Drift!IInv, Drift!Types
<1>4. seen \in Nat /\ seen <= v5
  BY <1>3 DEF Drift!Observed, Drift!IInv, Drift!CountOK
<1> HIDE DEF seen
<1> QED  BY <1>2, <1>3, <1>4 DEF Drift!Counted, Drift!UpTo

LEMMA DriftEarned == ASSUME Drift!IInv, [Drift!Next]_(Drift!driftVars)
                     PROVE  Drift!Earned
<1>1. ASSUME NEW c \in Checker, v3'[c].pc = "request", v3[c].pc = "tick",
             v3[c].generation = v1.generation
      PROVE  v5' >= Sustain
  <2>1. v3' # v3
    BY <1>1
  <2>2. ASSUME NEW d \in Checker, NEW after, v3' = [v3 EXCEPT ![d] = after] PROVE d = c
    <3>1. v3'[c] # v3[c]
      BY <1>1
    <3> QED  BY <2>2, <3>1 DEF Drift!IInv, Drift!Types
  <2>3. ASSUME NEW d \in Checker, Drift!ReadLead(d) \/ Drift!Request(d) \/ Drift!Record(d)
        PROVE  FALSE
    <3>1. v3[d].pc # "tick"
      BY <2>3 DEF Drift!ReadLead, Drift!Request, Drift!Record, Drift!NoCheck
    <3>2. \E after : v3' = [v3 EXCEPT ![d] = after]
      BY <2>3 DEF Drift!ReadLead, Drift!Request, Drift!Record
    <3> QED  BY <1>1, <2>2, <3>1, <3>2
  <2>4. ~Drift!Window /\ ~Drift!Die /\ ~Drift!Replace /\ ~UNCHANGED Drift!driftVars
    BY <2>1 DEF Drift!Window, Drift!Die, Drift!Replace, Drift!driftVars
  <2>5. ASSUME NEW d \in Checker, Drift!OnTick(d) PROVE v5' >= Sustain
    <3>1. \E after : v3' = [v3 EXCEPT ![d] = after]
      BY <2>5 DEF Drift!OnTick
    <3> QED  BY <1>1, <2>2, <2>5, <3>1, DriftOnTickEarned
  <2> QED  BY <2>3, <2>4, <2>5 DEF Drift!Next
<1> QED  BY <1>1 DEF Drift!Earned

DriftInv == loop = "drift" => Drift!IInv

LEMMA DriftInvariant == MCSpec => []DriftInv
<1>1. MCInit => DriftInv
  BY LoopInits, DriftInitInv DEF DriftInv
<1>2. DriftInv /\ [MCNext]_loopVars => DriftInv'
  BY LoopSteps, DriftStepInv DEF DriftInv
<1> QED  BY <1>1, <1>2, PTL DEF MCSpec

\* The drift rebuilds of a source are spaced and an hour has no more than its
\* budget (manager/drift_guard.rs, #854), whatever the limits, however many
\* supervisors are in their check at once, and whenever its pipeline dies or is
\* replaced: between the rebuild and the record of it no other is confirmed.
THEOREM DriftRebuildsAreSpaced == MCSpec => []RebuildsAreSpaced
<1>1. DriftInv => RebuildsAreSpaced
  <2> SUFFICES ASSUME Drift!IInv PROVE Drift!RebuildsAreSpaced
    BY DEF DriftInv, RebuildsAreSpaced
  <2>1. Len(v4) <= MaxRebuilds /\ Len(v4) \in Nat
        /\ \A i, j \in 1..Len(v4) : i < j => v4[i] >= v4[j] + Spacing
    BY DEF Drift!IInv, Drift!Types, Drift!SpacingOK
  <2>2. ASSUME NEW i \in 2..Len(v4) PROVE v4[i - 1] >= v4[i] + Spacing
    <3>1. i - 1 \in 1..Len(v4) /\ i \in 1..Len(v4) /\ i - 1 < i
      BY <2>1
    <3> QED  BY <2>1, <3>1
  <2> QED  BY <2>1, <2>2 DEF Drift!RebuildsAreSpaced
<1> QED  BY <1>1, DriftInvariant, PTL

\* No drift rebuild is asked of a pipeline for windows that were another's, or
\* of its start-up (DriftGuard.observe, DriftGuard.on_tick).
THEOREM DriftRebuildsAreEarned == MCSpec => RebuildsAreEarned
<1>1. DriftInv /\ [MCNext]_loopVars => [loop = "drift" => Drift!Earned]_loopVars
  BY LoopSteps, DriftEarned DEF DriftInv
<1> QED  BY <1>1, DriftInvariant, PTL DEF MCSpec, RebuildsAreEarned

-----------------------------------------------------------------------------
(* The worker of a Resolume host: v1 is Arena, v2 the mapping, v3 the lane, v4  *)
(* what is tracked, v6 the health, v7 the push; v8 says whether the worker can  *)
(* know what is live, v9 what was left dim and v10 the fetches.                 *)

LEMMA HostOther == /\ Host!Other("A") = "B" /\ Host!Other("B") = "A"
                   /\ \A s \in Host!Side : Host!Other(s) \in Host!Side \ {s}
BY DEF Host!Other, Host!Side

LEMMA HostKinds ==
  /\ NULL \notin Host!Levels /\ NULL \notin Host!Clip /\ NULL \notin Host!Mappings
  /\ Host!Untracked.base = 2 /\ Host!Untracked.level = NULL
  /\ Host!Untracked \notin [base : Host!Levels, level : Host!Levels]
  /\ Host!Rest.pc = "idle" /\ Host!Rest \notin Host!Pushes
  /\ Host!Dark = 0 /\ Host!Full = 2 /\ Host!Levels = 0..2
  /\ Threshold \in Nat
BY HostAssumption
   DEF Host!Untracked, Host!Rest, Host!Pushes, Host!OnMapping, Host!Dark, Host!Full, Host!Levels

\* A clip of the deck of the mapping is one of its sides.
LEMMA HostClips ==
  ASSUME Host!Types
  PROVE  /\ v2 # NULL => v2 \in Host!Mappings /\ Host!Target \in Host!Clip
         /\ \A c \in Host!Clip : c = <<c[1], c[2]>> /\ c[1] \in Deck /\ c[2] \in Host!Side
         /\ \A d \in Deck, s \in Host!Side : <<d, s>> \in Host!Clip
BY DEF Host!Types, Host!Clip, Host!Target, Host!Mappings

LEMMA HostInitInv == Host!Init => Host!IInv
<1> SUFFICES ASSUME Host!Init PROVE Host!IInv
  OBVIOUS
<1>1. (CHOOSE d \in Deck : TRUE) \in Deck
  BY HostAssumption
<1>2. Host!Types
  BY <1>1, HostKinds
     DEF Host!Init, Host!Types, Host!NewLane, Host!Side, Host!Off
<1>3. Host!PushOK /\ Host!SyncedOK /\ Host!VersesAreVisible
  BY HostKinds
     DEF Host!Init, Host!PushOK, Host!SyncedOK, Host!VersesAreVisible, Host!At, Host!OnMapping
<1>4. Host!LanesOK /\ Host!CausesOK /\ Host!ShownOK
  BY DEF Host!Init, Host!LanesOK, Host!CausesOK, Host!ShownOK, Host!NewLane
<1>5. Host!LevelsOK
  BY DEF Host!Init, Host!LevelsOK
<1> QED  BY <1>2, <1>3, <1>4, <1>5 DEF Host!IInv

-----------------------------------------------------------------------------
(* How a push goes on, and how it ends *)

LEMMA HostGoto ==
  ASSUME Host!Types, v7.pc # "idle", NEW pc \in Host!OnMapping \union {"fetch"}, Host!Goto(pc)
  PROVE  /\ v7' \in Host!Pushes /\ v7'.pc = pc /\ v7'.kind = v7.kind
         /\ v7'.fetched = v7.fetched /\ v7'.retry = v7.retry
<1>1. v7 \in Host!Pushes
  BY HostKinds DEF Host!Types
<1> QED  BY <1>1 DEF Host!Goto, Host!Pushes

LEMMA HostBegin ==
  ASSUME NEW kind \in Host!Kinds, NEW pc \in Host!OnMapping \union {"fetch"},
         Host!Begin(kind, pc)
  PROVE  v7' \in Host!Pushes /\ v7'.pc = pc /\ v7'.kind = kind
BY DEF Host!Begin, Host!Pushes

LEMMA HostSucceed ==
  ASSUME Host!Types, Host!Succeed
  PROVE  /\ v7' = Host!Rest /\ v7'.pc = "idle" /\ v6'.paused = v6.paused
         /\ v6' \in [failures : Nat, backoff : BOOLEAN, paused : BOOLEAN]
BY HostKinds DEF Host!Succeed, Host!Types

LEMMA HostFail ==
  ASSUME Host!Types, Host!Fail
  PROVE  /\ v7' = Host!Rest /\ v7'.pc = "idle" /\ v2' \in {v2, NULL} /\ v10' = 0
         /\ v6' \in [failures : Nat, backoff : BOOLEAN, paused : BOOLEAN]
<1>1. Host!Failures \in Nat
  BY HostKinds DEF Host!Failures, Host!Types
<1>2. v6' = [failures |-> Host!Failures, backoff |-> TRUE, paused |-> v6.paused]
  BY DEF Host!Fail, Host!Types
<1>3. v7' = Host!Rest /\ v2' \in {v2, NULL} /\ v10' = 0
  BY DEF Host!Fail
<1> QED  BY <1>1, <1>2, <1>3, HostKinds DEF Host!Types

\* A stale id ends the push, with the refetches paused, or has it fetch, once.
LEMMA HostStale ==
  ASSUME Host!Types, v7.pc # "idle", Host!Stale
  PROVE  /\ v10' = v10
         /\ v6' \in [failures : Nat, backoff : BOOLEAN, paused : BOOLEAN]
         /\ \/ v7' = Host!Rest /\ v7'.pc = "idle" /\ v2' = v2 /\ v6'.paused
            \/ /\ v2' = NULL /\ v7' \in Host!Pushes
               /\ v7'.pc = "fetch" /\ v7'.retry /\ v7'.kind = v7.kind
               /\ ~v7.fetched /\ ~v6.paused
<1>1. v7 \in Host!Pushes /\ Host!Failures \in Nat
  BY HostKinds DEF Host!Types, Host!Failures
<1>2. CASE v7.fetched \/ v7.retry \/ v6.paused
  <2>1. Host!Refuse(TRUE) /\ v10' = v10
    BY <1>2 DEF Host!Stale, Host!GiveUp
  <2> QED  BY <1>1, <2>1, HostKinds DEF Host!Refuse
<1>3. CASE ~v7.fetched /\ ~v7.retry /\ ~v6.paused
  <2>1. /\ v2' = NULL /\ v6' = v6 /\ v10' = v10
        /\ v7' = [v7 EXCEPT !.pc = "fetch", !.retry = TRUE]
    BY <1>3 DEF Host!Stale
  <2>2. v7' = [pc |-> "fetch", kind |-> v7.kind, retry |-> TRUE,
               fetched |-> v7.fetched, fade |-> v7.fade]
    BY <1>1, <2>1 DEF Host!Pushes
  <2>3. v7' \in Host!Pushes
    BY <1>1, <2>2 DEF Host!Pushes
  <2>4. v7'.pc = "fetch" /\ v7'.retry /\ v7'.kind = v7.kind
    BY <2>2
  <2> QED  BY <1>3, <2>1, <2>3, <2>4 DEF Host!Types
<1> QED  BY <1>2, <1>3

-----------------------------------------------------------------------------
(* What a step keeps by what it leaves alone *)

LEMMA HostMemory ==
  ASSUME Host!IInv, UNCHANGED <<v1, v3, v4, v8, v9>>, v2' \in {v2, NULL}
  PROVE  Host!LanesOK' /\ Host!LevelsOK' /\ Host!ShownOK'
BY DEF Host!IInv, Host!LanesOK, Host!LevelsOK, Host!ShownOK

LEMMA HostMemoryTypes ==
  ASSUME Host!Types, UNCHANGED <<v1, v3, v4, v8>>, v2' \in {v2, NULL},
         v6' \in [failures : Nat, backoff : BOOLEAN, paused : BOOLEAN],
         v7' \in Host!Pushes \union {Host!Rest}
  PROVE  Host!Types'
BY DEF Host!Types

\* Nothing is asked of the mapping before it is synced.
LEMMA HostEarly ==
  ASSUME v7'.pc \in {"idle", "fetch", "deck", "probe", "sync"}
  PROVE  Host!SyncedOK' /\ Host!VersesAreVisible'
BY DEF Host!SyncedOK, Host!VersesAreVisible, Host!At

LEMMA HostEarlyPush ==
  ASSUME v7'.pc \in {"idle", "fetch", "deck", "probe"},
         v7'.pc \in {"deck", "probe"} => v2' # NULL
  PROVE  Host!PushOK'
BY DEF Host!PushOK, Host!OnMapping

LEMMA HostNoFetches == v10' = 0 => Host!CausesOK'
BY DEF Host!CausesOK

\* An id that is stale on the composition there is, is one that Arena rejects;
\* a verse that fetched for it does not fetch again.
LEMMA HostStaleCauses ==
  ASSUME Host!IInv, ~Host!Knows, v2 # NULL, v7.pc # "fetch",
         v7.kind = "verse" \/ ~v2.current, Host!Stale, v1' = v1, v7.pc # "idle"
  PROVE  Host!CausesOK'
<1>1. v10 = 0 \/ (v1.broken /\ v7.kind = "verse")
  BY DEF Host!Knows, Host!IInv, Host!CausesOK
<1>2. Host!Types /\ v10 \in 0..2
  BY DEF Host!IInv, Host!CausesOK
<1>3. CASE v7'.pc = "idle" /\ v2' = v2 /\ v6'.paused /\ v10' = v10
  BY <1>2, <1>3 DEF Host!CausesOK, Host!IInv, Host!At
<1>4. CASE /\ v2' = NULL /\ v7'.pc = "fetch" /\ v7'.retry /\ v7'.kind = v7.kind
           /\ ~v7.fetched /\ ~v6.paused /\ v10' = v10
  <2>1. v10 # 2
    BY <1>1, <1>4 DEF Host!CausesOK, Host!IInv
  <2>2. v10 \in {0, 1}
    BY <1>2, <2>1
  <2> QED  BY <1>1, <1>4, <2>2 DEF Host!CausesOK, Host!At
<1> QED  BY <1>2, <1>3, <1>4, HostStale
-----------------------------------------------------------------------------
(* What happens in Arena, and what begins *)

LEMMA HostSwitchDeckInv == ASSUME Host!IInv, Host!SwitchDeck PROVE Host!IInv'
<1>1. PICK d \in Deck : v1' = [v1 EXCEPT !.deck = d]
  BY DEF Host!SwitchDeck
<1>2. v10' = 0 /\ UNCHANGED <<v2, v3, v4, v5, v6, v7, v8, v9>>
  BY DEF Host!SwitchDeck, Host!driver
<1>3. Host!Types' /\ v1'.live = v1.live /\ v1'.level = v1.level
  BY <1>1, <1>2 DEF Host!IInv, Host!Types
<1>4. Host!PushOK' /\ Host!LanesOK' /\ Host!LevelsOK' /\ Host!ShownOK' /\ Host!SyncedOK'
  BY <1>2, <1>3
     DEF Host!IInv, Host!PushOK, Host!LanesOK, Host!LevelsOK, Host!ShownOK, Host!SyncedOK
<1>5. Host!VersesAreVisible'
  BY <1>2, <1>3 DEF Host!IInv, Host!VersesAreVisible, Host!At, Host!Target
<1> QED  BY <1>2, <1>3, <1>4, <1>5, HostNoFetches DEF Host!IInv

LEMMA HostLoadInv == ASSUME Host!IInv, Host!Load PROVE Host!IInv'
<1>1. PICK broken \in BOOLEAN :
        v1' = [v1 EXCEPT !.live = NULL, !.level = [c \in Host!Clip |-> 2], !.broken = broken]
  BY HostKinds DEF Host!Load, Host!Off
<1>2. /\ v2' = IF v2 = NULL THEN NULL ELSE [v2 EXCEPT !.current = FALSE]
      /\ v4' = [c \in Host!Clip |-> Host!Untracked]
      /\ v8' = TRUE /\ v9' = {} /\ v10' = 0
      /\ UNCHANGED <<v3, v6, v7>>
  BY DEF Host!Load
<1>3. v1' = [deck |-> v1.deck, live |-> NULL, level |-> [c \in Host!Clip |-> 2],
             broken |-> broken]
  BY <1>1 DEF Host!IInv, Host!Types
<1>4. \/ v2 = NULL /\ v2' = NULL
      \/ /\ v2 # NULL /\ v2' # NULL /\ v2' \in Host!Mappings
         /\ ~v2'.current /\ v2'.synced = v2.synced
  <2>1. CASE v2 # NULL
    <3>1. v2 \in Host!Mappings /\ v2' = [v2 EXCEPT !.current = FALSE]
      BY <1>2, <2>1 DEF Host!IInv, Host!Types
    <3>2. v2' \in Host!Mappings /\ ~v2'.current /\ v2'.synced = v2.synced
      BY <3>1 DEF Host!Mappings
    <3> QED  BY <2>1, <3>2, HostKinds
  <2> QED  BY <1>2, <2>1
<1>5. Host!Types'
  <2>1. v1' \in [deck : Deck, live : Host!Clip \union {Host!Off},
                 level : [Host!Clip -> Host!Levels], broken : BOOLEAN]
    BY <1>3, HostKinds DEF Host!Off, Host!IInv, Host!Types
  <2>2. v4' \in [Host!Clip -> [base : Host!Levels, level : Host!Levels] \union {Host!Untracked}]
    BY <1>2
  <2> QED  BY <1>2, <1>4, <2>1, <2>2 DEF Host!IInv, Host!Types
<1>6. Host!PushOK' /\ Host!SyncedOK'
  BY <1>2, <1>4 DEF Host!IInv, Host!PushOK, Host!SyncedOK, Host!OnMapping
<1>7. Host!LanesOK'
  BY <1>2, <1>3, <1>4 DEF Host!IInv, Host!LanesOK, Host!Off
<1>8. Host!LevelsOK'
  BY <1>2, <1>3, HostKinds DEF Host!LevelsOK
<1>9. Host!ShownOK' /\ Host!VersesAreVisible'
  BY <1>2, <1>4 DEF Host!IInv, Host!ShownOK, Host!VersesAreVisible, Host!PushOK, Host!At,
                    Host!OnMapping
<1> QED  BY <1>2, <1>5, <1>6, <1>7, <1>8, <1>9, HostNoFetches DEF Host!IInv

LEMMA HostByHandInv == ASSUME Host!IInv, Host!ByHand PROVE Host!IInv'
<1>1. PICK s \in Host!Side : v1' = [v1 EXCEPT !.live = <<v1.deck, s>>]
  BY DEF Host!ByHand
<1>2. v8' = FALSE /\ UNCHANGED <<v2, v3, v4, v5, v6, v7, v9, v10>>
  BY DEF Host!ByHand, Host!driver
<1>3. /\ Host!Types' /\ v1'.deck = v1.deck /\ v1'.level = v1.level
      /\ v1'.broken = v1.broken
  BY <1>1, <1>2 DEF Host!IInv, Host!Types, Host!Clip
<1>4. Host!PushOK' /\ Host!LanesOK' /\ Host!LevelsOK' /\ Host!ShownOK' /\ Host!SyncedOK'
  BY <1>2, <1>3
     DEF Host!IInv, Host!PushOK, Host!LanesOK, Host!LevelsOK, Host!ShownOK, Host!SyncedOK
<1>5. Host!VersesAreVisible' /\ Host!CausesOK'
  BY <1>2, <1>3 DEF Host!IInv, Host!VersesAreVisible, Host!At, Host!Target, Host!CausesOK
<1> QED  BY <1>3, <1>4, <1>5 DEF Host!IInv

\* What leaves the count alone, and goes no further than a verse of before.
LEMMA HostSameCauses ==
  ASSUME Host!IInv, UNCHANGED <<v1, v2, v10>>, v6'.paused = v6.paused,
         v7.pc \notin {"fetch", "sync", "text"},
         v7'.pc = "fetch" => v2 = NULL
  PROVE  Host!CausesOK'
BY DEF Host!IInv, Host!CausesOK, Host!At

LEMMA HostBeginInv ==
  ASSUME Host!IInv, Host!At("idle"), UNCHANGED <<v1, v2, v3, v4, v5, v6, v8, v9, v10>>,
         v7' \in Host!Pushes, v7'.pc \in {"fetch", "deck", "probe"},
         v7'.pc = "fetch" <=> v2 = NULL
  PROVE  Host!IInv'
<1>1. Host!Types'
  BY HostMemoryTypes DEF Host!IInv, Host!Types
<1>2. Host!PushOK' /\ Host!SyncedOK' /\ Host!VersesAreVisible'
  BY HostEarly, HostEarlyPush
<1>3. Host!CausesOK'
  BY HostSameCauses DEF Host!At
<1> QED  BY <1>1, <1>2, <1>3, HostMemory DEF Host!IInv

LEMMA HostPushInv == ASSUME Host!IInv, Host!Push \/ Host!Tick PROVE Host!IInv'
<1>1. Host!At("idle") /\ UNCHANGED <<v1, v2, v3, v4, v5, v6, v8, v9, v10>>
  BY DEF Host!Push, Host!Tick, Host!driver, Host!ghosts
<1>2. \E kind \in Host!Kinds, pc \in {"deck", "probe"} :
        Host!Begin(kind, IF v2 = NULL THEN "fetch" ELSE pc)
  BY DEF Host!Push, Host!Tick, Host!Kinds
<1>3. v7' \in Host!Pushes /\ v7'.pc \in {"fetch", "deck", "probe"}
      /\ (v7'.pc = "fetch" <=> v2 = NULL)
  <2>1. PICK kind \in Host!Kinds, pc \in {"deck", "probe"} :
          Host!Begin(kind, IF v2 = NULL THEN "fetch" ELSE pc)
    BY <1>2
  <2>2. CASE v2 = NULL
    BY <2>1, <2>2, HostBegin
  <2>3. CASE v2 # NULL
    <3>1. Host!Begin(kind, pc) /\ pc \in Host!OnMapping \union {"fetch"}
      BY <2>1, <2>3 DEF Host!OnMapping
    <3> QED  BY <2>3, <3>1, HostBegin
  <2> QED  BY <2>2, <2>3
<1> QED  BY <1>1, <1>3, HostBeginInv

LEMMA HostManualRefreshInv == ASSUME Host!IInv, Host!ManualRefresh PROVE Host!IInv'
<1>1. /\ UNCHANGED <<v1, v2, v3, v4, v5, v8, v9>> /\ v10' = 0
      /\ v6' = [v6 EXCEPT !.paused = FALSE]
      /\ Host!Begin("manual", "fetch")
  BY DEF Host!ManualRefresh
<1>2. v7' \in Host!Pushes /\ v7'.pc = "fetch"
  BY <1>1, HostBegin DEF Host!Kinds
<1>3. v6' \in [failures : Nat, backoff : BOOLEAN, paused : BOOLEAN]
  BY <1>1 DEF Host!IInv, Host!Types
<1>4. Host!Types'
  BY <1>1, <1>2, <1>3, HostMemoryTypes DEF Host!IInv
<1>5. Host!PushOK' /\ Host!SyncedOK' /\ Host!VersesAreVisible' /\ Host!CausesOK'
  BY <1>1, <1>2, HostEarly, HostEarlyPush, HostNoFetches
<1> QED  BY <1>1, <1>4, <1>5, HostMemory DEF Host!IInv

-----------------------------------------------------------------------------
(* The mapping *)

LEMMA HostFailInv ==
  ASSUME Host!IInv, Host!Fail, UNCHANGED <<v1, v3, v4, v5, v8, v9>>
  PROVE  Host!IInv'
<1>1. /\ v7' = Host!Rest /\ v7'.pc = "idle" /\ v2' \in {v2, NULL} /\ v10' = 0
      /\ v6' \in [failures : Nat, backoff : BOOLEAN, paused : BOOLEAN]
  BY HostFail DEF Host!IInv
<1>2. Host!Types'
  BY <1>1, HostMemoryTypes DEF Host!IInv
<1>3. Host!PushOK' /\ Host!SyncedOK' /\ Host!VersesAreVisible' /\ Host!CausesOK'
  BY <1>1, HostEarly, HostEarlyPush, HostNoFetches
<1> QED  BY <1>1, <1>2, <1>3, HostMemory DEF Host!IInv

LEMMA HostProbeInv == ASSUME Host!IInv, Host!Probe PROVE Host!IInv'
<1>1. v7.pc = "probe" /\ UNCHANGED <<v1, v3, v4, v5, v8, v9>>
  BY DEF Host!Probe, Host!At
<1>2. CASE Host!Goto("deck") /\ UNCHANGED <<v2, v6, v10>>
  <2>1. v7' \in Host!Pushes /\ v7'.pc = "deck"
    BY <1>1, <1>2, HostGoto DEF Host!IInv, Host!OnMapping
  <2>2. v2 # NULL
    BY <1>1 DEF Host!IInv, Host!PushOK, Host!OnMapping
  <2>3. Host!Types'
    BY <1>1, <1>2, <2>1, HostMemoryTypes DEF Host!IInv, Host!Types
  <2>4. Host!PushOK' /\ Host!SyncedOK' /\ Host!VersesAreVisible' /\ Host!CausesOK'
    BY <1>1, <1>2, <2>1, <2>2, HostEarly, HostEarlyPush, HostSameCauses
  <2> QED  BY <1>1, <1>2, <2>3, <2>4, HostMemory DEF Host!IInv
<1>3. CASE Host!Fail
  BY <1>1, <1>3, HostFailInv
<1> QED  BY <1>2, <1>3 DEF Host!Probe

LEMMA HostCheckDeckInv == ASSUME Host!IInv, Host!CheckDeck PROVE Host!IInv'
<1>1. v7.pc = "deck" /\ v2 # NULL /\ UNCHANGED <<v1, v3, v4, v5, v8, v9, v10>>
  BY DEF Host!CheckDeck, Host!At, Host!ghosts, Host!IInv, Host!PushOK, Host!OnMapping
\* A deck that was switched was a cause to fetch.
<1>2. CASE /\ ~v2.current \/ v2.deck # v1.deck
           /\ v2' = NULL /\ Host!Goto("fetch") /\ UNCHANGED v6
  <2>1. v7' \in Host!Pushes /\ v7'.pc = "fetch" /\ v10' = 0
    BY <1>1, <1>2, HostGoto DEF Host!IInv, Host!CausesOK
  <2>2. Host!Types'
    BY <1>1, <1>2, <2>1, HostMemoryTypes DEF Host!IInv, Host!Types
  <2>3. Host!PushOK' /\ Host!SyncedOK' /\ Host!VersesAreVisible' /\ Host!CausesOK'
    BY <2>1, HostEarly, HostEarlyPush, HostNoFetches
  <2> QED  BY <1>1, <1>2, <2>2, <2>3, HostMemory DEF Host!IInv
<1>3. CASE Host!AfterMapping /\ UNCHANGED v2
  <2>1. /\ v6' \in [failures : Nat, backoff : BOOLEAN, paused : BOOLEAN]
        /\ v6'.paused = v6.paused
        /\ \/ /\ v7' \in Host!Pushes /\ v7'.pc = "sync" /\ v7'.kind \in {"verse", "clear"}
           \/ v7' = Host!Rest /\ v7'.pc = "idle"
    <3>1. CASE v7.kind \in {"verse", "clear"}
      BY <1>1, <1>3, <3>1, HostGoto
         DEF Host!AfterMapping, Host!IInv, Host!Types, Host!OnMapping
    <3>2. CASE v7.kind \notin {"verse", "clear"}
      BY <1>3, <3>2, HostSucceed DEF Host!AfterMapping, Host!IInv
    <3> QED  BY <3>1, <3>2
  <2>2. Host!Types'
    BY <1>1, <1>3, <2>1, HostMemoryTypes DEF Host!IInv
  <2>3. Host!PushOK'
    BY <1>1, <1>3, <2>1 DEF Host!PushOK, Host!OnMapping
  <2>4. Host!SyncedOK' /\ Host!VersesAreVisible' /\ Host!CausesOK'
    BY <1>1, <1>3, <2>1, HostEarly, HostSameCauses
  <2> QED  BY <1>1, <1>3, <2>2, <2>3, <2>4, HostMemory DEF Host!IInv
<1> QED  BY <1>2, <1>3 DEF Host!CheckDeck

\* The lanes are seeded with the side that is not on air.
LEMMA HostSeed ==
  ASSUME Host!Types, Host!LanesOK, Host!Seed, v1' = v1
  PROVE  v3' \in [next : Host!Side, seeded : {TRUE}] /\ v8' \in BOOLEAN /\ Host!LanesOK'
<1>1. CASE v3.seeded
  BY <1>1 DEF Host!Seed, Host!Types, Host!LanesOK
<1>2. CASE ~v3.seeded
  <2> DEFINE after == IF \E s \in Host!Side : v1.live = <<v1.deck, s>>
                        THEN Host!Other(v1.live[2]) ELSE v3.next
  <2>1. /\ v3' = [seeded |-> TRUE, next |-> after]
        /\ v8' = (v1.live = Host!Off \/ v1.live[1] = v1.deck)
    BY <1>2 DEF Host!Seed
  <2>2. after \in Host!Side
    BY HostOther DEF Host!Types
  <2>3. ASSUME v8', v1.live # Host!Off PROVE v1.live[2] # after
    <3>1. /\ v1.live \in Host!Clip /\ v1.live = <<v1.live[1], v1.live[2]>>
          /\ v1.live[2] \in Host!Side
      BY <2>3, HostClips DEF Host!Types
    <3>2. v1.live = <<v1.deck, v1.live[2]>>
      BY <2>1, <2>3, <3>1
    <3>3. after = Host!Other(v1.live[2])
      BY <3>1, <3>2
    <3> QED  BY <3>1, <3>3, HostOther
  <2>4. v3'.next = after /\ v3'.seeded
    BY <2>1
  <2> HIDE DEF after
  <2>5. v3' \in [next : Host!Side, seeded : {TRUE}]
    BY <2>1, <2>2
  <2>6. Host!LanesOK'
    BY <2>3, <2>4 DEF Host!LanesOK, Host!Off
  <2>7. v8' \in BOOLEAN
    BY <2>1
  <2> QED  BY <2>5, <2>6, <2>7
<1> QED  BY <1>1, <1>2

\* A fetch that had a cause counts as the first; one for an id that Arena
\* rejects as the second, and the verse it is for is the one that fetched.
LEMMA HostFetchInv == ASSUME Host!IInv, Host!Fetch PROVE Host!IInv'
<1>1. v7.pc = "fetch" /\ UNCHANGED <<v1, v4, v5, v9>>
  BY DEF Host!Fetch, Host!At
<1> DEFINE fetched == [deck |-> v1.deck, current |-> TRUE, synced |-> FALSE,
                       shown |-> [s \in Host!Side |-> v1.level[<<v1.deck, s>>]]]
<1>2. CASE /\ v2' = fetched /\ Host!Seed /\ v10' = v10 + 1
           /\ IF v7.kind \in {"verse", "clear"}
                THEN v7' = [v7 EXCEPT !.pc = "sync", !.fetched = TRUE] /\ UNCHANGED v6
                ELSE Host!Succeed
  <2>1. fetched \in Host!Mappings
    BY HostClips DEF Host!Mappings, Host!IInv, Host!Types
  <2>2. /\ v2' \in Host!Mappings /\ v2' # NULL /\ v2'.deck = v1.deck /\ v2'.current
        /\ \A s \in Host!Side : v2'.shown[s] = v1.level[<<v2'.deck, s>>]
    BY <1>2, <2>1, HostKinds
  <2> HIDE DEF fetched
  <2>3. /\ v6' \in [failures : Nat, backoff : BOOLEAN, paused : BOOLEAN]
        /\ v6'.paused = v6.paused
        /\ \/ /\ v7' \in Host!Pushes /\ v7'.pc = "sync" /\ v7'.kind = v7.kind
              /\ v7'.kind \in {"verse", "clear"} /\ v7'.fetched
           \/ v7' = Host!Rest /\ v7'.pc = "idle" /\ v7.kind # "verse"
    <3>1. CASE v7.kind \in {"verse", "clear"}
      <4>1. v7 \in Host!Pushes /\ v7' = [v7 EXCEPT !.pc = "sync", !.fetched = TRUE]
        BY <1>1, <1>2, <3>1, HostKinds DEF Host!IInv, Host!Types
      <4>2. v7' = [pc |-> "sync", kind |-> v7.kind, retry |-> v7.retry, fetched |-> TRUE,
                   fade |-> v7.fade]
        BY <4>1 DEF Host!Pushes
      <4>3. v7' \in Host!Pushes
        BY <4>1, <4>2 DEF Host!Pushes, Host!OnMapping
      <4>4. v7'.pc = "sync" /\ v7'.kind = v7.kind /\ v7'.fetched
        BY <4>2
      <4>5. v6' = v6
        BY <1>2, <3>1
      <4> QED  BY <3>1, <4>3, <4>4, <4>5 DEF Host!IInv, Host!Types
    <3>2. CASE v7.kind \notin {"verse", "clear"}
      BY <1>2, <3>2, HostSucceed DEF Host!IInv
    <3> QED  BY <3>1, <3>2
  <2>4. /\ v3' \in [next : Host!Side, seeded : {TRUE}] /\ v8' \in BOOLEAN
        /\ Host!LanesOK'
    BY <1>1, <1>2, HostSeed DEF Host!IInv
  <2>5. Host!Types'
    BY <1>1, <2>2, <2>3, <2>4 DEF Host!IInv, Host!Types
  <2>6. Host!PushOK'
    BY <2>2, <2>3 DEF Host!PushOK, Host!OnMapping
  <2>7. Host!CausesOK'
    <3>1. v10 = 0 \/ (v10 = 1 /\ v1.broken /\ v7.kind = "verse")
      BY <1>1 DEF Host!IInv, Host!CausesOK, Host!At
    <3>2. v10' \in 1..2 /\ (v10' = 2 => v7'.pc = "sync" /\ v7'.kind = "verse" /\ v7'.fetched)
      BY <1>2, <2>3, <3>1
    <3> QED  BY <1>1, <2>2, <2>3, <3>2 DEF Host!CausesOK, Host!At
  <2>8. Host!LevelsOK' /\ Host!ShownOK'
    BY <1>1, <2>2 DEF Host!IInv, Host!LevelsOK, Host!ShownOK
  <2> QED  BY <2>3, <2>4, <2>5, <2>6, <2>7, <2>8, HostEarly DEF Host!IInv
<1>3. CASE Host!Fail /\ UNCHANGED <<v3, v8>>
  BY <1>1, <1>3, HostFailInv
<1> QED  BY <1>2, <1>3 DEF Host!Fetch

-----------------------------------------------------------------------------
(* A verse *)

\* What a fetch shows of a clip that is remembered is believed: it is full.
LEMMA HostObserve ==
  ASSUME NEW t \in [base : Host!Levels, level : Host!Levels], NEW shown \in Host!Levels
  PROVE  /\ Host!Observe(t, shown) \in [base : Host!Levels, level : Host!Levels]
         /\ Host!Observe(t, shown).level = shown
         /\ t.base = 2 /\ shown = 2 => Host!Observe(t, shown).base = 2
BY HostKinds DEF Host!Observe

LEMMA HostSyncInv == ASSUME Host!IInv, Host!Sync PROVE Host!IInv'
<1>1. v7.pc = "sync" /\ UNCHANGED <<v1, v3, v5, v6, v8, v9, v10>>
  BY DEF Host!Sync, Host!At, Host!ghosts
<1>2. /\ v2 # NULL /\ v2 \in Host!Mappings
      /\ v7.kind \in {"verse", "clear"}
  BY <1>1, HostClips DEF Host!IInv, Host!PushOK, Host!OnMapping
<1>3. v2' \in Host!Mappings /\ v2' # NULL /\ v2'.synced /\ v2'.current = v2.current
      /\ v2'.deck = v2.deck /\ v2'.shown = v2.shown
  <2>1. v2' = [v2 EXCEPT !.synced = TRUE]
    BY DEF Host!Sync
  <2>2. v2' = [deck |-> v2.deck, current |-> v2.current, synced |-> TRUE, shown |-> v2.shown]
    BY <1>2, <2>1 DEF Host!Mappings
  <2>3. v2' \in Host!Mappings
    BY <1>2, <2>2 DEF Host!Mappings
  <2> QED  BY <2>2, <2>3, HostKinds
<1>4. /\ v7' \in Host!Pushes /\ v7'.pc \in {"text", "plan"} /\ v7'.kind = v7.kind
      /\ v7'.fetched = v7.fetched
      /\ v7'.pc = "text" <=> v7.kind = "verse"
  <2>1. Host!Goto(IF v7.kind = "verse" THEN "text" ELSE "plan")
    BY DEF Host!Sync
  <2> QED  BY <1>1, <2>1, HostGoto DEF Host!IInv, Host!OnMapping
<1> DEFINE Seen(c) == ~(v2.synced \/ ~v2.current \/ c[1] # v2.deck)
           Now(c) == IF ~Seen(c) THEN v4[c]
                     ELSE IF v4[c] # Host!Untracked THEN
                            IF v4[c].level = v2.shown[c[2]] THEN v4[c]
                            ELSE Host!Observe(v4[c], v2.shown[c[2]])
                     ELSE IF v2.shown[c[2]] = Host!Dark
                            THEN [base |-> Host!Full, level |-> Host!Dark]
                     ELSE Host!Untracked
<1>5. v4' = [c \in Host!Clip |-> Now(c)]
  BY DEF Host!Sync
<1>6. ASSUME NEW c \in Host!Clip
      PROVE  /\ v4[c] \in [base : Host!Levels, level : Host!Levels] \union {Host!Untracked}
             /\ v2.shown[c[2]] \in Host!Levels
             /\ Seen(c) => v2.shown[c[2]] = v1.level[c]
  <2>1. c = <<c[1], c[2]>> /\ c[2] \in Host!Side
    BY HostClips DEF Host!IInv
  <2>2. Seen(c) => v2.shown[c[2]] = v1.level[<<v2.deck, c[2]>>]
    BY <1>2, <2>1 DEF Host!IInv, Host!ShownOK
  <2> QED  BY <1>2, <2>1, <2>2 DEF Host!IInv, Host!Types, Host!Mappings
<1>7. ASSUME NEW c \in Host!Clip
      PROVE  /\ Now(c) \in [base : Host!Levels, level : Host!Levels] \union {Host!Untracked}
             /\ Now(c) = Host!Untracked => v4[c] = Host!Untracked
  BY <1>6, HostObserve, HostKinds
<1>8. ASSUME NEW c \in Host!Clip \ v9
      PROVE  IF Now(c) = Host!Untracked THEN v1.level[c] \in {0, 2}
             ELSE Now(c).base = 2 /\ v1.level[c] \in {Now(c).level, 2}
  <2>1. IF v4[c] = Host!Untracked THEN v1.level[c] \in {0, 2}
        ELSE v4[c].base = 2 /\ v1.level[c] \in {v4[c].level, 2}
    BY HostKinds DEF Host!IInv, Host!LevelsOK
  <2>2. CASE ~Seen(c)
    BY <2>1, <2>2
  <2>3. CASE Seen(c) /\ v4[c] = Host!Untracked
    BY <1>6, <2>1, <2>3, HostKinds
  <2>4. CASE Seen(c) /\ v4[c] # Host!Untracked /\ v4[c].level = v2.shown[c[2]]
    BY <2>1, <2>4
  <2>5. CASE Seen(c) /\ v4[c] # Host!Untracked /\ v4[c].level # v2.shown[c[2]]
    <3>1. v2.shown[c[2]] = 2 /\ v1.level[c] = 2 /\ v4[c].base = 2
      BY <1>6, <2>1, <2>5
    <3>2. v4[c] \in [base : Host!Levels, level : Host!Levels]
      BY <1>6, <2>5
    <3>3. /\ Host!Observe(v4[c], v2.shown[c[2]]).level = v2.shown[c[2]]
          /\ Host!Observe(v4[c], v2.shown[c[2]]).base = 2
          /\ Host!Observe(v4[c], v2.shown[c[2]]) # Host!Untracked
      BY <1>6, <3>1, <3>2, HostObserve, HostKinds
    <3>4. Now(c) = Host!Observe(v4[c], v2.shown[c[2]])
      BY <2>5
    <3> HIDE DEF Now
    <3> QED  BY <3>1, <3>3, <3>4
  <2> QED  BY <2>2, <2>3, <2>4, <2>5
<1> HIDE DEF Now
<1>9. Host!Types'
  <2>1. v4' \in [Host!Clip -> [base : Host!Levels, level : Host!Levels] \union {Host!Untracked}]
    BY <1>5, <1>7
  <2> QED  BY <1>1, <1>3, <1>4, <2>1 DEF Host!IInv, Host!Types
<1>10. Host!LevelsOK'
  BY <1>1, <1>5, <1>8, HostKinds DEF Host!LevelsOK
<1>11. Host!ShownOK'
  <2>1. ASSUME NEW s \in Host!Side, v2.current, v4'[<<v2.deck, s>>] = Host!Untracked
        PROVE  v2.shown[s] = v1.level[<<v2.deck, s>>]
    <3>1. <<v2.deck, s>> \in Host!Clip
      BY <1>2, HostClips DEF Host!IInv, Host!Mappings
    <3>2. v4[<<v2.deck, s>>] = Host!Untracked
      BY <1>5, <1>7, <2>1, <3>1
    <3> QED  BY <1>2, <2>1, <3>2 DEF Host!IInv, Host!ShownOK
  <2> QED  BY <1>1, <1>3, <2>1 DEF Host!ShownOK
<1>12. Host!PushOK' /\ Host!SyncedOK' /\ Host!VersesAreVisible'
  BY <1>2, <1>3, <1>4
     DEF Host!PushOK, Host!SyncedOK, Host!VersesAreVisible, Host!At, Host!OnMapping
<1>13. Host!LanesOK'
  BY <1>1, <1>2 DEF Host!IInv, Host!LanesOK
<1>14. Host!CausesOK'
  BY <1>1, <1>2, <1>3, <1>4 DEF Host!IInv, Host!CausesOK, Host!At
<1> QED  BY <1>9, <1>10, <1>11, <1>12, <1>13, <1>14 DEF Host!IInv

LEMMA HostStaleInv ==
  ASSUME Host!IInv, ~Host!Knows, v2 # NULL, v7.pc \notin {"fetch", "idle"},
         v7.kind = "verse" \/ ~v2.current, Host!Stale, UNCHANGED <<v1, v3, v4, v5, v8, v9>>
  PROVE  Host!IInv'
<1>1. /\ v6' \in [failures : Nat, backoff : BOOLEAN, paused : BOOLEAN]
      /\ v7' \in Host!Pushes \union {Host!Rest} /\ v7'.pc \in {"idle", "fetch"}
      /\ v2' \in {v2, NULL}
  BY HostStale DEF Host!IInv
<1>2. Host!Types'
  BY <1>1, HostMemoryTypes DEF Host!IInv
<1>3. Host!PushOK' /\ Host!SyncedOK' /\ Host!VersesAreVisible'
  BY <1>1, HostEarly, HostEarlyPush
<1>4. Host!CausesOK'
  BY HostStaleCauses
<1> QED  BY <1>1, <1>2, <1>3, <1>4, HostMemory DEF Host!IInv

LEMMA HostTextInv == ASSUME Host!IInv, Host!Text PROVE Host!IInv'
<1>1. /\ v7.pc = "text" /\ v7.kind = "verse" /\ v2 # NULL
      /\ v2.synced /\ UNCHANGED <<v1, v3, v4, v5, v8, v9>>
  BY DEF Host!Text, Host!At, Host!IInv, Host!PushOK, Host!SyncedOK, Host!OnMapping
<1>2. CASE Host!Knows /\ Host!Goto("restore") /\ UNCHANGED <<v2, v6, v10>>
  <2>1. v7' \in Host!Pushes /\ v7'.pc = "restore" /\ v7'.kind = "verse"
    BY <1>1, <1>2, HostGoto DEF Host!IInv, Host!OnMapping
  <2>2. Host!Types'
    BY <1>1, <1>2, <2>1, HostMemoryTypes DEF Host!IInv, Host!Types
  <2>3. Host!PushOK' /\ Host!SyncedOK' /\ Host!VersesAreVisible'
    BY <1>1, <1>2, <2>1
       DEF Host!PushOK, Host!SyncedOK, Host!VersesAreVisible, Host!At, Host!OnMapping
  <2>4. Host!CausesOK'
    BY <1>1, <1>2, <2>1 DEF Host!IInv, Host!CausesOK, Host!At, Host!Knows
  <2> QED  BY <1>1, <1>2, <2>2, <2>3, <2>4, HostMemory DEF Host!IInv
<1>3. CASE ~Host!Knows /\ Host!Stale
  BY <1>1, <1>3, HostStaleInv
<1>4. CASE Host!Fail
  BY <1>1, <1>4, HostFailInv
<1> QED  BY <1>2, <1>3, <1>4 DEF Host!Text

\* What the worker takes the clip to be, is what Arena shows of it.
LEMMA HostTarget ==
  ASSUME Host!IInv, v2 # NULL, v2.current, v7.pc = "restore",
         NEW t,
         t = IF v4[Host!Target] # Host!Untracked THEN v4[Host!Target]
             ELSE [base |-> IF v2.shown[v3.next] > Host!Dark THEN v2.shown[v3.next]
                            ELSE Host!Full,
                   level |-> v2.shown[v3.next]]
  PROVE  /\ t \in [base : Host!Levels, level : Host!Levels]
         /\ Host!Target \notin v9 => /\ t.base = 2
                                     /\ v1.level[Host!Target] \in {t.level, 2}
<1>1. /\ v2 \in Host!Mappings /\ Host!Target \in Host!Clip /\ v3.next \in Host!Side
      /\ Host!Target = <<v2.deck, v3.next>>
      /\ v2.shown[v3.next] \in Host!Levels
  BY HostClips DEF Host!IInv, Host!Types, Host!Mappings, Host!Target
<1>2. v4[Host!Target] \in [base : Host!Levels, level : Host!Levels] \union {Host!Untracked}
  BY <1>1 DEF Host!IInv, Host!Types
<1>3. CASE v4[Host!Target] # Host!Untracked
  BY <1>1, <1>2, <1>3, HostKinds DEF Host!IInv, Host!LevelsOK
<1>4. CASE v4[Host!Target] = Host!Untracked
  <2>1. v2.shown[v3.next] = v1.level[Host!Target]
    BY <1>1, <1>4 DEF Host!IInv, Host!ShownOK
  <2>2. t = [base |-> IF v2.shown[v3.next] > 0 THEN v2.shown[v3.next] ELSE 2,
             level |-> v2.shown[v3.next]]
    BY <1>4, HostKinds
  <2>3. Host!Target \notin v9 => v1.level[Host!Target] \in {0, 2}
    BY <1>1, <1>4, HostKinds DEF Host!IInv, Host!LevelsOK
  <2> QED  BY <1>1, <2>1, <2>2, <2>3, HostKinds
<1> QED  BY <1>3, <1>4

\* A restore remembers the clip as it was, or as it was made.
LEMMA HostRemember ==
  ASSUME Host!IInv, v2 # NULL, v2.current, v2.synced,
         NEW t \in [base : Host!Levels, level : Host!Levels],
         v4' = [v4 EXCEPT ![Host!Target] = t],
         v1' = v1 \/ v1' = [v1 EXCEPT !.level[Host!Target] = t.base],
         Host!Target \notin v9 => t.base = 2 /\ v1'.level[Host!Target] \in {t.level, 2},
         UNCHANGED <<v3, v8, v9>>, v2' \in {v2, NULL},
         v6' \in [failures : Nat, backoff : BOOLEAN, paused : BOOLEAN],
         v7' \in Host!Pushes \union {Host!Rest}
  PROVE  Host!Types' /\ Host!LanesOK' /\ Host!LevelsOK' /\ Host!ShownOK'
         /\ v1'.deck = v1.deck /\ v1'.broken = v1.broken
<1>1. /\ v2 \in Host!Mappings /\ Host!Target \in Host!Clip
      /\ t # Host!Untracked
  BY HostClips, HostKinds DEF Host!IInv
<1>2. v1 \in [deck : Deck, live : Host!Clip \union {Host!Off},
              level : [Host!Clip -> Host!Levels], broken : BOOLEAN]
  BY DEF Host!IInv, Host!Types
<1>3. /\ v1' \in [deck : Deck, live : Host!Clip \union {Host!Off},
                  level : [Host!Clip -> Host!Levels], broken : BOOLEAN]
      /\ v1'.live = v1.live /\ v1'.deck = v1.deck /\ v1'.broken = v1.broken
      /\ \A c \in Host!Clip \ {Host!Target} : v1'.level[c] = v1.level[c]
  <2>1. CASE v1' = v1
    BY <1>2, <2>1
  <2>2. CASE v1' = [v1 EXCEPT !.level[Host!Target] = t.base]
    <3> DEFINE lit == [v1.level EXCEPT ![Host!Target] = t.base]
    <3>1. v1' = [deck |-> v1.deck, live |-> v1.live, level |-> lit, broken |-> v1.broken]
      BY <1>2, <2>2
    <3>2. lit \in [Host!Clip -> Host!Levels]
          /\ \A c \in Host!Clip \ {Host!Target} : lit[c] = v1.level[c]
      BY <1>1, <1>2
    <3> HIDE DEF lit
    <3> QED  BY <1>2, <3>1, <3>2
  <2> QED  BY <2>1, <2>2
<1>4. /\ v4' \in [Host!Clip -> [base : Host!Levels, level : Host!Levels] \union {Host!Untracked}]
      /\ v4'[Host!Target] = t
      /\ \A c \in Host!Clip \ {Host!Target} : v4'[c] = v4[c]
  BY <1>1 DEF Host!IInv, Host!Types
<1>5. Host!Types'
  BY <1>3, <1>4 DEF Host!IInv, Host!Types
<1>6. Host!LanesOK'
  BY <1>3 DEF Host!IInv, Host!LanesOK
<1>7. Host!LevelsOK'
  <2>1. ASSUME NEW c \in Host!Clip \ v9
        PROVE  IF v4'[c] = Host!Untracked THEN v1'.level[c] \in {0, 2}
               ELSE v4'[c].base = 2 /\ v1'.level[c] \in {v4'[c].level, 2}
    <3>1. CASE c = Host!Target
      BY <1>1, <1>4, <2>1, <3>1
    <3>2. CASE c # Host!Target
      BY <1>3, <1>4, <2>1, <3>2, HostKinds DEF Host!IInv, Host!LevelsOK
    <3> QED  BY <3>1, <3>2
  <2> QED  BY <2>1, HostKinds DEF Host!LevelsOK
<1>8. Host!ShownOK'
  <2>1. ASSUME NEW s \in Host!Side, v4'[<<v2.deck, s>>] = Host!Untracked
        PROVE  v2.shown[s] = v1'.level[<<v2.deck, s>>]
    <3>1. <<v2.deck, s>> \in Host!Clip \ {Host!Target}
      BY <1>1, <1>4, <2>1, HostClips DEF Host!IInv, Host!Mappings
    <3> QED  BY <1>3, <1>4, <2>1, <3>1 DEF Host!IInv, Host!ShownOK
  <2> QED  BY <2>1 DEF Host!ShownOK
<1> QED  BY <1>3, <1>5, <1>6, <1>7, <1>8

\* The clip is connected at its base level: it was there, or was restored.
LEMMA HostRestoreInv == ASSUME Host!IInv, Host!Restore PROVE Host!IInv'
<1> DEFINE t == IF v4[Host!Target] # Host!Untracked THEN v4[Host!Target]
                ELSE [base |-> IF v2.shown[v3.next] > Host!Dark THEN v2.shown[v3.next]
                               ELSE Host!Full,
                      level |-> v2.shown[v3.next]]
           faded == t.level < t.base
           restored == [t EXCEPT !.level = t.base]
           Lit == v1' = [v1 EXCEPT !.level[Host!Target] = t.base]
<1>1. /\ v7.pc = "restore" /\ v7.kind = "verse" /\ v2 # NULL /\ v2.synced
      /\ UNCHANGED <<v3, v8, v9>>
  BY DEF Host!Restore, Host!At, Host!IInv, Host!PushOK, Host!SyncedOK, Host!OnMapping
<1>2. CASE /\ v2.current => ~faded
           /\ Host!Remember(t) /\ Host!Goto("connect") /\ UNCHANGED <<v1, v2, v6, v10>>
  <2>1. v7' \in Host!Pushes /\ v7'.pc = "connect" /\ v7'.kind = "verse"
    BY <1>1, <1>2, HostGoto DEF Host!IInv, Host!OnMapping
  <2>2. Host!PushOK' /\ Host!SyncedOK'
    BY <1>1, <1>2, <2>1 DEF Host!PushOK, Host!SyncedOK, Host!OnMapping
  <2>3. Host!CausesOK'
    BY <1>1, <1>2, <2>1, HostSameCauses
  <2>4. v6' \in [failures : Nat, backoff : BOOLEAN, paused : BOOLEAN]
    BY <1>2 DEF Host!IInv, Host!Types
  <2>5. CASE v2.current
    <3>1. /\ t \in [base : Host!Levels, level : Host!Levels]
          /\ Host!Target \notin v9 => t.base = 2 /\ v1.level[Host!Target] \in {t.level, 2}
      BY <1>1, <2>5, HostTarget
    <3>2. v4' = [v4 EXCEPT ![Host!Target] = t] /\ ~(t.level < t.base)
      BY <1>2, <2>5 DEF Host!Remember
    <3> HIDE DEF t
    <3>3. Host!Types' /\ Host!LanesOK' /\ Host!LevelsOK' /\ Host!ShownOK'
      BY <1>1, <1>2, <2>1, <2>4, <2>5, <3>1, <3>2, HostRemember
    <3>4. Host!Target \notin v9 => v1.level[Host!Target] = 2
      BY <3>1, <3>2, HostKinds
    <3>5. Host!VersesAreVisible'
      BY <1>1, <1>2, <3>4, HostKinds DEF Host!VersesAreVisible, Host!Target
    <3> QED  BY <2>2, <2>3, <3>3, <3>5 DEF Host!IInv
  <2>6. CASE ~v2.current
    <3>1. v4' = v4
      BY <1>2, <2>6 DEF Host!Remember
    <3>2. Host!Types'
      BY <1>1, <1>2, <2>1, <2>4, <3>1, HostMemoryTypes DEF Host!IInv
    <3>3. Host!VersesAreVisible'
      BY <1>2, <2>6 DEF Host!VersesAreVisible
    <3> QED  BY <1>1, <1>2, <2>2, <2>3, <3>1, <3>2, <3>3, HostMemory DEF Host!IInv
  <2> QED  BY <2>5, <2>6
<1>3. CASE /\ v2.current /\ faded /\ Lit /\ Host!Remember(restored)
           /\ Host!Goto("connect") /\ UNCHANGED <<v2, v6, v10>>
  <2>1. v7' \in Host!Pushes /\ v7'.pc = "connect" /\ v7'.kind = "verse"
    BY <1>1, <1>3, HostGoto DEF Host!IInv, Host!OnMapping
  <2>2. Host!PushOK' /\ Host!SyncedOK'
    BY <1>1, <1>3, <2>1 DEF Host!PushOK, Host!SyncedOK, Host!OnMapping
  <2>3. /\ t \in [base : Host!Levels, level : Host!Levels]
        /\ Host!Target \notin v9 => t.base = 2
    BY <1>1, <1>3, HostTarget
  <2>4. v4' = [v4 EXCEPT ![Host!Target] = restored]
    BY <1>3 DEF Host!Remember
  <2>5. restored = [base |-> t.base, level |-> t.base]
    <3> HIDE DEF t
    <3> QED  BY <2>3
  <2> HIDE DEF t, restored
  <2>6. restored \in [base : Host!Levels, level : Host!Levels] /\ restored.base = t.base
        /\ restored.level = t.base
    BY <2>3, <2>5
  <2>7. v1'.level[Host!Target] = t.base
    <3>1. Host!Target \in Host!Clip /\ v1.level \in [Host!Clip -> Host!Levels]
      BY <1>1, HostClips DEF Host!IInv, Host!Types
    <3>2. v1'.level = [v1.level EXCEPT ![Host!Target] = t.base]
      BY <1>3 DEF Host!IInv, Host!Types
    <3> QED  BY <3>1, <3>2
  <2>8. v6' \in [failures : Nat, backoff : BOOLEAN, paused : BOOLEAN]
    BY <1>3 DEF Host!IInv, Host!Types
  <2>9. /\ Host!Types' /\ Host!LanesOK' /\ Host!LevelsOK' /\ Host!ShownOK'
        /\ v1'.deck = v1.deck /\ v1'.broken = v1.broken
    BY <1>1, <1>3, <2>1, <2>3, <2>4, <2>6, <2>7, <2>8, HostRemember
  <2>10. Host!VersesAreVisible'
    BY <1>1, <1>3, <2>3, <2>7, HostKinds DEF Host!VersesAreVisible, Host!Target
  <2>11. Host!CausesOK'
    BY <1>1, <1>3, <2>1, <2>9 DEF Host!IInv, Host!CausesOK, Host!At
  <2> QED  BY <2>2, <2>9, <2>10, <2>11 DEF Host!IInv
<1>4. CASE ~v2.current /\ Host!Remember(t) /\ Host!Stale /\ UNCHANGED v1
  <2>1. UNCHANGED <<v4, v5>> /\ ~Host!Knows
    BY <1>4 DEF Host!Remember, Host!Knows
  <2> QED  BY <1>1, <1>4, <2>1, HostStaleInv
<1>5. CASE /\ Host!Remember(t) /\ Host!Fail
           /\ UNCHANGED v1 \/ (v2.current /\ Lit)
  <2>1. /\ v7' = Host!Rest /\ v7'.pc = "idle" /\ v2' \in {v2, NULL} /\ v10' = 0
        /\ v6' \in [failures : Nat, backoff : BOOLEAN, paused : BOOLEAN]
    BY <1>5, HostFail DEF Host!IInv
  <2>2. CASE v2.current
    <3>1. /\ t \in [base : Host!Levels, level : Host!Levels]
          /\ Host!Target \notin v9 => t.base = 2 /\ v1.level[Host!Target] \in {t.level, 2}
      BY <1>1, <2>2, HostTarget
    <3>2. v4' = [v4 EXCEPT ![Host!Target] = t]
      BY <1>5, <2>2 DEF Host!Remember
    <3>3. v1' = v1 \/ v1' = [v1 EXCEPT !.level[Host!Target] = t.base]
      BY <1>5
    <3> HIDE DEF t
    <3>4. v1' = v1 \/ v1'.level[Host!Target] = t.base
      <4>1. Host!Target \in Host!Clip /\ v1.level \in [Host!Clip -> Host!Levels]
        BY <1>1, HostClips DEF Host!IInv, Host!Types
      <4>2. v1' = v1 \/ v1'.level = [v1.level EXCEPT ![Host!Target] = t.base]
        BY <3>3 DEF Host!IInv, Host!Types
      <4> QED  BY <4>1, <4>2
    <3>5. Host!Target \notin v9 => t.base = 2 /\ v1'.level[Host!Target] \in {t.level, 2}
      BY <3>1, <3>4
    <3>6. Host!Types' /\ Host!LanesOK' /\ Host!LevelsOK' /\ Host!ShownOK'
      BY <1>1, <2>1, <2>2, <3>1, <3>2, <3>3, <3>5, HostRemember
    <3>7. Host!PushOK' /\ Host!SyncedOK' /\ Host!VersesAreVisible' /\ Host!CausesOK'
      BY <2>1, HostEarly, HostEarlyPush, HostNoFetches
    <3> QED  BY <3>6, <3>7 DEF Host!IInv
  <2>3. CASE ~v2.current
    <3>1. UNCHANGED <<v1, v4, v5>>
      BY <1>5, <2>3 DEF Host!Remember
    <3> QED  BY <1>1, <1>5, <3>1, HostFailInv
  <2> QED  BY <2>2, <2>3
<1> QED  BY <1>2, <1>3, <1>4, <1>5 DEF Host!Restore

\* The lane moves on when the answer is back; else it is not known what is live.
LEMMA HostConnectInv == ASSUME Host!IInv, Host!Connect PROVE Host!IInv'
<1>1. /\ v7.pc = "connect" /\ v7.kind = "verse" /\ v2 # NULL
      /\ UNCHANGED <<v4, v5, v9>>
  BY DEF Host!Connect, Host!At, Host!IInv, Host!PushOK, Host!OnMapping
<1>2. ASSUME Host!Live
      PROVE  /\ v1' \in [deck : Deck, live : Host!Clip \union {Host!Off},
                         level : [Host!Clip -> Host!Levels], broken : BOOLEAN]
             /\ v1'.live = Host!Target /\ v1'.deck = v1.deck /\ v1'.level = v1.level
             /\ v1'.broken = v1.broken
  <2>1. Host!Target \in Host!Clip
    BY <1>1, HostClips DEF Host!IInv
  <2> QED  BY <1>2, <2>1 DEF Host!Live, Host!IInv, Host!Types
<1>3. CASE /\ Host!Live /\ v3' = [v3 EXCEPT !.next = Host!Other(v3.next)] /\ v8' = TRUE
           /\ Host!Succeed /\ UNCHANGED <<v2, v10>>
  <2>1. /\ v7' = Host!Rest /\ v7'.pc = "idle" /\ v6'.paused = v6.paused
        /\ v6' \in [failures : Nat, backoff : BOOLEAN, paused : BOOLEAN]
    BY <1>3, HostSucceed DEF Host!IInv
  <2>2. /\ v3' \in [next : Host!Side, seeded : BOOLEAN] /\ v3'.seeded = v3.seeded
        /\ v3'.next # v3.next
    BY <1>3, HostOther DEF Host!IInv, Host!Types
  <2>3. Host!Types'
    BY <1>1, <1>2, <1>3, <2>1, <2>2 DEF Host!IInv, Host!Types
  <2>4. Host!LanesOK'
    <3>1. v1'.live[2] = v3.next
      BY <1>2, <1>3 DEF Host!Target
    <3> QED  BY <1>3, <2>2, <3>1 DEF Host!IInv, Host!LanesOK
  <2>5. Host!LevelsOK' /\ Host!ShownOK'
    BY <1>1, <1>2, <1>3 DEF Host!IInv, Host!LevelsOK, Host!ShownOK
  <2>6. Host!CausesOK'
    BY <1>1, <1>2, <1>3, <2>1 DEF Host!IInv, Host!CausesOK, Host!At
  <2> QED  BY <2>1, <2>3, <2>4, <2>5, <2>6, HostEarly, HostEarlyPush DEF Host!IInv
<1>4. CASE ~Host!Knows /\ Host!Stale /\ UNCHANGED <<v1, v3, v8>>
  BY <1>1, <1>4, HostStaleInv
<1>5. CASE Host!Fail /\ UNCHANGED <<v1, v8, v3>>
  BY <1>1, <1>5, HostFailInv
<1>6. CASE Host!Fail /\ Host!Live /\ v8' = FALSE /\ UNCHANGED v3
  <2>1. /\ v7' = Host!Rest /\ v7'.pc = "idle" /\ v2' \in {v2, NULL} /\ v10' = 0
        /\ v6' \in [failures : Nat, backoff : BOOLEAN, paused : BOOLEAN]
    BY <1>6, HostFail DEF Host!IInv
  <2>2. Host!Types'
    BY <1>1, <1>2, <1>6, <2>1 DEF Host!IInv, Host!Types
  <2>3. Host!LanesOK'
    BY <1>1, <1>6, <2>1 DEF Host!IInv, Host!LanesOK
  <2>4. Host!LevelsOK' /\ Host!ShownOK'
    BY <1>1, <1>2, <1>6, <2>1 DEF Host!IInv, Host!LevelsOK, Host!ShownOK
  <2> QED  BY <2>1, <2>2, <2>3, <2>4, HostEarly, HostEarlyPush, HostNoFetches DEF Host!IInv
<1> QED  BY <1>3, <1>4, <1>5, <1>6 DEF Host!Connect

-----------------------------------------------------------------------------
(* A clear *)

LEMMA HostLevelOf ==
  ASSUME Host!Types, v2 # NULL, NEW c \in Host!Clip
  PROVE  /\ Host!LevelOf(c) \in Host!Levels
         /\ v4[c] # Host!Untracked => Host!LevelOf(c) = v4[c].level
         /\ v4[c] = Host!Untracked =>
              Host!LevelOf(c) = IF c[1] = v2.deck THEN v2.shown[c[2]] ELSE 0
<1>1. v2 \in Host!Mappings /\ c[2] \in Host!Side
  BY HostClips
<1> QED  BY <1>1, HostKinds DEF Host!LevelOf, Host!Types, Host!Mappings

\* A clear takes on what the mapping shows, and that is what Arena shows.
LEMMA HostPlanInv == ASSUME Host!IInv, Host!Plan PROVE Host!IInv'
<1>1. /\ v7.pc = "plan" /\ v7.kind = "clear" /\ v2 # NULL /\ v2.synced
      /\ v2 \in Host!Mappings /\ v7 \in Host!Pushes
      /\ UNCHANGED <<v1, v2, v3, v5, v6, v8, v9, v10>>
  BY HostClips, HostKinds
     DEF Host!Plan, Host!At, Host!IInv, Host!Types, Host!PushOK, Host!SyncedOK,
         Host!OnMapping, Host!ghosts
<1>2. Host!Visible \subseteq Host!Clip
      /\ \A c \in Host!Visible : Host!LevelOf(c) > 0
  BY HostKinds DEF Host!Visible
<1>3. v7' \in Host!Pushes /\ v7'.pc = "fade" /\ v7'.kind = "clear"
  <2>1. v7' = [v7 EXCEPT !.pc = "fade", !.fade = Host!Visible]
    BY DEF Host!Plan
  <2>2. v7' = [pc |-> "fade", kind |-> v7.kind, retry |-> v7.retry, fetched |-> v7.fetched,
               fade |-> Host!Visible]
    BY <1>1, <2>1 DEF Host!Pushes
  <2>3. v7' \in Host!Pushes
    BY <1>1, <1>2, <2>2 DEF Host!Pushes, Host!OnMapping
  <2> QED  BY <1>1, <2>2, <2>3
<1>4. Host!PushOK' /\ Host!SyncedOK' /\ Host!VersesAreVisible' /\ Host!CausesOK'
      /\ Host!LanesOK'
  BY <1>1, <1>3, HostSameCauses
     DEF Host!PushOK, Host!SyncedOK, Host!VersesAreVisible, Host!At, Host!OnMapping,
         Host!IInv, Host!LanesOK
<1>5. CASE ~v2.current
  <2>1. v4' = v4
    BY <1>5 DEF Host!Plan
  <2>2. Host!Types'
    BY <1>1, <1>3, <2>1 DEF Host!IInv, Host!Types
  <2> QED  BY <1>1, <1>4, <2>1, <2>2, HostMemory DEF Host!IInv
<1>6. CASE v2.current
  <2> DEFINE anew(c) == [base |-> Host!LevelOf(c), level |-> Host!LevelOf(c)]
             now(c) == IF c \in Host!Visible /\ v4[c] = Host!Untracked THEN anew(c) ELSE v4[c]
  <2>1. v4' = [c \in Host!Clip |-> now(c)]
    BY <1>6 DEF Host!Plan, Host!TrackAll
  <2>2. ASSUME NEW c \in Host!Clip
        PROVE  /\ now(c) \in [base : Host!Levels, level : Host!Levels] \union {Host!Untracked}
               /\ now(c) = Host!Untracked => v4[c] = Host!Untracked
    <3>1. anew(c) \in [base : Host!Levels, level : Host!Levels]
      BY <1>1, HostLevelOf DEF Host!IInv
    <3>2. v4[c] \in [base : Host!Levels, level : Host!Levels] \union {Host!Untracked}
      BY DEF Host!IInv, Host!Types
    <3> HIDE DEF anew
    <3> QED  BY <3>1, <3>2, HostKinds
  <2>3. ASSUME NEW c \in Host!Clip \ v9
        PROVE  IF now(c) = Host!Untracked THEN v1.level[c] \in {0, 2}
               ELSE now(c).base = 2 /\ v1.level[c] \in {now(c).level, 2}
    <3>1. IF v4[c] = Host!Untracked THEN v1.level[c] \in {0, 2}
          ELSE v4[c].base = 2 /\ v1.level[c] \in {v4[c].level, 2}
      BY HostKinds DEF Host!IInv, Host!LevelsOK
    <3>2. CASE c \in Host!Visible /\ v4[c] = Host!Untracked
      <4>1. Host!LevelOf(c) > 0
        BY <1>2, <3>2
      <4>2. c[1] = v2.deck /\ Host!LevelOf(c) = v2.shown[c[2]]
        BY <1>1, <3>2, <4>1, HostLevelOf DEF Host!IInv
      <4>3. v2.shown[c[2]] = v1.level[c]
        <5>1. c = <<v2.deck, c[2]>> /\ c[2] \in Host!Side
          BY <4>2, HostClips DEF Host!IInv
        <5> QED  BY <1>1, <1>6, <3>2, <5>1 DEF Host!IInv, Host!ShownOK
      <4>4. Host!LevelOf(c) = 2 /\ v1.level[c] = 2
        BY <3>1, <3>2, <4>1, <4>2, <4>3
      <4>5. now(c) = anew(c) /\ anew(c) # Host!Untracked
        <5>1. anew(c).level = 2
          BY <4>4
        <5> QED  BY <3>2, <5>1, HostKinds
      <4> QED  BY <4>4, <4>5
    <3>3. CASE ~(c \in Host!Visible /\ v4[c] = Host!Untracked)
      BY <3>1, <3>3
    <3> QED  BY <3>2, <3>3
  <2> HIDE DEF now
  <2>4. Host!Types'
    <3>1. v4' \in [Host!Clip -> [base : Host!Levels, level : Host!Levels]
                                  \union {Host!Untracked}]
      BY <2>1, <2>2
    <3> QED  BY <1>1, <1>3, <3>1 DEF Host!IInv, Host!Types
  <2>5. Host!LevelsOK'
    BY <1>1, <2>1, <2>3, HostKinds DEF Host!LevelsOK
  <2>6. Host!ShownOK'
    <3>1. ASSUME NEW s \in Host!Side, v4'[<<v2.deck, s>>] = Host!Untracked
          PROVE  v2.shown[s] = v1.level[<<v2.deck, s>>]
      <4>1. <<v2.deck, s>> \in Host!Clip
        BY <1>1, HostClips DEF Host!IInv, Host!Mappings
      <4>2. v4[<<v2.deck, s>>] = Host!Untracked
        BY <2>1, <2>2, <3>1, <4>1
      <4> QED  BY <1>1, <1>6, <4>2 DEF Host!IInv, Host!ShownOK
    <3> QED  BY <1>1, <3>1 DEF Host!ShownOK
  <2> QED  BY <1>4, <2>4, <2>5, <2>6 DEF Host!IInv
<1> QED  BY <1>5, <1>6

\* A batch of a fade: what landed and was not answered is left dim.
LEMMA HostStep ==
  ASSUME Host!IInv, v7.pc = "fade", NEW landed \in SUBSET Host!Fading,
         NEW answered \in SUBSET landed, Host!Step(landed, answered),
         UNCHANGED <<v3, v5, v8>>, v2' \in {v2, NULL},
         v6' \in [failures : Nat, backoff : BOOLEAN, paused : BOOLEAN],
         v7' \in Host!Pushes \union {Host!Rest}
  PROVE  Host!Types' /\ Host!LanesOK' /\ Host!LevelsOK' /\ Host!ShownOK'
         /\ v1'.deck = v1.deck /\ v1'.broken = v1.broken
<1>1. v2 # NULL /\ v2 \in Host!Mappings /\ v2.synced
  BY HostClips DEF Host!IInv, Host!PushOK, Host!SyncedOK, Host!OnMapping
<1>2. Host!Fading \subseteq Host!Clip
      /\ \A c \in Host!Fading : v4[c].level \notin {0, NULL}
  <2>1. v7 \in Host!Pushes
    BY HostKinds DEF Host!IInv, Host!Types
  <2> QED  BY <2>1, HostKinds DEF Host!Fading, Host!Pushes
<1>3. ASSUME NEW c \in Host!Fading
      PROVE  /\ v4[c] \in [base : Host!Levels, level : Host!Levels] /\ v4[c] # Host!Untracked
             /\ v4[c].level \in 1..2 /\ Host!LevelOf(c) = v4[c].level
  <2>1. c \in Host!Clip /\ v4[c].level \notin {0, NULL}
    BY <1>2
  <2>2. v4[c] \in [base : Host!Levels, level : Host!Levels] /\ v4[c] # Host!Untracked
    BY <2>1, HostKinds DEF Host!IInv, Host!Types
  <2>3. Host!LevelOf(c) = v4[c].level
    BY <1>1, <2>1, <2>2, HostLevelOf DEF Host!IInv
  <2> QED  BY <2>1, <2>2, <2>3, HostKinds
<1> DEFINE level == [c \in Host!Clip |-> IF c \in landed THEN Host!LevelOf(c) - 1
                                         ELSE v1.level[c]]
<1>4. v1 \in [deck : Deck, live : Host!Clip \union {Host!Off},
              level : [Host!Clip -> Host!Levels], broken : BOOLEAN]
  BY DEF Host!IInv, Host!Types
<1>5. v1' = [deck |-> v1.deck, live |-> v1.live, level |-> level, broken |-> v1.broken]
  BY <1>4 DEF Host!Step
<1>6. level \in [Host!Clip -> Host!Levels]
  <2>1. ASSUME NEW c \in Host!Clip
        PROVE  (IF c \in landed THEN Host!LevelOf(c) - 1 ELSE v1.level[c]) \in Host!Levels
    BY <1>3, <1>4, HostKinds
  <2> QED  BY <2>1
<1>7. /\ v1'.live = v1.live /\ v1'.deck = v1.deck /\ v1'.broken = v1.broken
      /\ \A c \in landed : v1'.level[c] = v4[c].level - 1
      /\ \A c \in Host!Clip \ landed : v1'.level[c] = v1.level[c]
  BY <1>2, <1>3, <1>5
<1>8. v1' \in [deck : Deck, live : Host!Clip \union {Host!Off},
               level : [Host!Clip -> Host!Levels], broken : BOOLEAN]
  <2> HIDE DEF level
  <2> QED  BY <1>4, <1>5, <1>6
<1> HIDE DEF level
<1>9. v4' = [c \in Host!Clip |-> IF c \in answered
                                   THEN [v4[c] EXCEPT !.level = v4[c].level - 1] ELSE v4[c]]
      /\ v9' = v9 \union (landed \ answered)
  BY DEF Host!Step
<1>10. ASSUME NEW c \in answered
       PROVE  v4'[c] = [base |-> v4[c].base, level |-> v4[c].level - 1]
  BY <1>2, <1>3, <1>9
<1>11. \A c \in Host!Clip \ answered : v4'[c] = v4[c]
  BY <1>9
<1>12. ASSUME NEW c \in answered
       PROVE  /\ v4'[c] \in [base : Host!Levels, level : Host!Levels] /\ v4'[c] # Host!Untracked
              /\ v4'[c].level = v4[c].level - 1 /\ v4'[c].base = v4[c].base
  <2>1. v4[c].base \in Host!Levels /\ v4[c].level - 1 \in Host!Levels
    BY <1>3, HostKinds
  <2>2. [base |-> v4[c].base, level |-> v4[c].level - 1]
          \in [base : Host!Levels, level : Host!Levels]
    BY <2>1
  <2>3. v4'[c] \in [base : Host!Levels, level : Host!Levels]
    BY <1>10, <2>2
  <2>4. v4'[c].level = v4[c].level - 1 /\ v4'[c].base = v4[c].base
    <3>1. v4'[c] = [base |-> v4[c].base, level |-> v4[c].level - 1]
      BY <1>10
    <3> QED  BY ONLY <3>1
  <2>5. v4'[c] # Host!Untracked
    BY <2>3, HostKinds, Zenon
  <2> QED  BY <2>3, <2>4, <2>5
<1>13. Host!Types'
  <2>1. ASSUME NEW c \in Host!Clip
        PROVE  v4'[c] \in [base : Host!Levels, level : Host!Levels] \union {Host!Untracked}
    BY <1>11, <1>12 DEF Host!IInv, Host!Types
  <2>2. v4' \in [Host!Clip -> [base : Host!Levels, level : Host!Levels] \union {Host!Untracked}]
    BY <1>9, <2>1
  <2> QED  BY <1>8, <2>2 DEF Host!IInv, Host!Types
<1>14. Host!LanesOK'
  BY <1>7 DEF Host!IInv, Host!LanesOK
<1>15. Host!LevelsOK'
  <2>1. ASSUME NEW c \in Host!Clip \ v9'
        PROVE  IF v4'[c] = Host!Untracked THEN v1'.level[c] \in {0, 2}
               ELSE v4'[c].base = 2 /\ v1'.level[c] \in {v4'[c].level, 2}
    <3>1. IF v4[c] = Host!Untracked THEN v1.level[c] \in {0, 2}
          ELSE v4[c].base = 2 /\ v1.level[c] \in {v4[c].level, 2}
      BY <1>9, <2>1, HostKinds DEF Host!IInv, Host!LevelsOK
    <3>2. CASE c \in answered
      <4>1. v4[c] # Host!Untracked /\ v1'.level[c] = v4[c].level - 1
        BY <1>3, <1>7, <3>2
      <4> QED  BY <1>12, <3>1, <3>2, <4>1
    <3>3. CASE c \notin answered
      <4>1. c \notin landed
        BY <1>9, <2>1, <3>3
      <4> QED  BY <1>7, <1>11, <3>1, <3>3, <4>1
    <3> QED  BY <3>2, <3>3
  <2> QED  BY <2>1, HostKinds DEF Host!LevelsOK
<1>16. Host!ShownOK'
  <2>1. ASSUME NEW s \in Host!Side, v2.current, v4'[<<v2.deck, s>>] = Host!Untracked
        PROVE  v2.shown[s] = v1'.level[<<v2.deck, s>>]
    <3>1. <<v2.deck, s>> \in Host!Clip
      BY <1>1, HostClips DEF Host!IInv, Host!Mappings
    <3>2. <<v2.deck, s>> \notin answered /\ v4[<<v2.deck, s>>] = Host!Untracked
      BY <1>11, <1>12, <2>1, <3>1
    <3>3. <<v2.deck, s>> \notin landed
      BY <1>3, <3>2
    <3> QED  BY <1>1, <1>7, <2>1, <3>1, <3>2, <3>3 DEF Host!IInv, Host!ShownOK
  <2> QED  BY <1>1, <2>1 DEF Host!ShownOK
<1> QED  BY <1>7, <1>13, <1>14, <1>15, <1>16

LEMMA HostSucceedInv ==
  ASSUME Host!IInv, Host!Succeed, v7.pc \notin {"fetch", "sync", "text"},
         UNCHANGED <<v1, v2, v3, v4, v5, v8, v9, v10>>
  PROVE  Host!IInv'
<1>1. /\ v7' = Host!Rest /\ v7'.pc = "idle" /\ v6'.paused = v6.paused
      /\ v6' \in [failures : Nat, backoff : BOOLEAN, paused : BOOLEAN]
  BY HostSucceed DEF Host!IInv
<1>2. Host!Types'
  BY <1>1, HostMemoryTypes DEF Host!IInv
<1>3. Host!PushOK' /\ Host!SyncedOK' /\ Host!VersesAreVisible' /\ Host!CausesOK'
  BY <1>1, HostEarly, HostEarlyPush, HostSameCauses
<1> QED  BY <1>2, <1>3, HostMemory DEF Host!IInv

LEMMA HostFadeInv == ASSUME Host!IInv, Host!Fade PROVE Host!IInv'
<1>1. /\ v7.pc = "fade" /\ v7.kind = "clear" /\ v2 # NULL /\ v2.synced
      /\ UNCHANGED <<v3, v5, v8>>
  BY DEF Host!Fade, Host!At, Host!IInv, Host!PushOK, Host!SyncedOK, Host!OnMapping
<1>2. CASE Host!Step(Host!Fading, Host!Fading) /\ UNCHANGED <<v2, v6, v7, v10>>
  <2>1. /\ Host!Types' /\ Host!LanesOK' /\ Host!LevelsOK' /\ Host!ShownOK'
        /\ v1'.deck = v1.deck /\ v1'.broken = v1.broken
    <3>1. /\ v6' \in [failures : Nat, backoff : BOOLEAN, paused : BOOLEAN]
          /\ v7' \in Host!Pushes \union {Host!Rest}
      BY <1>2 DEF Host!IInv, Host!Types
    <3>2. Host!Fading \in SUBSET Host!Fading
      OBVIOUS
    <3> QED  BY <1>1, <1>2, <3>1, <3>2, HostStep
  <2>2. Host!PushOK' /\ Host!SyncedOK' /\ Host!VersesAreVisible'
    BY <1>1, <1>2
       DEF Host!PushOK, Host!SyncedOK, Host!VersesAreVisible, Host!At, Host!OnMapping
  <2>3. Host!CausesOK'
    BY <1>1, <1>2, <2>1 DEF Host!IInv, Host!CausesOK, Host!At
  <2> QED  BY <2>1, <2>2, <2>3 DEF Host!IInv
<1>3. CASE Host!Succeed /\ UNCHANGED <<v1, v4, v2, v9, v10>>
  BY <1>1, <1>3, HostSucceedInv
<1>4. CASE ~v2.current /\ Host!Stale /\ UNCHANGED <<v1, v4, v9>>
  <2>1. ~Host!Knows
    BY <1>4 DEF Host!Knows
  <2> QED  BY <1>1, <1>4, <2>1, HostStaleInv
<1>5. ASSUME NEW landed \in SUBSET Host!Fading, NEW answered \in SUBSET landed,
             Host!Step(landed, answered), Host!Fail
      PROVE  Host!IInv'
  <2>1. /\ v7' = Host!Rest /\ v7'.pc = "idle" /\ v2' \in {v2, NULL} /\ v10' = 0
        /\ v6' \in [failures : Nat, backoff : BOOLEAN, paused : BOOLEAN]
    BY <1>5, HostFail DEF Host!IInv
  <2>2. Host!Types' /\ Host!LanesOK' /\ Host!LevelsOK' /\ Host!ShownOK'
    BY <1>1, <1>5, <2>1, HostStep
  <2> QED  BY <2>1, <2>2, HostEarly, HostEarlyPush, HostNoFetches DEF Host!IInv
<1>6. CASE Host!Fail /\ UNCHANGED <<v1, v4, v9>>
  BY <1>1, <1>6, HostFailInv
<1> QED  BY <1>2, <1>3, <1>4, <1>5, <1>6 DEF Host!Fade

-----------------------------------------------------------------------------
(* What forgets, and what ends *)

LEMMA HostForgetInv == ASSUME Host!IInv, Host!UpdateConfig \/ Host!Restart PROVE Host!IInv'
<1>1. /\ v2' = NULL /\ v3' = Host!NewLane /\ v4' = [c \in Host!Clip |-> Host!Untracked]
      /\ v7' = Host!Rest
      /\ v9' = v9 \union {c \in Host!Clip : v1.level[c] \notin {0, 2}}
      /\ v10' = 0 /\ UNCHANGED <<v1, v8>>
  BY HostKinds DEF Host!UpdateConfig, Host!Restart, Host!Forget
<1>2. v6' \in [failures : Nat, backoff : BOOLEAN, paused : BOOLEAN]
  <2>1. CASE v6' = [failures |-> 0, backoff |-> FALSE, paused |-> FALSE]
    BY <2>1
  <2>2. CASE v6' = [v6 EXCEPT !.backoff = FALSE, !.paused = FALSE]
    <3>1. v6 \in [failures : Nat, backoff : BOOLEAN, paused : BOOLEAN]
      BY DEF Host!IInv, Host!Types
    <3>2. v6' = [failures |-> v6.failures, backoff |-> FALSE, paused |-> FALSE]
      BY <2>2, <3>1
    <3> QED  BY <3>1, <3>2
  <2> QED  BY <2>1, <2>2 DEF Host!UpdateConfig, Host!Restart
<1>3. Host!Types'
  <2>1. v3' \in [next : Host!Side, seeded : BOOLEAN]
    BY <1>1 DEF Host!NewLane, Host!Side
  <2>2. v4' \in [Host!Clip -> [base : Host!Levels, level : Host!Levels] \union {Host!Untracked}]
    BY <1>1
  <2> QED  BY <1>1, <1>2, <2>1, <2>2 DEF Host!IInv, Host!Types
<1>4. Host!PushOK' /\ Host!SyncedOK' /\ Host!VersesAreVisible' /\ Host!CausesOK'
  BY <1>1, HostKinds, HostEarly, HostEarlyPush, HostNoFetches
<1>5. Host!LanesOK' /\ Host!ShownOK'
  BY <1>1 DEF Host!LanesOK, Host!ShownOK, Host!NewLane
<1>6. Host!LevelsOK'
  BY <1>1, HostKinds DEF Host!LevelsOK
<1> QED  BY <1>3, <1>4, <1>5, <1>6 DEF Host!IInv

LEMMA HostEndsInv ==
  ASSUME Host!IInv, Host!BackoffEnds \/ Host!PauseEnds \/ UNCHANGED Host!hostVars
  PROVE  Host!IInv'
<1>1. /\ UNCHANGED <<v1, v2, v3, v4, v5, v7, v8, v9>>
      /\ v10' = 0 \/ (v10' = v10 /\ v6'.paused = v6.paused)
      /\ v6' \in [failures : Nat, backoff : BOOLEAN, paused : BOOLEAN]
  BY DEF Host!BackoffEnds, Host!PauseEnds, Host!hostVars, Host!driver, Host!ghosts,
         Host!IInv, Host!Types
<1>2. Host!Types' /\ Host!PushOK' /\ Host!SyncedOK' /\ Host!VersesAreVisible'
  BY <1>1
     DEF Host!IInv, Host!Types, Host!PushOK, Host!SyncedOK, Host!VersesAreVisible,
         Host!At, Host!Target
<1>3. Host!CausesOK'
  <2>1. CASE v10' = v10 /\ v6'.paused = v6.paused
    BY <1>1, <2>1 DEF Host!IInv, Host!CausesOK, Host!At
  <2> QED  BY <1>1, <2>1, HostNoFetches
<1> QED  BY <1>1, <1>2, <1>3, HostMemory DEF Host!IInv

LEMMA HostStepInv == ASSUME Host!IInv, [Host!Next]_(Host!hostVars) PROVE Host!IInv'
<1> USE HostSwitchDeckInv, HostLoadInv, HostByHandInv, HostPushInv, HostManualRefreshInv,
        HostProbeInv, HostCheckDeckInv, HostFetchInv, HostSyncInv, HostTextInv,
        HostRestoreInv, HostConnectInv, HostPlanInv, HostFadeInv, HostForgetInv, HostEndsInv
<1> QED  BY DEF Host!Next

HostInv == loop = "host" => Host!IInv

LEMMA HostInvariant == MCSpec => []HostInv
<1>1. MCInit => HostInv
  BY LoopInits, HostInitInv DEF HostInv
<1>2. HostInv /\ [MCNext]_loopVars => HostInv'
  BY LoopSteps, HostStepInv DEF HostInv
<1> QED  BY <1>1, <1>2, PTL DEF MCSpec

\* A verse is never written into the clip that the worker can know to be on air
\* (lane_seed.rs, handlers.rs), whatever fails or restarts, and whichever decks
\* are selected and compositions loaded.
THEOREM LiveTextAlwaysStays == MCSpec => []LiveTextStays
<1>1. HostInv => LiveTextStays
  <2> SUFFICES ASSUME Host!IInv, Host!At("text"), v8, v2.current PROVE v1.live # Host!Target
    BY DEF HostInv, LiveTextStays, Host!LiveTextStays
  <2>1. v2 # NULL
    BY DEF Host!IInv, Host!PushOK, Host!OnMapping, Host!At
  <2>2. v1.live = NULL \/ v1.live[2] # v3.next
    BY <2>1 DEF Host!IInv, Host!LanesOK, Host!Off
  <2>3. Host!Target \in Host!Clip /\ Host!Target[2] = v3.next
    BY <2>1, HostClips DEF Host!IInv, Host!Target
  <2>4. Host!Target # NULL
    BY <2>3, HostKinds
  <2> QED  BY <2>2, <2>3, <2>4
<1> QED  BY <1>1, HostInvariant, PTL

\* A verse is connected at full opacity after every clear before it, complete or
\* cut short (bible_clear.rs).
THEOREM VersesAreAlwaysVisible == MCSpec => []VersesAreVisible
<1>1. HostInv => VersesAreVisible
  BY DEF HostInv, Host!IInv, VersesAreVisible
<1> QED  BY <1>1, HostInvariant, PTL

\* No cause has the composition fetched more than twice (mapping_refresh.rs),
\* however long a clip is listed whose id Arena rejects.
THEOREM FetchesAreAlwaysEarned == MCSpec => []FetchesAreEarned
<1>1. HostInv => FetchesAreEarned
  BY DEF HostInv, Host!IInv, Host!CausesOK, FetchesAreEarned, Host!FetchesAreEarned
<1> QED  BY <1>1, HostInvariant, PTL
===============================================================================
