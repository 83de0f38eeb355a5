------------------------------ MODULE StageTv ------------------------------
(***************************************************************************)
(* The worker that keeps the stage on one Android display                  *)
(* (android_stage.rs, android_stage/adb.rs): every 20 seconds, or when it  *)
(* is told to, it connects, installs our app if need be and launches it,   *)
(* one adb command at a time, while the display is switched off and on,    *)
(* asks to allow debugging, or shows something else.  What adb lists, the  *)
(* app and the foreground are the display's; every command on a display    *)
(* that is not listed as a device fails, and others may time out.  The     *)
(* worker then no longer waits for the answer, but nothing stops the       *)
(* command: it may still get through, at any later time.  The stage URL    *)
(* and the package of another browser are left out.                        *)
(***************************************************************************)
EXTENDS Naturals, Sequences

CONSTANTS StaleCycles,   \* STALE_RECONNECT_CYCLES
          Capacity,      \* COMMAND_CHANNEL_CAPACITY
          MaxTroubles    \* bound: what happens to the display, its settings and
                         \* the commands

VARIABLES on,        \* is the display switched on
          listed,    \* the state adb lists: "absent", "offline", "prompt", "device"
          app,       \* our app there: "none", "old", "current"
          front,     \* is the stage in the foreground
          wanted,    \* is the display enabled in the registry
          queue,     \* commands for the worker
          worker,    \* enabled, forced, the step it is at, and its streak
          shown,     \* the status of the display
          stale,     \* ghost: listings as offline in a row, since a disconnect
          troubles,
          adrift,    \* the commands that were given up and may yet get through
          overtaken  \* ghost: did such an install, since the app was last read

tv == <<on, listed, app, front>>
settings == <<wanted, queue>>
abroad == <<adrift, overtaken>>
tvVars == <<on, listed, app, front, wanted, queue, worker, shown, stale, troubles,
            adrift, overtaken>>

Commands == {"connect", "disconnect", "install", "uninstall", "launch"}

Init == /\ on = TRUE
        /\ listed \in {"absent", "device"}
        /\ app \in {"none", "old", "current"}
        /\ front = FALSE
        /\ wanted = TRUE
        /\ queue = <<"launch">>
        /\ worker = [pc |-> "idle", enabled |-> TRUE, forced |-> FALSE, stuck |-> 0]
        /\ shown = "connecting"
        /\ stale = 0 /\ troubles = 0
        /\ adrift = [c \in Commands |-> 0] /\ overtaken = FALSE

Trouble == troubles < MaxTroubles /\ troubles' = troubles + 1
At(pc) == worker.pc = pc
Step(pc) == worker' = [worker EXCEPT !.pc = pc]
End(s) == Step("idle") /\ shown' = s

\* A command gets through to the display, or is refused, or fails, or times out.
Reaches == listed = "device" /\ UNCHANGED troubles
Misses == \/ listed # "device" /\ UNCHANGED troubles
          \/ Trouble

\* ProcessAdbRunner::run: a command whose time is up is left to itself.
GivenUp(command) == /\ adrift' \in {adrift, [adrift EXCEPT ![command] = @ + 1]}
                    /\ UNCHANGED overtaken
Fails(command) == \/ listed # "device" /\ UNCHANGED <<troubles, abroad>>
                  \/ Trouble /\ GivenUp(command)

-----------------------------------------------------------------------------
(* The display *)

SwitchOff == /\ Trouble
             /\ on
             /\ on' = FALSE /\ front' = FALSE
             /\ listed' = IF listed = "absent" THEN "absent" ELSE "offline"
             /\ UNCHANGED <<app, settings, worker, shown, stale, abroad>>

\* adb keeps its entry: the display stays offline until it is dropped.
SwitchOn == /\ ~on
            /\ on' = TRUE
            /\ UNCHANGED <<listed, app, front, settings, worker, shown, stale, troubles,
                           abroad>>

Prompt == /\ Trouble
          /\ on /\ listed # "absent"
          /\ listed' = "prompt"
          /\ UNCHANGED <<on, app, front, settings, worker, shown, stale, abroad>>

Accept == /\ listed = "prompt"
          /\ listed' = "device"
          /\ UNCHANGED <<on, app, front, settings, worker, shown, stale, troubles, abroad>>

Resurface == /\ Trouble
             /\ front
             /\ front' = FALSE
             /\ UNCHANGED <<on, listed, app, settings, worker, shown, stale, abroad>>

-----------------------------------------------------------------------------
(* The registry *)

Send(cs) == LET room == Capacity - Len(queue)
            IN  queue' = queue \o SubSeq(cs, 1, IF Len(cs) < room THEN Len(cs) ELSE room)

\* set_displays: what does not fit in the queue is lost.
Save(enabled) ==
  /\ Trouble
  /\ wanted' = enabled
  /\ Send(IF enabled THEN <<"enable", "launch">> ELSE <<"disable">>)
  /\ UNCHANGED <<tv, worker, shown, stale, abroad>>

LaunchNow ==
  /\ Trouble
  /\ wanted /\ Len(queue) < Capacity
  /\ Send(<<"launch">>)
  /\ UNCHANGED <<tv, wanted, worker, shown, stale, abroad>>

-----------------------------------------------------------------------------
(* The worker *)

Tick ==
  /\ At("idle") /\ worker.enabled
  /\ worker' = [worker EXCEPT !.pc = "list", !.forced = FALSE]
  /\ shown' = "connecting"
  /\ UNCHANGED <<tv, settings, stale, troubles, abroad>>

Command ==
  /\ At("idle") /\ queue # <<>>
  /\ queue' = Tail(queue)
  /\ IF Head(queue) = "launch"
       THEN IF worker.enabled
              THEN /\ worker' = [worker EXCEPT !.pc = "list", !.forced = TRUE]
                   /\ shown' = "connecting"
                   /\ UNCHANGED stale
              ELSE UNCHANGED <<worker, shown, stale>>
       ELSE /\ worker' = [worker EXCEPT !.enabled = (Head(queue) = "enable"), !.stuck = 0]
            /\ shown' = IF Head(queue) = "enable" THEN shown ELSE "disabled"
            /\ stale' = 0
  /\ UNCHANGED <<tv, wanted, troubles, abroad>>

StuckThroughPrompts(state) ==
  IF state = "offline" THEN worker.stuck + 1
  ELSE IF state = "prompt" THEN worker.stuck ELSE 0

\* decide_connect: only listings as offline in a row count.
Stuck(state) == IF state = "offline" THEN worker.stuck + 1 ELSE 0

\* adb devices, which may itself fail.
List ==
  /\ At("list")
  /\ \E state \in {listed, "absent"} :
       LET stuck == Stuck(state) IN
       /\ stale' = IF state = "offline" THEN stale + 1 ELSE 0
       /\ IF state = listed THEN UNCHANGED troubles ELSE Trouble
       /\ worker' = [worker EXCEPT
            !.stuck = IF stuck >= StaleCycles THEN 0 ELSE stuck,
            !.pc = IF state = "device" THEN "path"
                   ELSE IF stuck >= StaleCycles THEN "disconnect" ELSE "connect"]
  /\ UNCHANGED <<tv, settings, shown, abroad>>

KeepEntry ==
  /\ At("disconnect")
  /\ stale' = 0
  /\ Step("connect")
  /\ UNCHANGED <<tv, settings, shown, troubles, abroad>>

\* A disconnect that fails is ignored.
Disconnect ==
  /\ At("disconnect")
  /\ \/ listed' = "absent" /\ UNCHANGED <<troubles, abroad>>
     \/ Trouble /\ GivenUp("disconnect") /\ UNCHANGED listed
  /\ stale' = 0
  /\ Step("connect")
  /\ UNCHANGED <<on, app, front, settings, shown>>

\* A stale entry is "already connected": nothing changes and nothing is said.
Connect ==
  /\ At("connect")
  /\ \/ /\ on \/ listed # "absent"
        /\ listed' = IF listed = "absent" THEN "device" ELSE listed
        /\ Step("path")
        /\ UNCHANGED <<shown, troubles, abroad>>
     \/ /\ \/ ~on /\ listed = "absent" /\ UNCHANGED <<troubles, abroad>>
           \/ Trouble /\ GivenUp("connect")
        /\ End("error")
        /\ UNCHANGED listed
  /\ UNCHANGED <<on, app, front, settings, stale>>

\* adb_package_state of a package that cannot be read.
TakenForAbsent == Step("install") /\ UNCHANGED shown
TakenForUnknown == End("error")

\* ensure_app_installed: pm path
Path ==
  /\ At("path")
  /\ \/ /\ Reaches
        /\ Step(IF app = "none" THEN "install" ELSE "version")
        /\ overtaken' = FALSE
        /\ UNCHANGED shown
     \/ Misses /\ TakenForUnknown /\ UNCHANGED overtaken
  /\ UNCHANGED <<tv, settings, stale, adrift>>

\* stage_app_install_action: only a version that was read, and is lower, is replaced.
Version ==
  /\ At("version")
  /\ \/ Reaches /\ Step(IF app = "old" THEN "install" ELSE "front") /\ overtaken' = FALSE
     \/ Misses /\ Step("front") /\ UNCHANGED overtaken
  /\ UNCHANGED <<tv, settings, shown, stale, adrift>>

\* install_stage_apk: over the old app, else without it.
Install ==
  /\ At("install")
  /\ \/ /\ Reaches /\ Step("front")
        /\ app' = "current" /\ front' = FALSE
        /\ UNCHANGED abroad
     \/ Fails("install") /\ Step("uninstall") /\ UNCHANGED <<app, front>>
  /\ UNCHANGED <<on, listed, settings, shown, stale>>

Uninstall ==
  /\ At("uninstall")
  /\ \/ Reaches /\ app' = "none" /\ front' = FALSE /\ UNCHANGED abroad
     \/ Fails("uninstall") /\ UNCHANGED <<app, front>>
  /\ Step("clean")
  /\ UNCHANGED <<on, listed, settings, shown, stale>>

CleanInstall ==
  /\ At("clean")
  /\ \/ /\ Reaches
        /\ app' = "current" /\ front' = FALSE
        /\ Step("front") /\ UNCHANGED <<shown, abroad>>
     \/ Fails("install") /\ End("error") /\ UNCHANGED <<app, front>>
  /\ UNCHANGED <<on, listed, settings, stale>>

\* should_launch_stage: a foreground that cannot be read is no reason not to.
Front ==
  /\ At("front")
  /\ IF worker.forced THEN Step("launch") /\ shown' = "launching" /\ UNCHANGED troubles
     ELSE \/ /\ Reaches
             /\ IF front THEN End("running") ELSE Step("launch") /\ shown' = "launching"
          \/ Misses /\ Step("launch") /\ shown' = "launching"
  /\ UNCHANGED <<tv, settings, stale, abroad>>

Launch ==
  /\ At("launch")
  /\ \/ /\ Reaches
        /\ front' = (app # "none")
        /\ End(IF app = "none" THEN "error" ELSE "running")
        /\ UNCHANGED abroad
     \/ Fails("launch") /\ End("error") /\ UNCHANGED front
  /\ UNCHANGED <<on, listed, app, settings, stale>>

-----------------------------------------------------------------------------
(* The commands that were given up and get through after all *)

GetsThrough(command) ==
  /\ adrift[command] > 0
  /\ adrift' = [adrift EXCEPT ![command] = @ - 1]
  /\ UNCHANGED <<on, settings, worker, shown, stale, troubles>>

LateConnect == /\ on /\ listed = "absent"
               /\ GetsThrough("connect")
               /\ listed' = "device"
               /\ UNCHANGED <<app, front, overtaken>>

LateDisconnect == /\ GetsThrough("disconnect")
                  /\ listed' = "absent"
                  /\ UNCHANGED <<app, front, overtaken>>

LateInstall == /\ on
               /\ GetsThrough("install")
               /\ app' = "current" /\ front' = FALSE /\ overtaken' = TRUE
               /\ UNCHANGED listed

LateUninstall == /\ on
                 /\ GetsThrough("uninstall")
                 /\ app' = "none" /\ front' = FALSE
                 /\ UNCHANGED <<listed, overtaken>>

LateLaunch == /\ on
              /\ GetsThrough("launch")
              /\ front' = (app # "none")
              /\ UNCHANGED <<listed, app, overtaken>>

Display == SwitchOff \/ SwitchOn \/ Prompt \/ Accept \/ Resurface
Registry == LaunchNow \/ \E enabled \in BOOLEAN : Save(enabled)
Cycle == \/ List \/ Disconnect \/ Connect \/ Path \/ Version
         \/ Install \/ Uninstall \/ CleanInstall \/ Front \/ Launch
Late == LateConnect \/ LateDisconnect \/ LateInstall \/ LateUninstall \/ LateLaunch

Next == Display \/ Registry \/ Tick \/ Command \/ Cycle \/ Late

\* The worker runs, its ticker ticks, and select takes commands too.
Fairness == /\ WF_tvVars(Cycle)
            /\ WF_tvVars(Tick)
            /\ SF_tvVars(Command)

Spec == Init /\ [][Next]_tvVars /\ Fairness

-----------------------------------------------------------------------------
\* The worker never takes down the app a display should run: what it cannot
\* read is no reason to install or to uninstall (#734, #793).  The display loses it
\* only to a command that was given up: to an uninstall that gets through late, or,
\* when an install did so since the app was last read, to the uninstall that
\* install_stage_apk falls back to.
AppStays == app = "current" => \/ app' = "current"
                               \/ adrift'["uninstall"] < adrift["uninstall"]
                               \/ At("uninstall") /\ overtaken
CurrentAppStays == [][AppStays]_tvVars

\* The worker disconnects a display only when it was listed as offline in three
\* cycles in a row since it last did, or the display was set up: it never makes one
\* that asks its user to allow debugging ask again (#793).
DisconnectsStuckOnly == At("disconnect") => stale >= StaleCycles

\* A display that stays on, and does not keep asking, shows the stage in the
\* end, also when adb still holds the entry from before it was switched off.
Stays == on /\ listed # "prompt" /\ worker.enabled
StageComesBack == <>[]Stays => <>[]front

-----------------------------------------------------------------------------
(* The inductive invariant of the proofs (LoopsProof). *)

Types == /\ worker \in [pc : {"idle", "list", "disconnect", "connect", "path", "version",
                              "install", "uninstall", "clean", "front", "launch"},
                        enabled : BOOLEAN, forced : BOOLEAN, stuck : Nat]
         /\ stale \in Nat

AdriftOK == adrift \in [Commands -> Nat]

\* The streak the worker counts is one of listings in a row.
StreakOK == /\ worker.stuck <= stale
            /\ At("disconnect") => worker.stuck = 0 /\ stale >= StaleCycles

\* What is about to be installed or taken down is not the app it should be, unless
\* an install that was given up made it so.
ReplacesOK == At("install") \/ At("uninstall") \/ At("clean") =>
                app # "current" \/ overtaken

IInv == Types /\ AdriftOK /\ StreakOK /\ ReplacesOK
=============================================================================
