---------------------------- MODULE ResolumeHost ----------------------------
(***************************************************************************)
(* The worker of one Resolume host (server/src/resolume/: driver.rs,       *)
(* handlers.rs, mapping_refresh.rs, lane_seed.rs, bible_clear.rs) with a   *)
(* Bible lane of two sides, A and B: a verse is written into the side that *)
(* is not live and then connected; a clear fades what is visible.  The     *)
(* worker runs one push at a time, on a cached mapping of the selected     *)
(* deck, and Arena changes under it: decks are switched, compositions      *)
(* loaded, clips connected by hand.  A request may fail, with or without   *)
(* its effect, and the server may restart at any step.                     *)
(*                                                                         *)
(* A fade goes from full over dim to dark.  Left out: the other lanes and  *)
(* the texts; clips of a deck that is still being loaded (the follow-up    *)
(* fetches); covers; opacities changed by hand; the search for a port.     *)
(***************************************************************************)
EXTENDS Naturals

CONSTANTS Deck, NULL,
          Threshold,   \* CACHE_INVALIDATION_THRESHOLD
          MaxEvents    \* bound: faults, restarts, and what happens in Arena

VARIABLES arena,      \* the deck selected, the clip on air, opacities, a broken id
          mapping,    \* the mapping of a composition, NULL when there is none
          lane,       \* the side that is next, and was it seeded
          tracked,    \* TrackedOpacities, by clip
          connected,  \* the clips that verses connected
          health,     \* failures in a row, in backoff, stale refetches paused
          push,       \* the push under way, or Rest
          sure,       \* ghost: the worker can know which clip is on air
          unsaid,     \* ghost: clips left dim by a restart or an answer lost
          fetches,    \* ghost: compositions fetched since there was a cause
          events

ghosts == <<sure, unsaid, fetches>>
driver == <<mapping, lane, tracked, connected, health>>
hostVars == <<arena, driver, push, ghosts, events>>

Side == {"A", "B"}
Other(s) == CHOOSE t \in Side : t # s
Clip == Deck \X Side
Off == NULL
Dark == 0
Full == 2

Untracked == [base |-> Full, level |-> NULL]
NewLane == [next |-> "A", seeded |-> FALSE]
Rest == [pc |-> "idle"]

Init == /\ arena = [deck |-> CHOOSE d \in Deck : TRUE, live |-> Off,
                    level |-> [c \in Clip |-> Full], broken |-> FALSE]
        /\ mapping = NULL /\ lane = NewLane
        /\ tracked = [c \in Clip |-> Untracked] /\ connected = {}
        /\ health = [failures |-> 0, backoff |-> FALSE, paused |-> FALSE]
        /\ push = Rest
        /\ sure = TRUE /\ unsaid = {} /\ fetches = 0
        /\ events = 0

Event == events < MaxEvents /\ events' = events + 1
At(pc) == push.pc = pc
Goto(pc) == push' = [push EXCEPT !.pc = pc]
Target == <<mapping.deck, lane.next>>
Quiet == UNCHANGED events

-----------------------------------------------------------------------------
(* What happens in Arena *)

SwitchDeck ==
  /\ Event
  /\ \E d \in Deck \ {arena.deck} : arena' = [arena EXCEPT !.deck = d]
  /\ fetches' = 0
  /\ UNCHANGED <<driver, push, sure, unsaid>>

\* Every id of the composition before is gone: what was, or still will be,
\* remembered of its clips is idle.
Load ==
  /\ Event
  /\ \E broken \in BOOLEAN :
       arena' = [arena EXCEPT !.live = Off, !.level = [c \in Clip |-> Full],
                              !.broken = broken]
  /\ mapping' = IF mapping = NULL THEN NULL ELSE [mapping EXCEPT !.current = FALSE]
  /\ tracked' = [c \in Clip |-> Untracked] /\ connected' = {}
  /\ sure' = TRUE /\ unsaid' = {} /\ fetches' = 0
  /\ UNCHANGED <<lane, health, push>>

ByHand ==
  /\ Event
  /\ \E s \in Side : arena' = [arena EXCEPT !.live = <<arena.deck, s>>]
  /\ sure' = FALSE
  /\ UNCHANGED <<driver, push, unsaid, fetches>>

-----------------------------------------------------------------------------
(* How a push ends *)

\* mark_connected
Succeed ==
  /\ health' = [health EXCEPT !.failures = 0, !.backoff = FALSE]
  /\ push' = Rest

Failures == IF health.failures < Threshold THEN health.failures + 1 ELSE Threshold

\* record_error of a failure other than a stale id
Fail ==
  /\ health' = [health EXCEPT !.failures = Failures, !.backoff = TRUE]
  /\ mapping' = IF Failures >= Threshold THEN NULL ELSE mapping
  /\ push' = Rest
  /\ fetches' = 0

\* record_error of a stale id keeps a mapping that was just fetched.
Refuse(paused) ==
  /\ health' = [failures |-> Failures, backoff |-> TRUE, paused |-> paused]
  /\ push' = Rest
  /\ UNCHANGED mapping

GiveUpUnpaused == Refuse(health.paused)
GiveUp == Refuse(TRUE)

\* dispatch_push: a 404 on a cached mapping fetches and retries, once.
Stale ==
  /\ UNCHANGED fetches
  /\ IF push.fetched \/ push.retry THEN GiveUp
     ELSE IF health.paused THEN Refuse(TRUE)
     ELSE /\ mapping' = NULL
          /\ push' = [push EXCEPT !.pc = "fetch", !.retry = TRUE]
          /\ UNCHANGED health

-----------------------------------------------------------------------------
(* Pushes, the tick, and the operator's refresh *)

Begin(kind, pc) ==
  push' = [pc |-> pc, kind |-> kind, retry |-> FALSE, fetched |-> FALSE, fade |-> {}]

Push ==
  /\ At("idle") /\ ~health.backoff
  /\ \E kind \in {"verse", "clear"} :
       Begin(kind, IF mapping = NULL THEN "fetch" ELSE "deck")
  /\ UNCHANGED <<arena, driver, ghosts, events>>

Tick ==
  /\ At("idle") /\ ~health.backoff
  /\ Begin("tick", IF mapping = NULL THEN "fetch" ELSE "probe")
  /\ UNCHANGED <<arena, driver, ghosts, events>>

\* manual_refresh, also in a backoff; it keeps the mapping until it has another.
ManualRefresh ==
  /\ Event
  /\ At("idle")
  /\ health' = [health EXCEPT !.paused = FALSE]
  /\ Begin("manual", "fetch")
  /\ fetches' = 0
  /\ UNCHANGED <<arena, mapping, lane, tracked, connected, sure, unsaid>>

Probe ==
  /\ At("probe")
  /\ \/ Quiet /\ Goto("deck") /\ UNCHANGED <<mapping, health, fetches>>
     \/ Event /\ Fail
  /\ UNCHANGED <<arena, lane, tracked, connected, sure, unsaid>>

AfterMapping == IF push.kind \in {"verse", "clear"} THEN Goto("sync") /\ UNCHANGED health
                ELSE Succeed

\* check_selected_deck: an answer that cannot be read keeps the mapping.
CheckDeck ==
  LET switched == ~mapping.current \/ mapping.deck # arena.deck
  IN  /\ At("deck")
      /\ \/ /\ switched /\ Quiet
            /\ mapping' = NULL /\ Goto("fetch") /\ UNCHANGED health
         \/ /\ IF switched THEN Event ELSE Quiet
            /\ AfterMapping /\ UNCHANGED mapping
      /\ UNCHANGED <<arena, lane, tracked, connected, ghosts>>

SeedNever == UNCHANGED lane /\ sure' = (arena.live = Off \/ arena.live[1] = arena.deck)

\* seed_lanes: the side that is not connected, if one is.
Seed == IF lane.seeded THEN UNCHANGED <<lane, sure>>
        ELSE /\ lane' = [seeded |-> TRUE,
                         next |-> IF \E s \in Side : arena.live = <<arena.deck, s>>
                                    THEN Other(arena.live[2]) ELSE lane.next]
             /\ sure' = (arena.live = Off \/ arena.live[1] = arena.deck)

\* refresh_mapping_with_reason
Fetch ==
  /\ At("fetch")
  /\ \/ /\ Quiet
        /\ mapping' = [deck |-> arena.deck, current |-> TRUE, synced |-> FALSE,
                       shown |-> [s \in Side |-> arena.level[<<arena.deck, s>>]]]
        /\ Seed
        /\ fetches' = fetches + 1
        /\ IF push.kind \in {"verse", "clear"}
             THEN push' = [push EXCEPT !.pc = "sync", !.fetched = TRUE] /\ UNCHANGED health
             ELSE Succeed
     \/ Event /\ Fail /\ UNCHANGED <<lane, sure>>
  /\ UNCHANGED <<arena, tracked, connected, unsaid>>

-----------------------------------------------------------------------------
(* A verse *)

\* TrackedOpacity.observe
Observe(t, shown) ==
  [base |-> IF t.level >= t.base /\ shown > Dark THEN shown
            ELSE IF t.base > shown THEN t.base ELSE shown,
   level |-> shown]

\* sync_with_fetch, once for every fetch
Sync ==
  /\ At("sync")
  /\ tracked' = [c \in Clip |->
       IF mapping.synced \/ ~mapping.current \/ c[1] # mapping.deck THEN tracked[c]
       ELSE IF tracked[c] # Untracked THEN
              IF tracked[c].level = mapping.shown[c[2]] THEN tracked[c]
              ELSE Observe(tracked[c], mapping.shown[c[2]])
       ELSE IF mapping.shown[c[2]] = Dark THEN [base |-> Full, level |-> Dark]
       ELSE Untracked]
  /\ mapping' = [mapping EXCEPT !.synced = TRUE]
  /\ Goto(IF push.kind = "verse" THEN "text" ELSE "plan")
  /\ Quiet
  /\ UNCHANGED <<arena, lane, connected, health, ghosts>>

Knows == mapping.current /\ ~arena.broken

\* update_lane_text
Text ==
  /\ At("text")
  /\ \/ Quiet /\ Knows /\ Goto("restore") /\ UNCHANGED <<mapping, health, fetches>>
     \/ Quiet /\ ~Knows /\ Stale
     \/ Event /\ Fail
  /\ UNCHANGED <<arena, lane, tracked, connected, sure, unsaid>>

Remember(t) == IF mapping.current
                 THEN /\ connected' = connected \union {Target}
                      /\ tracked' = [tracked EXCEPT ![Target] = t]
                 ELSE UNCHANGED <<connected, tracked>>

\* restore_before_connect
Restore ==
  LET shown == mapping.shown[lane.next]
      t == IF tracked[Target] # Untracked THEN tracked[Target]
           ELSE [base |-> IF shown > Dark THEN shown ELSE Full, level |-> shown]
      faded == t.level < t.base
      Lit == arena' = [arena EXCEPT !.level[Target] = t.base]
  IN  /\ At("restore")
      /\ \/ /\ Quiet /\ (mapping.current => ~faded)
            /\ Remember(t)
            /\ Goto("connect") /\ UNCHANGED <<arena, mapping, health, fetches>>
         \/ /\ Quiet /\ mapping.current /\ faded
            /\ Lit /\ Remember([t EXCEPT !.level = t.base])
            /\ Goto("connect") /\ UNCHANGED <<mapping, health, fetches>>
         \/ /\ Quiet /\ ~mapping.current
            /\ Remember(t)
            /\ Stale /\ UNCHANGED arena
         \/ /\ Event /\ (mapping.current => faded)
            /\ Remember(t)
            /\ UNCHANGED arena \/ (mapping.current /\ Lit)
            /\ Fail
      /\ UNCHANGED <<lane, sure, unsaid>>

Live == arena' = [arena EXCEPT !.live = Target]

\* trigger_clips: the side is flipped only when its answer is back.
Connect ==
  /\ At("connect")
  /\ \/ /\ Quiet /\ Knows /\ Live
        /\ lane' = [lane EXCEPT !.next = Other(@)] /\ sure' = TRUE
        /\ Succeed /\ UNCHANGED <<mapping, fetches>>
     \/ Quiet /\ ~Knows /\ Stale /\ UNCHANGED <<arena, lane, sure>>
     \/ /\ Event /\ Fail
        /\ \/ UNCHANGED <<arena, sure>>
           \/ Knows /\ Live /\ sure' = FALSE
        /\ UNCHANGED lane
  /\ UNCHANGED <<tracked, connected, unsaid>>

-----------------------------------------------------------------------------
(* A clear: handle_bible_clear *)

LevelOf(c) == IF tracked[c] # Untracked THEN tracked[c].level
              ELSE IF c[1] = mapping.deck THEN mapping.shown[c[2]] ELSE Dark

\* plan_clear_fade
Visible == {c \in Clip : (c[1] = mapping.deck \/ c \in connected) /\ LevelOf(c) > Dark}

TrackAnew == [c \in Clip |-> IF c \in Visible THEN [base |-> LevelOf(c), level |-> LevelOf(c)]
                               ELSE tracked[c]]

\* run_fade tracks every clip before the first step.
TrackAll == [c \in Clip |-> IF c \in Visible /\ tracked[c] = Untracked
                              THEN [base |-> LevelOf(c), level |-> LevelOf(c)]
                              ELSE tracked[c]]

Plan ==
  /\ At("plan")
  /\ tracked' = IF mapping.current THEN TrackAll ELSE tracked
  /\ push' = [push EXCEPT !.pc = "fade", !.fade = Visible]
  /\ Quiet
  /\ UNCHANGED <<arena, mapping, lane, connected, health, ghosts>>

Fading == {c \in push.fade : tracked[c].level \notin {Dark, NULL}}

\* A batch: which requests had their effect, and which answers came back.
Step(landed, answered) ==
  /\ arena' = [arena EXCEPT !.level = [c \in Clip |-> IF c \in landed THEN LevelOf(c) - 1
                                                      ELSE arena.level[c]]]
  /\ tracked' = [c \in Clip |-> IF c \in answered
                                  THEN [tracked[c] EXCEPT !.level = @ - 1] ELSE tracked[c]]
  /\ unsaid' = unsaid \union (landed \ answered)

Fade ==
  /\ At("fade")
  /\ \/ /\ Quiet /\ mapping.current /\ Fading # {}
        /\ Step(Fading, Fading)
        /\ UNCHANGED <<mapping, health, push, fetches>>
     \/ /\ Quiet /\ mapping.current /\ Fading = {}
        /\ Succeed /\ UNCHANGED <<arena, tracked, mapping, unsaid, fetches>>
     \/ /\ Quiet /\ ~mapping.current
        /\ Stale \/ (Succeed /\ UNCHANGED <<mapping, fetches>>)
        /\ UNCHANGED <<arena, tracked, unsaid>>
     \/ /\ Event
        /\ IF mapping.current
             THEN \E landed \in SUBSET Fading : \E answered \in SUBSET landed :
                    answered # Fading /\ Step(landed, answered)
             ELSE UNCHANGED <<arena, tracked, unsaid>>
        /\ Fail
  /\ UNCHANGED <<lane, connected, sure>>

-----------------------------------------------------------------------------
\* update_config, and a restart of the server, forget what the driver knew.
Forget ==
  /\ mapping' = NULL /\ lane' = NewLane
  /\ tracked' = [c \in Clip |-> Untracked] /\ connected' = {}
  /\ push' = Rest
  /\ unsaid' = unsaid \union {c \in Clip : arena.level[c] \notin {Dark, Full}}
  /\ fetches' = 0
  /\ UNCHANGED <<arena, sure>>

UpdateConfig == /\ Event /\ At("idle") /\ Forget
                /\ health' = [health EXCEPT !.backoff = FALSE, !.paused = FALSE]

Restart == /\ Event /\ Forget
           /\ health' = [failures |-> 0, backoff |-> FALSE, paused |-> FALSE]

BackoffEnds == /\ health.backoff
               /\ health' = [health EXCEPT !.backoff = FALSE]
               /\ UNCHANGED <<arena, mapping, lane, tracked, connected, push, ghosts, events>>

\* STALE_REFETCH_COOLDOWN
PauseEnds == /\ health.paused
             /\ health' = [health EXCEPT !.paused = FALSE]
             /\ fetches' = 0
             /\ UNCHANGED <<arena, mapping, lane, tracked, connected, push, sure, unsaid, events>>

Next == \/ SwitchDeck \/ Load \/ ByHand
        \/ Push \/ Tick \/ ManualRefresh
        \/ Probe \/ CheckDeck \/ Fetch \/ Sync
        \/ Text \/ Restore \/ Connect \/ Plan \/ Fade
        \/ UpdateConfig \/ Restart \/ BackoffEnds \/ PauseEnds

Spec == Init /\ [][Next]_hostVars

-----------------------------------------------------------------------------
\* A verse is never written into the clip on air, where it would replace the
\* text without a crossfade, unless the worker cannot know the clip: it was
\* connected by hand, or by a connect whose answer was lost, or it is of
\* another deck than the one the lanes were seeded from after a start.
LiveTextStays == (At("text") /\ sure /\ mapping.current) => arena.live # Target

\* A clip is connected at full opacity whatever a clear did to it before, also
\* one that failed halfway or was made by an earlier process; unless a restart,
\* or an answer that was lost, left it dim.
VersesAreVisible ==
  (At("connect") /\ mapping.current /\ Target \notin unsaid) => arena.level[Target] = Full

\* The composition, of several megabytes, is fetched at most once for every
\* cause: a change in Arena, a failure, a start, an operator, the cooldown over.
\* An id that Arena lists and rejects does not have every push fetch it again.
FetchesAreEarned == fetches <= 2

-----------------------------------------------------------------------------
(* The inductive invariant of the proofs (LoopsProof). *)

Levels == Dark..Full
Kinds == {"verse", "clear", "tick", "manual"}
OnMapping == {"deck", "probe", "sync", "text", "restore", "connect", "plan", "fade"}

Mappings == [deck : Deck, current : BOOLEAN, synced : BOOLEAN, shown : [Side -> Levels]]
Pushes == [pc : OnMapping \union {"fetch"}, kind : Kinds, retry : BOOLEAN,
           fetched : BOOLEAN, fade : SUBSET Clip]

Types ==
  /\ arena \in [deck : Deck, live : Clip \union {Off}, level : [Clip -> Levels],
                broken : BOOLEAN]
  /\ mapping \in Mappings \union {NULL}
  /\ lane \in [next : Side, seeded : BOOLEAN]
  /\ tracked \in [Clip -> [base : Levels, level : Levels] \union {Untracked}]
  /\ health \in [failures : Nat, backoff : BOOLEAN, paused : BOOLEAN]
  /\ push \in Pushes \union {Rest}
  /\ sure \in BOOLEAN

\* Which push may be where, and that it has a mapping there.
PushOK ==
  /\ push.pc \in OnMapping => mapping # NULL
  /\ push.pc = "sync" => push.kind \in {"verse", "clear"}
  /\ push.pc \in {"text", "restore", "connect"} => push.kind = "verse"
  /\ push.pc \in {"plan", "fade"} => push.kind = "clear"

\* The lanes were seeded before they are used, and then alternate.
LanesOK ==
  /\ mapping # NULL => lane.seeded
  /\ (lane.seeded /\ sure) => (arena.live = Off \/ arena.live[2] # lane.next)

\* What causes a fetch has the count begin anew, but for an id that Arena lists
\* and rejects: it causes one more, by a verse, and then a pause.
CausesOK ==
  /\ fetches \in 0..2
  /\ mapping = NULL => At("fetch") \/ fetches = 0
  /\ mapping # NULL => (mapping.current /\ mapping.deck = arena.deck) \/ fetches = 0
  /\ At("fetch") /\ fetches # 0 => /\ fetches = 1 /\ arena.broken
                                   /\ push.retry /\ push.kind = "verse"
  /\ fetches = 2 => \/ health.paused \/ ~arena.broken
                    \/ push.pc \in {"sync", "text"} /\ push.kind = "verse" /\ push.fetched

\* What the worker remembers of a clip is what Arena shows, or a restore whose
\* answer was lost made the clip visible.
LevelsOK ==
  \A c \in Clip \ unsaid :
    IF tracked[c] = Untracked THEN arena.level[c] \in {Dark, Full}
    ELSE tracked[c].base = Full /\ arena.level[c] \in {tracked[c].level, Full}

\* So is what a mapping shows of the clips that are not remembered, and before it
\* was synced of all.
ShownOK ==
  (mapping # NULL /\ mapping.current) =>
    \A s \in Side : tracked[<<mapping.deck, s>>] = Untracked \/ ~mapping.synced
                      => mapping.shown[s] = arena.level[<<mapping.deck, s>>]

SyncedOK == push.pc \in {"text", "restore", "connect", "plan", "fade"} => mapping.synced

IInv == Types /\ PushOK /\ LanesOK /\ CausesOK /\ LevelsOK /\ ShownOK /\ SyncedOK
          /\ VersesAreVisible
=============================================================================
