----------------------------- MODULE SlideStore -----------------------------
(***************************************************************************)
(* What the slide editor promises: the slides of a song change in one      *)
(* step, either by an edit made to the slides the song has at that very    *)
(* moment, or by the version of the other site when its clock is the later *)
(* one. No edit works on slides that are no longer there, and none undoes  *)
(* a version that came in meanwhile.                                       *)
(***************************************************************************)
EXTENDS Naturals

CONSTANTS Song,             \* the songs of the site
          Requests(_),      \* the edits a client showing these slides can ask for
          Allowed(_, _),    \* whether an edit can be made of these slides
          Result(_, _, _),  \* the slides it makes of them
          Taken(_, _)       \* how many new slides it makes

VARIABLES slides,  \* slides[s]: the slides of song s, in order
          stamp,   \* stamp[s]: when, and at which site, s was last changed
          minted,  \* identities given to slides so far: 1..minted
          clock    \* the time, one tick for every change

storeVars == <<slides, stamp, minted, clock>>

-----------------------------------------------------------------------------

StoreInit == /\ \A s \in Song : stamp[s] = [at |-> 0, by |-> "here"]
             /\ clock = 0

\* An operator's edit, made to the slides as they are.
Edit(s) ==
  /\ clock' = clock + 1
  /\ stamp' = [stamp EXCEPT ![s] = [at |-> clock', by |-> "here"]]
  /\ \E r \in Requests(slides[s]) :
        /\ Allowed(slides[s], r)
        /\ minted' = minted + Taken(slides[s], r)
        /\ slides' = [slides EXCEPT ![s] = Result(@, r, minted)]

\* The version of the other site, changed there later than here.
Adopt(s) ==
  /\ \E at \in 1..clock : /\ at > stamp[s].at
                          /\ stamp' = [stamp EXCEPT ![s] = [at |-> at, by |-> "peer"]]
  /\ \A x \in Song \ {s} : slides'[x] = slides[x]
  /\ UNCHANGED <<minted, clock>>

\* The song is renamed, or goes to the trash.
Refile(s) == /\ clock' = clock + 1
             /\ stamp' = [stamp EXCEPT ![s] = [at |-> clock', by |-> "here"]]
             /\ UNCHANGED <<slides, minted>>

\* Slides are made, and time passes, on the other site and in other songs.
Elsewhere == /\ minted' \in {minted, minted + 1} /\ clock' \in {clock, clock + 1}
             /\ UNCHANGED <<slides, stamp>>

StoreNext == \/ Elsewhere
             \/ \E s \in Song : Refile(s) \/ Adopt(s) \/ Edit(s)

StoreSpec == StoreInit /\ [][StoreNext]_storeVars
=============================================================================
