--------------------------- MODULE MCStageOutput ---------------------------
(***************************************************************************)
(* Instances of StageOutput for TLC: the first slide of each song is       *)
(* marked with the worship layout, the second with the API layout.         *)
(***************************************************************************)
EXTENDS StageOutput, TLC

CONSTANTS Worship, Snv, Api

MCMarker == (1 :> {Worship}) @@ (2 :> {Api}) @@ (3 :> {})
Tasks == Permutations(Task)
=============================================================================
