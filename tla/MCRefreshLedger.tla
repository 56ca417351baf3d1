--------------------------- MODULE MCRefreshLedger ---------------------------
(* Instances of RefreshLedger for TLC: histories that earlier versions may *)
(* have left in the file, oldest first, and the symmetry of the actors.    *)
EXTENDS RefreshLedger, TLC

CONSTANTS k, l

NoOldRuns == <<>>
TwoOldRuns == <<k, l>>

ActorSymmetry == Permutations(Runs)
=============================================================================
