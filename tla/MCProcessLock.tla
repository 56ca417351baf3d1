---------------------------- MODULE MCProcessLock ----------------------------
(* Two acquisitions and two verifications of one of them. *)
EXTENDS ProcessLock, TLC

CONSTANTS a, b, u, v

ExpectA == [q \in Probers |-> a]
Symmetric == Permutations(Contenders \ {a}) \cup Permutations(Probers)
=============================================================================
