------------------------- MODULE MCCooperativeGroup -------------------------
(* One pool with more items than workers, next to a pool with one item. *)
EXTENDS CooperativeGroup

CONSTANTS p, q

TwoAndOne == [x \in Pools |-> IF x = p THEN 3 ELSE 1]
TwoWorkers == [x \in Pools |-> 2]
=============================================================================
