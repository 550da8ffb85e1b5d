-------------------------- MODULE MCRollingRestart --------------------------
(* Small clusters for the model checker. *)
EXTENDS RollingRestart, TLC

CONSTANTS m, d

\* The masters are listed first, and their StatefulSet's name is the greater one.
MastersAndData == <<m, d>>
Rank == [p \in Pool |-> IF p = d THEN 1 ELSE 2]
ThreeMastersThreeData == (m :> 3) @@ (d :> 3)
=============================================================================
