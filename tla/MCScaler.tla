------------------------------ MODULE MCScaler ------------------------------
(* Values of the constants of Scaler for TLC. *)
EXTENDS Scaler

CONSTANTS p1, p2

TwoPools == <<p1, p2>>
FirstReplicas == {[p \in {p1, p2} |-> IF p = p1 THEN n ELSE n - 1] : n \in 1..2}
=============================================================================
