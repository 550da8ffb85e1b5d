-------------------------- MODULE MCSecurityConfig --------------------------
(* A user who names all secrets, and one who names only the securityconfig. *)
EXTENDS SecurityConfig

TwoSetups == {[ownAdmin |-> TRUE, ownDash |-> TRUE], [ownAdmin |-> FALSE, ownDash |-> FALSE]}
TwoSources == {[users |-> "default", rest |-> "absent"], [users |-> "a", rest |-> "a"]}
=============================================================================
