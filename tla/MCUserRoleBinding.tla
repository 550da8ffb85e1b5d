-------------------------- MODULE MCUserRoleBinding --------------------------
(* Small instances of UserRoleBinding. *)
EXTENDS UserRoleBinding

TwoBindings == {"a", "b"}
TwoRoles == {"read", "write"}
TwoSubjects == {"u", "v"}
\* Specs that overlap in a role, and one that the webhook refuses.
ThreeSpecs == {[roles |-> {"read"}, subjects |-> {"u"}],
               [roles |-> {"read", "write"}, subjects |-> {"v"}],
               [roles |-> {}, subjects |-> {"v"}]}
OneOther == {"host"}
=============================================================================
