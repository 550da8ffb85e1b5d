--------------------------- MODULE ObjectOwnership ---------------------------
(***************************************************************************)
(* What the operator promises about one name inside OpenSearch (of a role, *)
(* a tenant, a user, ...) that custom resources may describe: it never     *)
(* touches an object that somebody else made, and it takes the object it   *)
(* made away before the custom resource goes.                              *)
(***************************************************************************)

VARIABLES
    resource,  \* is there a custom resource?
    object,    \* the object in OpenSearch: "none", made by the "operator" or by "others"
    operator   \* what the operator is doing; its steps, and no others, change it

vars == <<resource, object, operator>>

Init == resource = FALSE /\ object \in {"none", "others"}

\* A user creates the custom resource.
Create == ~resource /\ resource' = TRUE /\ UNCHANGED <<object, operator>>

\* The custom resource goes: the operator leaves nothing behind.
Forget == resource /\ object # "operator" /\ resource' = FALSE /\ UNCHANGED object

\* The operator creates the object, or brings it up to date.
Put ==
    /\ resource /\ object # "others" /\ object' = "operator"
    /\ operator' # operator /\ UNCHANGED resource

\* The operator deletes the object: only its own.
Remove ==
    /\ resource /\ object = "operator" /\ object' = "none"
    /\ operator' # operator /\ UNCHANGED resource

\* The operator looks, waits, or writes a status.
Think == operator' # operator /\ UNCHANGED <<resource, object>>

\* Somebody else creates an object under a free name.
Appear == object = "none" /\ object' = "others" /\ UNCHANGED <<resource, operator>>

\* Somebody else deletes the object, or the whole cluster goes.
Lose == object' = "none" /\ UNCHANGED <<resource, operator>>

Next == Create \/ Forget \/ Put \/ Remove \/ Think \/ Appear \/ Lose

Spec == Init /\ [][Next]_vars
=============================================================================
