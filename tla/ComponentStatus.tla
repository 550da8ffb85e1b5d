--------------------------- MODULE ComponentStatus ---------------------------
(***************************************************************************)
(* The list Status.ComponentsStatus of an OpenSearchCluster resource, and  *)
(* the operations of pkg/helpers/helpers.go and pkg/reconcilers/           *)
(* reconcilers.go on it.  The operator persists the progress of its        *)
(* multi-pass procedures (scale-down, upgrade, restart, recovery) here and *)
(* nowhere else.                                                           *)
(*                                                                         *)
(* An entry is a record with the fields component, status, description     *)
(* and conditions; only the first three take part in comparisons.          *)
(***************************************************************************)
LOCAL INSTANCE Naturals
LOCAL INSTANCE Sequences

ComponentStatusEqual(left, right) ==
    /\ left.component = right.component
    /\ left.description = right.description
    /\ left.status = right.status

\* The positions of the entries of list that equal ss.
EqualAt(ss, list) == {i \in 1..Len(list) : ComponentStatusEqual(list[i], ss)}

\* The first of a non-empty set of positions.
First(positions) == CHOOSE i \in positions : \A j \in positions : i <= j

\* list without its i-th entry.
Without(i, list) == [j \in 1..(Len(list) - 1) |-> IF j < i THEN list[j] ELSE list[j + 1]]

\* RemoveIt drops the first equal entry, if there is one.
RemoveIt(ss, list) ==
    IF EqualAt(ss, list) = {} THEN list ELSE Without(First(EqualAt(ss, list)), list)

\* Replace appends the new entry whether or not it found the old one.
Replace(remove, add, list) == Append(RemoveIt(remove, list), add)

\* RemoveIt shifts the tail of its argument in place (append(s[0:i], s[i+1:]...)): this is
\* what the caller's slice, whose length does not change, holds afterwards.
SliceAfterRemoveIt(ss, list) ==
    IF EqualAt(ss, list) = {} THEN list
    ELSE LET i == First(EqualAt(ss, list))
         IN  [j \in 1..Len(list) |->
                IF j < i \/ j = Len(list) THEN list[j] ELSE list[j + 1]]

\* Replace then appends into the slot that RemoveIt freed; without a free slot the caller's
\* slice does not see the new entry.
SliceAfterReplace(remove, add, list) ==
    IF EqualAt(remove, list) = {} THEN list ELSE Replace(remove, add, list)

GetByDescriptionAndComponent(left, right) ==
    left.description = right.description /\ left.component = right.component

\* FindFirstPartial, called with the comparison above: the first matching entry, or item itself.
FindFirstPartial(list, item) ==
    LET at == {i \in 1..Len(list) : GetByDescriptionAndComponent(list[i], item)}
    IN  IF at = {} THEN [found |-> FALSE, entry |-> item]
        ELSE [found |-> TRUE, entry |-> list[First(at)]]
=============================================================================
