--------------------------- MODULE MCManagedObject ---------------------------
(* Small instances of ManagedObject. *)
EXTENDS ManagedObject

\* A document, and one that only the reconciler of ISM policies refuses: it has a shrink action
\* that sets two limits.
TwoContents ==
    {[rev |-> 1, complete |-> TRUE, shrinks |-> {{"size"}}, notifies |-> {{"slack"}}],
     [rev |-> 2, complete |-> TRUE, shrinks |-> {{"size", "count"}}, notifies |-> {}]}
TwoNames == {"x", "y"}
=============================================================================
