------------------------------ MODULE Resource ------------------------------
(***************************************************************************)
(* What one call of the generic reconciler does to an object of Kubernetes *)
(* (pkg/reconciler/resource.go).  An object has the content that the       *)
(* operator asks for and may be in deletion, held by whoever uses it.      *)
(* The recreation of objects on a change of immutable fields is an option  *)
(* that the operator leaves off.                                           *)
(***************************************************************************)
CONSTANT None    \* no object

Object(content) == [content |-> content, deleting |-> FALSE]

(* An object that is there, whatever its content, is left as it is. *)
CreateIfNotExist(current, desired) == IF current = None THEN Object(desired) ELSE current

(* A deletion is asked for; the object goes when nobody holds it any more. *)
Delete(current) == IF current = None THEN None ELSE [current EXCEPT !.deleting = TRUE]

(* An object in deletion is not touched, one that differs is updated. *)
Update(current, desired) == IF current.deleting THEN current ELSE [current EXCEPT !.content = desired]

ReconcileResource(current, desired, state) ==
    CASE state = "Absent" -> Delete(current)
      [] state = "Created" -> CreateIfNotExist(current, desired)
      [] state = "Present" -> IF current = None THEN CreateIfNotExist(current, desired)
                                                ELSE Update(current, desired)
=============================================================================
