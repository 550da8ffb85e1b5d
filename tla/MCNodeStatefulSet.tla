------------------------- MODULE MCNodeStatefulSet -------------------------
(* A pool of three replicas, of two, of a larger disk, and one that is not valid. *)
EXTENDS NodeStatefulSet

Base == [size |-> 1, replicas |-> 3, pdb |-> "off"]
SomeSpecs == {Base, [Base EXCEPT !.size = 2, !.pdb = "valid"], [Base EXCEPT !.replicas = 2],
              [Base EXCEPT !.size = 0, !.pdb = "invalid"]}
LargerDiskFewerNodes == {Base, [Base EXCEPT !.size = 2, !.replicas = 2]}
SomeSetups == {[parallelRecovery |-> TRUE, upgrading |-> FALSE, labels |-> "new"],
               [parallelRecovery |-> TRUE, upgrading |-> TRUE, labels |-> "old"]}
=============================================================================
