------------------------- MODULE MCEmptyDirRecovery -------------------------
(* Small clusters of emptyDir pools for the model checker. *)
EXTENDS EmptyDirRecovery, TLC

CONSTANTS m, d

MastersAndData == <<m, d>>
ThreeMastersOneData == (m :> 3) @@ (d :> 1)

\* What a failure of the machines takes away at once.
OneMasterOrMore == {{<<m, 0>>}, {<<m, 0>>, <<m, 1>>}, MasterNode, DataNode, Node}
=============================================================================
