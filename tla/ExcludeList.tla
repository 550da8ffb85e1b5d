----------------------------- MODULE ExcludeList -----------------------------
(***************************************************************************)
(* cluster.routing.allocation.exclude._name, the transient setting with    *)
(* the nodes that receive no shards and lose those they have, and the      *)
(* operations of opensearch-gateway/services/os_data_service.go on it.     *)
(* The setting is one string, names joined by commas; a node's name has    *)
(* neither commas nor blanks, so splitting, trimming and joining keep the  *)
(* set of names, and an empty set is written as null.  Only the reconcile  *)
(* worker of the cluster writes it, so that reading and writing back are   *)
(* one step.                                                               *)
(***************************************************************************)

\* GET the setting, add the name unless it is there, PUT.
AppendExcludeNodeHost(names, nodeNameToExclude) == names \cup {nodeNameToExclude}

\* GET the setting, filter out the name, PUT; nothing is written when the setting is empty.
RemoveExcludeNodeHost(names, nodeNameToExclude) == names \ {nodeNameToExclude}
=============================================================================
