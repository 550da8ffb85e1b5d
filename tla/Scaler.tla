------------------------------- MODULE Scaler -------------------------------
(***************************************************************************)
(* The scaler of the operator (pkg/reconcilers/scaler.go): it brings the   *)
(* replicas of each node pool's StatefulSet to the number the user asked   *)
(* for, one node at a time.  With SmartScaler a node is first excluded     *)
(* from shard allocation, then watched until it is empty (drained), then   *)
(* removed, and at last taken off the exclude list.  The four stages are   *)
(* spread over several reconcile passes; what connects them is the list    *)
(* Status.ComponentsStatus and the exclude list of the OpenSearch cluster. *)
(*                                                                         *)
(* One process, the reconcile worker of the cluster, runs passes.  A step  *)
(* of the model ends with one call that changes state outside of the       *)
(* process.  Any call may fail (with or without having had its effect) and *)
(* the process may crash between any two, which loses its local variables. *)
(* Around it run the user, the StatefulSet controller, the pods and the    *)
(* shard allocation of OpenSearch.                                         *)
(***************************************************************************)
EXTENDS Integers, Sequences, FiniteSets, ComponentStatus, ExcludeList

CONSTANTS
    NodePools,          \* Spec.NodePools as created: a sequence of distinct pool names
    MinReplicas,        \* the replicas a user asks for are at least this many
    MaxReplicas,        \* ... and at most this many
    InitialReplicas,    \* the replicas of the pools a cluster is created with, of several clusters
    RemovablePools,     \* the pools a user may take out of Spec.NodePools
    EditWhileScaling,   \* may the user edit a pool before its last scaling is complete?
    MaxEdits,           \* bound on the edits of the resource
    MaxFaults,          \* bound on failed calls, conflicts, crashes and pod failures
    NoNode              \* the empty Conditions of an entry

VARIABLES
    \* Kubernetes
    listed,     \* the pools in Spec.NodePools
    replicas,   \* pool -> replicas in Spec.NodePools
    smart,      \* Spec.ConfMgmt.SmartScaler, as the cluster was created with
    status,     \* Status.ComponentsStatus, restricted to the entries of the scaler
    present,    \* the pools that have a StatefulSet
    sts,        \* pool -> spec.replicas of its StatefulSet
    pods,       \* node -> "absent", "starting", "ready" or "terminating"
    updated,    \* the pods at the update revision of their StatefulSet
    \* OpenSearch
    excluded,   \* cluster.routing.allocation.exclude._name
    shards,     \* the nodes that hold a shard
    \* the reconcile worker
    pc,         \* what it does next
    inst,       \* r.instance: the resource as read at the start of the pass
    todo,       \* the positions in NodePools left to visit in this pass
    cur,        \* currentStatus of the pool being visited
    \* bounds
    edits, faults

kube == <<listed, replicas, smart, present, sts, pods, updated>>
worker == <<pc, inst, todo, cur>>
vars == <<listed, replicas, smart, status, present, sts, pods, updated, excluded, shards,
          pc, inst, todo, cur, edits, faults>>

Pool == {NodePools[i] : i \in 1..Len(NodePools)}
Node == Pool \X (0..(MaxReplicas - 1))

\* Names on the exclude list: those of nodes, and "<sts>--1", the last replica of a
\* StatefulSet without replicas.
Name == Pool \X (-1..(MaxReplicas - 1))

ASSUME ScalerAssumption ==
    /\ NodePools \in Seq(Pool) /\ Len(NodePools) > 0
    /\ \A i, j \in 1..Len(NodePools) : NodePools[i] = NodePools[j] => i = j
    /\ MinReplicas \in Nat /\ MaxReplicas \in Nat \ {0} /\ MinReplicas <= MaxReplicas
    /\ RemovablePools \subseteq Pool
    /\ InitialReplicas \subseteq [Pool -> MinReplicas..MaxReplicas]
    /\ EditWhileScaling \in BOOLEAN
    /\ MaxEdits \in Nat /\ MaxFaults \in Nat
    /\ NoNode \notin Name

Entry(pool, st, node) ==
    [component |-> "Scaler", status |-> st, description |-> pool, conditions |-> node]

\* From exclusion on, an entry names the node that is to be removed.
Entries ==
    {Entry(p, st, NoNode) : p \in Pool, st \in {"Running", "Waiting"}}
    \cup {Entry(p, st, <<p, o>>) :
             p \in Pool, o \in 0..(MaxReplicas - 1), st \in {"Excluded", "Drained"}}

\* ReplicaHostName(sts, ordinal)
ReplicaHostName(p, ord) == <<p, ord>>
LastReplica(p) == ReplicaHostName(p, sts[p] - 1)

\* A pod the StatefulSet controller has to remove.
Condemned(n) == n[2] >= sts[n[1]]

\* CountRunningPodsForNodePool: ready and not being deleted.
ReadyReplicas(p) == Cardinality({n \in Node : n[1] = p /\ pods[n] = "ready"})

\* The nodes that are members of the OpenSearch cluster.
Members == {n \in Node : pods[n] \in {"ready", "terminating"}}

TypeOK ==
    /\ listed \subseteq Pool /\ present \subseteq Pool
    /\ replicas \in [Pool -> 0..MaxReplicas] /\ smart \in BOOLEAN
    /\ sts \in [Pool -> 0..MaxReplicas]
    /\ status \in Seq(Entries)
    /\ pods \in [Node -> {"absent", "starting", "ready", "terminating"}]
    /\ updated \subseteq Node /\ excluded \subseteq Name /\ shards \subseteq Node
    /\ pc \in {"idle", "clean", "pool", "exclude", "setExcluded", "setDrained", "increase",
               "decrease", "dropStatus", "include", "cleanup", "removeSts", "removeCheck",
               "removeShrink", "removeInclude"}
    /\ inst \in [listed : SUBSET Pool, replicas : [Pool -> 0..MaxReplicas], status : Seq(Entries)]
    /\ todo \subseteq 1..Len(NodePools)
    /\ cur \in Entries
    /\ edits \in 0..MaxEdits /\ faults \in 0..MaxFaults
-----------------------------------------------------------------------------
NoEntry == Entry(NodePools[1], "Running", NoNode)
NoInstance == [listed |-> {}, replicas |-> [p \in Pool |-> 0], status |-> <<>>]

\* A running cluster: every pool has the replicas it asks for, and no scaling is in progress.
Init ==
    /\ listed = Pool /\ present = Pool /\ smart \in BOOLEAN
    /\ replicas \in InitialReplicas
    /\ sts = replicas
    /\ status = <<>>
    /\ pods = [n \in Node |-> IF n[2] < sts[n[1]] THEN "ready" ELSE "absent"]
    /\ updated = Node
    /\ excluded = {}
    /\ shards = {n \in Node : n[2] < sts[n[1]]}
    /\ pc = "idle"
    /\ inst = NoInstance
    /\ todo = {}
    /\ cur = NoEntry
    /\ edits = 0 /\ faults = 0

\* One of the MaxFaults things that go wrong.
Fault == faults < MaxFaults /\ faults' = faults + 1
NoFault == UNCHANGED faults

\* The pool the worker is at, and the positions after it.
CurrentPool == NodePools[First(todo)]
Rest == todo \ {First(todo)}

\* The worker is done with the current pool.
NextPool ==
    /\ todo' = Rest
    /\ pc' = IF Rest = {} THEN "cleanup" ELSE "pool"

\* The pass is over; the locals die with it.
EndPass == pc' = "idle" /\ todo' = {} /\ cur' = NoEntry /\ inst' = NoInstance
-----------------------------------------------------------------------------
ScalerHasExcludeOrDrainInProgress(list) ==
    \E i \in 1..Len(list) : list[i].status \in {"Excluded", "Drained"}

\* Mutant of StartPass: exclusions are cleaned although a drain is in progress.
StartPassAlwaysCleans ==
    /\ pc = "idle"
    /\ inst' = [listed |-> listed, replicas |-> replicas, status |-> status]
    /\ todo' = {i \in 1..Len(NodePools) : NodePools[i] \in listed}
    /\ pc' = IF smart THEN "clean" ELSE "pool"
    /\ UNCHANGED <<kube, status, excluded, shards, cur, edits, faults>>

\* Reconcile begins: the controller fetches the resource; stale exclusions are only cleaned
\* when no drain is recorded in it.
StartPass ==
    /\ pc = "idle"
    /\ inst' = [listed |-> listed, replicas |-> replicas, status |-> status]
    /\ todo' = {i \in 1..Len(NodePools) : NodePools[i] \in listed}
    /\ pc' = IF smart /\ ~ScalerHasExcludeOrDrainInProgress(status) THEN "clean" ELSE "pool"
    /\ UNCHANGED <<kube, status, excluded, shards, cur, edits, faults>>

\* isPodStale: the pod is gone, belongs to no current pool, or is at the update revision.
IsPodStale(n) ==
    \/ n \notin Node \/ pods[n] = "absent"
    \/ n[1] \notin inst.listed \/ Condemned(n)
    \/ n \in updated

\* CleanStaleExclusionList removes the stale names one by one.
CleanStaleExclusionList ==
    /\ pc = "clean" /\ NoFault
    /\ excluded' = {n \in excluded : ~IsPodStale(n)}
    /\ pc' = "pool"
    /\ UNCHANGED <<kube, status, shards, inst, todo, cur, edits>>

\* A failed read or removal ends the pass; the names before it have been removed.
CleanStaleExclusionListFails ==
    /\ pc = "clean" /\ Fault
    /\ \E done \in SUBSET {n \in excluded : IsPodStale(n)} : excluded' = excluded \ done
    /\ EndPass
    /\ UNCHANGED <<kube, status, shards, edits>>

\* The client of the OpenSearch cluster cannot be created: cleaning is skipped.
CleanSkipped ==
    /\ pc = "clean" /\ Fault
    /\ pc' = "pool"
    /\ UNCHANGED <<kube, status, excluded, shards, inst, todo, cur, edits>>
-----------------------------------------------------------------------------
(* reconcileNodePool for the current pool. *)

CurrentStatus(p) == FindFirstPartial(inst.status, Entry(p, "Running", NoNode))
DesireReplicaDiff(p) == sts[p] - inst.replicas[p]

\* A call had its effect; its answer arrives and the worker goes on, or it is lost and the
\* worker gives up on this pool.
GoesOn(next) ==
    \/ NoFault /\ pc' = next /\ UNCHANGED todo
    \/ Fault /\ NextPool

\* The answer no longer matters: the worker is done with the pool either way.
Done == NoFault /\ NextPool

\* A call of reconcileNodePool fails without effect.
PoolFails ==
    /\ pc \in {"pool", "exclude", "setExcluded", "setDrained", "increase", "decrease",
              "dropStatus", "include"}
    /\ Fault /\ NextPool
    /\ UNCHANGED <<kube, status, excluded, shards, inst, cur, edits>>

\* Mutant of Settled: the entry is replaced although all replicas are ready.
SettledKeepsEntry(p, list) ==
    LET e == CurrentStatus(p).entry
        waiting == Entry(p, "Waiting", NoNode)
    IN  [new |-> Replace(e, waiting, list), slice |-> SliceAfterReplace(e, waiting, list)]

\* The pool has the replicas it asks for.  The closure passed to UpdateOpenSearchClusterStatus
\* computes the new list from r.instance, not from the resource it was handed, and shifts
\* r.instance's slice in place.
Settled(p, list) ==
    LET e == CurrentStatus(p).entry
        waiting == Entry(p, "Waiting", NoNode)
    IN  IF ReadyReplicas(p) # inst.replicas[p]
        THEN [new |-> Replace(e, waiting, list), slice |-> SliceAfterReplace(e, waiting, list)]
        ELSE [new |-> RemoveIt(e, list), slice |-> SliceAfterRemoveIt(e, list)]

AtDesiredReplicas(p) ==
    pc = "pool" /\ p = CurrentPool /\ DesireReplicaDiff(p) = 0

NothingToScale(p) ==
    /\ AtDesiredReplicas(p) /\ ~CurrentStatus(p).found
    /\ Done
    /\ UNCHANGED <<kube, status, excluded, shards, inst, cur, edits>>

SettlePool(p) ==
    /\ AtDesiredReplicas(p) /\ CurrentStatus(p).found
    /\ status' = Settled(p, inst.status).new
    /\ inst' = [inst EXCEPT !.status = Settled(p, inst.status).slice]
    /\ Done
    /\ UNCHANGED <<kube, excluded, shards, cur, edits>>

\* The update is rejected (status unchanged), or it conflicts and RetryOnConflict runs the
\* closure a second time, on the slice the first run left.
SettlePoolFaulty(p) ==
    /\ AtDesiredReplicas(p) /\ CurrentStatus(p).found
    /\ Fault /\ NextPool
    /\ LET first == Settled(p, inst.status).slice
       IN  \/ inst' = [inst EXCEPT !.status = first] /\ UNCHANGED status
          \/ /\ status' = Settled(p, first).new
             /\ inst' = [inst EXCEPT !.status = Settled(p, first).slice]
    /\ UNCHANGED <<kube, excluded, shards, cur, edits>>

\* A scaling operation starts, or goes on with its next node.
StartScaling(p) ==
    /\ pc = "pool" /\ p = CurrentPool /\ DesireReplicaDiff(p) # 0
    /\ LET c == CurrentStatus(p)
       IN  /\ ~c.found \/ c.entry.status \in {"Running", "Waiting"}
           /\ status' = Replace(c.entry, Entry(p, "Running", NoNode), status)
           /\ cur' = c.entry
    /\ GoesOn(IF DesireReplicaDiff(p) < 0 THEN "increase"
              ELSE IF smart THEN "exclude" ELSE "decrease")
    /\ UNCHANGED <<kube, excluded, shards, inst, edits>>

IncreaseOneNode(p) ==
    /\ pc = "increase" /\ p = CurrentPool
    /\ sts' = [sts EXCEPT ![p] = @ + 1]
    /\ Done
    /\ UNCHANGED <<listed, replicas, smart, present, pods, updated, status, excluded, shards, inst, cur, edits>>

\* excludeNode: AppendExcludeNodeHost, then the status.
ExcludeNode(p) ==
    /\ pc = "exclude" /\ p = CurrentPool
    /\ excluded' = AppendExcludeNodeHost(excluded, LastReplica(p))
    /\ GoesOn("setExcluded")
    /\ UNCHANGED <<kube, status, shards, inst, cur, edits>>

\* Mutant of SetExcluded: the ordinal is off by one.
SetExcludedOffByOne(p) ==
    /\ pc = "setExcluded" /\ p = CurrentPool
    /\ status' = Replace(cur, Entry(p, "Excluded", ReplicaHostName(p, sts[p])), status)
    /\ Done
    /\ UNCHANGED <<kube, excluded, shards, inst, cur, edits>>

SetExcluded(p) ==
    /\ pc = "setExcluded" /\ p = CurrentPool
    /\ status' = Replace(cur, Entry(p, "Excluded", LastReplica(p)), status)
    /\ Done
    /\ UNCHANGED <<kube, excluded, shards, inst, cur, edits>>

\* The stages after exclusion act on the entry they find, whatever the sign of the difference.
InStage(p, stage) ==
    /\ pc = "pool" /\ p = CurrentPool /\ DesireReplicaDiff(p) # 0
    /\ CurrentStatus(p).found /\ CurrentStatus(p).entry.status = stage

\* The node recorded in the entry is still the one that would be removed.
TargetIsLast(p) == CurrentStatus(p).entry.conditions \in {LastReplica(p), NoNode}

\* drainNode and decreaseOneNode: the recorded node is no longer the last one; start over.
ResetToRunning(p) ==
    /\ InStage(p, "Excluded") \/ InStage(p, "Drained")
    /\ ~TargetIsLast(p)
    /\ status' = Replace(CurrentStatus(p).entry, Entry(p, "Running", NoNode), status)
    /\ Done
    /\ UNCHANGED <<kube, excluded, shards, inst, cur, edits>>

\* A shard that is leaving the node is still listed under its name.
HasShardsOnNode(n) == n \in shards

\* drainNode asks for the shards of the node.  The error of HasShardsOnNode, which comes with
\* the answer FALSE, is dropped.
WatchDrain(p) ==
    /\ InStage(p, "Excluded") /\ TargetIsLast(p)
    /\ cur' = CurrentStatus(p).entry
    /\ \/ HasShardsOnNode(LastReplica(p)) /\ Done
       \/ ~HasShardsOnNode(LastReplica(p)) /\ NoFault /\ pc' = "setDrained" /\ UNCHANGED todo
       \/ Fault /\ pc' = "setDrained" /\ UNCHANGED todo
    /\ UNCHANGED <<kube, status, excluded, shards, inst, edits>>

SetDrained(p) ==
    /\ pc = "setDrained" /\ p = CurrentPool
    /\ status' = Replace(cur, Entry(p, "Drained", LastReplica(p)), status)
    /\ Done
    /\ UNCHANGED <<kube, excluded, shards, inst, cur, edits>>

\* decreaseOneNode: the StatefulSet, then the status, then the exclude list.
DecreaseOneNode(p) ==
    /\ \/ InStage(p, "Drained") /\ TargetIsLast(p) /\ cur' = CurrentStatus(p).entry
       \/ pc = "decrease" /\ p = CurrentPool /\ UNCHANGED cur
    /\ sts' = [sts EXCEPT ![p] = @ - 1]
    /\ GoesOn("dropStatus")
    /\ UNCHANGED <<listed, replicas, smart, present, pods, updated, status, excluded, shards, inst, edits>>

DropStatus(p) ==
    /\ pc = "dropStatus" /\ p = CurrentPool
    /\ status' = RemoveIt(cur, status)
    /\ IF smart THEN GoesOn("include") ELSE Done
    /\ UNCHANGED <<kube, excluded, shards, inst, cur, edits>>

\* RemoveExcludeNodeHost for the node just removed from the StatefulSet.
IncludeNode(p) ==
    /\ pc = "include" /\ p = CurrentPool
    /\ excluded' = RemoveExcludeNodeHost(excluded, ReplicaHostName(p, sts[p]))
    /\ Done
    /\ UNCHANGED <<kube, status, shards, inst, cur, edits>>
-----------------------------------------------------------------------------
(* cleanupStatefulSets and removeStatefulSet: the pools that were taken out of the resource. *)

\* Status.AvailableReplicas: a pod counts until it is gone.
AvailableReplicas(p) == Cardinality({n \in Members : n[1] = p})
NodePoolsReady == \A p \in inst.listed : AvailableReplicas(p) = sts[p]

CleanupStatefulSets ==
    /\ pc = "cleanup"
    /\ LET obsolete == {i \in 1..Len(NodePools) : NodePools[i] \in present \ inst.listed}
       IN  IF NodePoolsReady /\ obsolete # {}
           THEN pc' = "removeSts" /\ todo' = obsolete /\ UNCHANGED <<cur, inst>>
           ELSE EndPass
    /\ NoFault
    /\ UNCHANGED <<kube, status, excluded, shards, edits>>

NextObsolete == IF Rest = {} THEN EndPass
                ELSE pc' = "removeSts" /\ todo' = Rest /\ UNCHANGED <<cur, inst>>

\* The effect took place; a lost answer ends the work on this StatefulSet.
RemovalGoesOn(next) ==
    \/ NoFault /\ pc' = next /\ UNCHANGED <<todo, cur, inst>>
    \/ Fault /\ NextObsolete

RemovalFails ==
    /\ pc \in {"removeSts", "removeCheck", "removeShrink", "removeInclude"}
    /\ Fault /\ NextObsolete
    /\ UNCHANGED <<kube, status, excluded, shards, edits>>

RemoveUndrained(p) ==
    /\ pc = "removeSts" /\ p = CurrentPool /\ ~smart
    /\ present' = present \ {p} /\ sts' = [sts EXCEPT ![p] = 0]
    /\ NoFault /\ NextObsolete
    /\ UNCHANGED <<listed, replicas, smart, pods, updated, status, excluded, shards, edits>>

\* Mutant of RemovalExclude: the shards are counted without excluding the node first.
RemovalWithoutExclude(p) ==
    /\ pc = "removeSts" /\ p = CurrentPool /\ smart
    /\ RemovalGoesOn("removeCheck")
    /\ UNCHANGED <<kube, status, excluded, shards, edits>>

RemovalExclude(p) ==
    /\ pc = "removeSts" /\ p = CurrentPool /\ smart
    /\ excluded' = AppendExcludeNodeHost(excluded, LastReplica(p))
    /\ RemovalGoesOn("removeCheck")
    /\ UNCHANGED <<kube, status, shards, edits>>

RemovalCheck(p) ==
    /\ pc = "removeCheck" /\ p = CurrentPool
    /\ IF HasShardsOnNode(LastReplica(p)) THEN NextObsolete
       ELSE pc' = "removeShrink" /\ UNCHANGED <<todo, cur, inst>>
    /\ NoFault
    /\ UNCHANGED <<kube, status, excluded, shards, edits>>

\* The last node goes with its StatefulSet.
RemovalShrink(p) ==
    /\ pc = "removeShrink" /\ p = CurrentPool /\ sts[p] > 0
    /\ sts' = [sts EXCEPT ![p] = @ - 1]
    /\ present' = IF sts[p] = 1 THEN present \ {p} ELSE present
    /\ RemovalGoesOn("removeInclude")
    /\ UNCHANGED <<listed, replicas, smart, pods, updated, status, excluded, shards, edits>>

\* A StatefulSet without replicas would get -1 of them, which the API server rejects.
RemovalRejected(p) ==
    /\ pc = "removeShrink" /\ p = CurrentPool /\ sts[p] = 0
    /\ NoFault /\ NextObsolete
    /\ UNCHANGED <<kube, status, excluded, shards, edits>>

RemovalInclude(p) ==
    /\ pc = "removeInclude" /\ p = CurrentPool
    /\ excluded' = RemoveExcludeNodeHost(excluded, ReplicaHostName(p, sts[p]))
    /\ NoFault /\ NextObsolete
    /\ UNCHANGED <<kube, status, shards, edits>>

\* The operator's process dies between two calls.
Crash ==
    /\ pc # "idle" /\ Fault /\ EndPass
    /\ UNCHANGED <<kube, status, excluded, shards, edits>>
-----------------------------------------------------------------------------
(* The user. *)

Edit == edits < MaxEdits /\ edits' = edits + 1

\* Unless edits overlap, the pool's previous scaling has been completed.
MayEdit(p) ==
    /\ p \in listed
    /\ \/ EditWhileScaling
       \/ sts[p] = replicas[p] /\ \A i \in 1..Len(status) : status[i].description # p

UserScales(p) ==
    /\ MayEdit(p) /\ Edit
    /\ \E r \in (MinReplicas..MaxReplicas) \ {replicas[p]} : replicas' = [replicas EXCEPT ![p] = r]
    /\ UNCHANGED <<listed, smart, present, sts, pods, updated, status, excluded, shards, worker, faults>>

UserRemovesPool(p) ==
    /\ p \in RemovablePools /\ listed # {p} /\ MayEdit(p) /\ Edit
    /\ listed' = listed \ {p}
    /\ UNCHANGED <<replicas, smart, present, sts, pods, updated, status, excluded, shards, worker, faults>>

\* A configuration change gives the StatefulSets a new update revision.
UserChangesConfig ==
    /\ Edit
    /\ updated' = {}
    /\ UNCHANGED <<listed, replicas, smart, present, sts, pods, status, excluded, shards, worker, faults>>
-----------------------------------------------------------------------------
(* The StatefulSet controller (OrderedReady, OnDelete), the pods, and shard allocation. *)

Elsewhere == <<listed, replicas, smart, present, sts, status, worker, edits>>

CreatePod(n) ==
    /\ pods[n] = "absent" /\ ~Condemned(n)
    /\ \A i \in 0..(n[2] - 1) : pods[<<n[1], i>>] = "ready"
    /\ pods' = [pods EXCEPT ![n] = "starting"]
    /\ updated' = updated \cup {n}
    /\ UNCHANGED <<Elsewhere, excluded, shards, faults>>

PodBecomesReady(n) ==
    /\ pods[n] = "starting"
    /\ pods' = [pods EXCEPT ![n] = "ready"]
    /\ UNCHANGED <<Elsewhere, updated, excluded, shards, faults>>

\* Pods are removed from the highest ordinal down, one at a time.
TerminatePod(n) ==
    /\ pods[n] \in {"starting", "ready"} /\ Condemned(n)
    /\ \A m \in Node : m[1] = n[1] /\ m[2] > n[2] => pods[m] = "absent"
    /\ pods' = [pods EXCEPT ![n] = "terminating"]
    /\ UNCHANGED <<Elsewhere, updated, excluded, shards, faults>>

\* What the node still held is gone from the cluster.
PodGone(n) ==
    /\ pods[n] = "terminating"
    /\ pods' = [pods EXCEPT ![n] = "absent"]
    /\ shards' = shards \ {n}
    /\ UNCHANGED <<Elsewhere, updated, excluded, faults>>

PodFails(n) ==
    /\ pods[n] = "ready" /\ Fault
    /\ pods' = [pods EXCEPT ![n] = "starting"]
    /\ UNCHANGED <<Elsewhere, updated, excluded, shards>>

\* The restart or upgrade procedures replace a pod of an older revision; its volume stays.
RestartPod(n) ==
    /\ pods[n] = "ready" /\ n \notin updated /\ ~Condemned(n)
    /\ pods' = [pods EXCEPT ![n] = "starting"]
    /\ updated' = updated \cup {n}
    /\ UNCHANGED <<Elsewhere, excluded, shards, faults>>

\* Shards leave an excluded node for one that is not.
MoveShards(n) ==
    /\ n \in Members \cap excluded \cap shards
    /\ \E m \in Members \ excluded : shards' = (shards \ {n}) \cup {m}
    /\ UNCHANGED <<Elsewhere, pods, updated, excluded, faults>>

\* A new or rebalanced shard goes to a node that is not excluded.
AllocateShard(n) ==
    /\ n \in Members \ (excluded \cup shards)
    /\ shards' = shards \cup {n}
    /\ UNCHANGED <<Elsewhere, pods, updated, excluded, faults>>
-----------------------------------------------------------------------------
ReconcileNodePool(p) ==
    \/ NothingToScale(p) \/ SettlePool(p) \/ SettlePoolFaulty(p)
    \/ StartScaling(p) \/ IncreaseOneNode(p)
    \/ ExcludeNode(p) \/ SetExcluded(p)
    \/ ResetToRunning(p) \/ WatchDrain(p) \/ SetDrained(p)
    \/ DecreaseOneNode(p) \/ DropStatus(p) \/ IncludeNode(p)

RemoveStatefulSet(p) ==
    \/ RemoveUndrained(p) \/ RemovalExclude(p) \/ RemovalCheck(p)
    \/ RemovalShrink(p) \/ RemovalRejected(p) \/ RemovalInclude(p)

Work ==
    \/ StartPass
    \/ CleanStaleExclusionList \/ CleanStaleExclusionListFails \/ CleanSkipped
    \/ PoolFails \/ CleanupStatefulSets \/ RemovalFails
    \/ \E p \in Pool : ReconcileNodePool(p) \/ RemoveStatefulSet(p)

User ==
    \/ UserChangesConfig
    \/ \E p \in Pool : UserScales(p) \/ UserRemovesPool(p)

Cluster ==
    \E n \in Node :
        \/ CreatePod(n) \/ PodBecomesReady(n) \/ TerminatePod(n) \/ PodGone(n)
        \/ PodFails(n) \/ RestartPod(n) \/ MoveShards(n) \/ AllocateShard(n)

Next == Work \/ Crash \/ User \/ Cluster

Spec == Init /\ [][Next]_vars

\* Reconcile passes are requeued without end, and the cluster goes on working.
Fairness ==
    /\ WF_vars(Work)
    /\ \A n \in Node :
        /\ WF_vars(CreatePod(n)) /\ WF_vars(PodBecomesReady(n))
        /\ WF_vars(TerminatePod(n)) /\ WF_vars(PodGone(n))
        /\ WF_vars(RestartPod(n)) /\ WF_vars(MoveShards(n))

FairSpec == Spec /\ Fairness
-----------------------------------------------------------------------------
\* With SmartScaler, a node is taken out of its StatefulSet only when no shard is left on it
\* (docs/userguide/main.md:391, "the safe drain process ensures that all of its data is
\* transferred to other nodes in the cluster before the node is taken offline").  The code does
\* not keep this: drainNode takes a failed GET _cat/shards for an empty node.
RemovesOnlyEmptyNodes ==
    [][\A p \in Pool :
         smart /\ sts'[p] < sts[p] => ReplicaHostName(p, sts'[p]) \notin shards]_vars

\* It is kept for the pools that were taken out of the resource (removeStatefulSet), which the
\* worker drains without recording anything: the check and the removal are in one pass, and an
\* error of the check ends it.
ObsoletePoolsAreDrained ==
    [][\A p \in Pool \ inst.listed :
         smart /\ sts'[p] < sts[p] => ReplicaHostName(p, sts'[p]) \notin shards]_vars

\* A node whose drain is recorded and that is still the last of its pool is on the exclude
\* list, so that it does not receive shards again before it is removed.
DrainingNodeIsExcluded ==
    smart => \A i \in 1..Len(status) :
        LET e == status[i] IN
        e.status \in {"Excluded", "Drained"} /\ e.conditions = LastReplica(e.description)
            => e.conditions \in excluded

\* When edits and faults have ceased, every pool of the resource gets the replicas asked for and
\* all of them ready, and the procedure leaves nothing behind: no entry, and no exclusion of a
\* node of these pools.  A resource that asks for no node at all leaves the shards nowhere to go.
ScalingSettles ==
    <>[](\/ \A p \in listed : replicas[p] = 0
         \/ /\ \A p \in listed : sts[p] = replicas[p] /\ ReadyReplicas(p) = replicas[p]
            /\ status = <<>> /\ \A n \in excluded : n[1] \notin listed)
-----------------------------------------------------------------------------
PoolSteps == {"clean", "pool", "exclude", "setExcluded", "setDrained", "increase", "decrease",
              "dropStatus", "include"}
RemovalSteps == {"removeSts", "removeCheck", "removeShrink", "removeInclude"}

\* The inductive invariant behind TypeOK and ObsoletePoolsAreDrained: where the worker is says
\* which pools it still has to visit, what it knows about the replicas of the current one and,
\* while it removes an obsolete StatefulSet, that the last node stays excluded and empty.
IInv ==
    /\ TypeOK
    /\ listed # {}
    /\ pc \in PoolSteps => todo # {} /\ \A i \in todo : NodePools[i] \in inst.listed
    /\ pc \in RemovalSteps => todo # {} /\ \A i \in todo : NodePools[i] \notin inst.listed
    /\ pc = "increase" => sts[CurrentPool] < inst.replicas[CurrentPool]
    /\ pc \in {"exclude", "setExcluded", "setDrained", "decrease"} => sts[CurrentPool] > 0
    /\ pc \in {"removeCheck", "removeShrink"} => LastReplica(CurrentPool) \in excluded
    /\ pc = "removeShrink" => LastReplica(CurrentPool) \notin shards

\* The inductive invariant behind DrainingNodeIsExcluded, for a user who does not edit a pool before
\* its last scaling is complete.  The list of a pass (inst.status) may be older than the resource,
\* repeat entries, and be written back for the sake of another pool.
Elems(list) == {list[i] : i \in 1..Len(list)}
EntriesOf(p, list) == {e \in Elems(list) : e.description = p}
Draining == {"Excluded", "Drained"}
NoDrain(p, list) == \A e \in EntriesOf(p, list) : e.status \notin Draining

\* An entry of a drain is out of date, and will be reset, or it speaks the truth.
OutOfDate(e) == e.conditions[2] >= sts[e.description]
UpToDate(e) ==
    LET p == e.description IN
    /\ e.conditions = LastReplica(p) /\ sts[p] > replicas[p] /\ LastReplica(p) \in excluded
EntryInv == \A e \in Elems(status) \cup Elems(inst.status) :
               e.status \in Draining => OutOfDate(e) \/ UpToDate(e)

\* The entries of drains that are out of date are found, and reset, before any other.
DrainsLead(p, list) ==
    \A i, j \in 1..Len(list) :
        i < j /\ list[i].description = p /\ list[j].description = p /\ list[j].status \in Draining
            => list[i].status \in Draining
Ordered(p) ==
    /\ p \notin listed \/ sts[p] < replicas[p] => DrainsLead(p, status) /\ DrainsLead(p, inst.status)
    /\ EntriesOf(p, status) = {} => DrainsLead(p, inst.status)
    /\ p \notin listed => sts[p] <= replicas[p]
OrderInv == \A p \in Pool : Ordered(p)

\* What the pass knows about a pool it has not visited yet, and about the one it is at.
Unvisited(p) == p # CurrentPool \/ pc \in {"clean", "pool", "dropStatus"}
Known(p) ==
    \/ p \in listed /\ inst.replicas[p] = replicas[p]
    \/ EntriesOf(p, status) = {} /\ inst.replicas[p] = sts[p]
VisitInv == pc \in PoolSteps => \A i \in todo :
    LET p == NodePools[i]
    IN  Known(p) /\ (Unvisited(p) => EntriesOf(p, status) = EntriesOf(p, inst.status))
StageInv ==
    LET p == CurrentPool IN
    /\ pc = "clean" => \A e \in Elems(status) \cup Elems(inst.status) : e.status \notin Draining
    /\ pc \in {"exclude", "setExcluded", "setDrained", "dropStatus"} => cur.description = p
    /\ pc = "increase" => NoDrain(p, status) /\ NoDrain(p, inst.status)
    /\ pc \in {"exclude", "setExcluded", "setDrained"} => sts[p] > replicas[p]
    /\ pc \in {"setExcluded", "setDrained"} => LastReplica(p) \in excluded
    /\ pc # "decrease"

SmartInv == EntryInv /\ OrderInv /\ VisitInv /\ StageInv
DrainInv ==
    /\ pc # "idle" => listed \subseteq inst.listed
    /\ smart => SmartInv
=============================================================================
