--------------------------- MODULE RollingRestart ---------------------------
(***************************************************************************)
(* The rolling restart of the operator (pkg/reconcilers/rollingRestart.go  *)
(* and opensearch-gateway/services/os_data_service.go).  The StatefulSets  *)
(* use the OnDelete strategy: after a change of their template the         *)
(* operator itself deletes the pods of the old revision, one per pass.     *)
(* Before it deletes a pod it either restricts shard allocation to         *)
(* primaries or, with DrainDataNodes, excludes the node from allocation    *)
(* and waits until it is empty.  What connects the passes is the status    *)
(* entry "RollingRestart" and the transient settings of the cluster.       *)
(*                                                                         *)
(* One worker runs the passes; a step ends with one call that changes      *)
(* state outside of it.  Calls fail, with or without effect, and the       *)
(* process crashes; around it run the user, the StatefulSet controller,    *)
(* the pods and the shard allocation of OpenSearch.                        *)
(***************************************************************************)
EXTENDS Integers, Sequences, FiniteSets, ComponentStatus, ExcludeList

CONSTANTS
    NodePools,       \* Spec.NodePools: a sequence of distinct pool names
    NameRank,        \* pool -> the place of its StatefulSet's name in string order
    Replicas,        \* pool -> replicas
    MasterPools,     \* the pools with the role master or cluster_manager
    DataPools,       \* the pools with the role data
    MaxEdits,        \* bound on changes of a pool's template
    MaxFaults,       \* bound on failed calls, crashes and pod failures
    NoPod            \* no candidate

VARIABLES
    \* Kubernetes
    conf,        \* how the cluster is set up, see Conf
    initialized, \* Status.Initialized
    status,      \* the status entry of the component "RollingRestart"
    pods,        \* node -> "absent", "starting", "ready" or "terminating"
    old,         \* the pods whose revision is not the update revision
    seen,        \* pool -> what the status of its StatefulSet reports: are all replicas
                 \* updated, are all of them ready
    current,     \* the pools whose CurrentRevision is the UpdateRevision
    \* OpenSearch
    allocation,  \* transient cluster.routing.allocation.enable
    excluded,    \* cluster.routing.allocation.exclude._name
    data,        \* node -> its shards: "holds" some, they are "moving" off, it is "empty",
                 \* or copies that were on it are "missing"
    system,      \* the node with the primaries of the system indices
    \* the reconcile worker
    pc, inst, todo, pendingUpdate, cand,
    \* bounds
    edits, faults

cluster == <<allocation, excluded, data, system>>
kube == <<conf, initialized, pods, old, seen, current>>
worker == <<pc, inst, todo, pendingUpdate, cand>>
vars == <<conf, initialized, status, pods, old, seen, current, allocation, excluded, data, system,
          pc, inst, todo, pendingUpdate, cand, edits, faults>>

Pool == {NodePools[i] : i \in 1..Len(NodePools)}
NodesOf(p) == {p} \X (0..(Replicas[p] - 1))
Node == UNION {NodesOf(p) : p \in Pool}
DataNode == UNION {NodesOf(p) : p \in DataPools}
MasterNode == UNION {NodesOf(p) : p \in MasterPools}

ASSUME RestartAssumption ==
    /\ NodePools \in Seq(Pool) /\ Len(NodePools) > 0
    /\ \A i, j \in 1..Len(NodePools) : NodePools[i] = NodePools[j] => i = j
    /\ NameRank \in [Pool -> Nat] /\ Replicas \in [Pool -> Nat]
    /\ \A p, q \in Pool : NameRank[p] = NameRank[q] => p = q
    /\ MasterPools \subseteq Pool /\ DataPools \subseteq Pool /\ DataNode # {}
    /\ MaxEdits \in Nat /\ MaxFaults \in Nat
    /\ NoPod \notin Node

\* Spec.General.DrainDataNodes, and whether pods fail on their own.
Conf == [drainDataNodes : BOOLEAN, podsMayFail : BOOLEAN]
DrainDataNodes == conf.drainDataNodes
PodsMayFail == conf.podsMayFail

PodStates == {"absent", "starting", "ready", "terminating"}
Steps == {"idle", "check", "reactivate", "finish", "begin", "clean", "select", "health", "prepare",
          "drained", "delete", "include"}

TypeOK ==
    /\ conf \in Conf /\ initialized \in BOOLEAN
    /\ status \in {"none", "InProgress", "Finished"}
    /\ pods \in [Node -> PodStates]
    /\ old \subseteq Node
    /\ seen \in [Pool -> [updated : BOOLEAN, ready : BOOLEAN]]
    /\ current \subseteq Pool
    /\ allocation \in {"unset", "all", "primaries"}
    /\ excluded \subseteq Node
    /\ data \in [Node -> {"holds", "moving", "empty", "missing"}]
    /\ system \in DataNode
    /\ pc \in Steps
    /\ inst \in {"none", "InProgress", "Finished"}
    /\ todo \subseteq 1..Len(NodePools)
    /\ pendingUpdate \in BOOLEAN
    /\ cand \in Node \cup {NoPod}
    /\ edits \in 0..MaxEdits /\ faults \in 0..MaxFaults
-----------------------------------------------------------------------------
Ready(p) == \A n \in NodesOf(p) : pods[n] = "ready"
Updated(p) == \A n \in NodesOf(p) : n \notin old /\ pods[n] \in {"starting", "ready"}

\* A running cluster, every pod at the current revision; it may not have been marked as
\* initialized yet.
Init ==
    /\ conf \in Conf /\ initialized \in BOOLEAN
    /\ status = "none"
    /\ pods = [n \in Node |-> "ready"]
    /\ old = {}
    /\ seen = [p \in Pool |-> [updated |-> TRUE, ready |-> TRUE]]
    /\ current = Pool
    /\ allocation = "unset"
    /\ excluded = {}
    /\ data = [n \in Node |-> IF n \in DataNode THEN "holds" ELSE "empty"]
    /\ system \in DataNode
    /\ pc = "idle" /\ inst = "none" /\ todo = {} /\ pendingUpdate = FALSE /\ cand = NoPod
    /\ edits = 0 /\ faults = 0

Fault == faults < MaxFaults /\ faults' = faults + 1
NoFault == UNCHANGED faults

\* The pass returns; its locals are gone.
EndPass == pc' = "idle" /\ inst' = "none" /\ todo' = {} /\ pendingUpdate' = FALSE /\ cand' = NoPod

Goto(next) == pc' = next /\ UNCHANGED <<inst, todo, pendingUpdate, cand>>

\* A call had its effect; its answer arrives, or it is lost and the pass returns the error.
Answered(next) == (NoFault /\ Goto(next)) \/ (Fault /\ EndPass)
-----------------------------------------------------------------------------
(* Reconcile *)

\* reconcilePhaseRunning marks the cluster as initialized once its masters are ready, then the
\* pass gets to the restart.
StartPass ==
    /\ pc = "idle"
    /\ initialized' = (initialized \/ \A p \in MasterPools : Ready(p))
    /\ pc' = "check" /\ inst' = status /\ todo' = 1..Len(NodePools)
    /\ UNCHANGED <<conf, pods, old, seen, current, cluster, status, pendingUpdate, cand, edits, faults>>

\* Mutant of Decide: a restart ends without ReactivateShardAllocation.
DecideWithoutReactivate(pending) ==
    IF pending
    THEN IF initialized THEN Goto("begin") ELSE EndPass
    ELSE IF inst = "InProgress" THEN Goto("finish") ELSE EndPass

\* After the last pool: finish a restart that is complete, or begin or continue one.
Decide(pending) ==
    IF pending
    THEN IF initialized THEN Goto("begin") ELSE EndPass
    ELSE IF inst = "InProgress" THEN Goto("reactivate") ELSE EndPass

CheckNext(pending) ==
    IF todo = {First(todo)} THEN Decide(pending)
    ELSE /\ pc' = "check" /\ todo' = todo \ {First(todo)} /\ pendingUpdate' = pending
         /\ UNCHANGED <<inst, cand>>

\* Mutant of CheckPendingPool: a pool with pending updates need not be ready.
CheckPendingPoolOnly(p) ==
    /\ pc = "check" /\ p = NodePools[First(todo)]
    /\ ~seen[p].updated
    /\ CheckNext(TRUE)
    /\ NoFault
    /\ UNCHANGED <<kube, cluster, status, edits>>

\* The pool at hand has updates pending: noted, and its pods are counted.
CheckPendingPool(p) ==
    /\ pc = "check" /\ p = NodePools[First(todo)]
    /\ ~seen[p].updated
    /\ IF Ready(p) THEN CheckNext(TRUE) ELSE EndPass
    /\ NoFault
    /\ UNCHANGED <<kube, cluster, status, edits>>

CheckUpdatedPool(p) ==
    /\ pc = "check" /\ p = NodePools[First(todo)]
    /\ seen[p].updated /\ p \in current
    /\ IF Ready(p) THEN CheckNext(pendingUpdate) ELSE EndPass
    /\ NoFault
    /\ UNCHANGED <<kube, cluster, status, edits>>

\* All replicas are updated and CurrentRevision is not: it is set.  UdateObjectStatus reads the
\* StatefulSet again, so the replicas it reports as ready count here, not the pods.
SetCurrentRevision(p) ==
    /\ pc = "check" /\ p = NodePools[First(todo)]
    /\ seen[p].updated /\ p \notin current
    /\ current' = current \cup {p}
    /\ \/ NoFault /\ IF seen[p].ready THEN CheckNext(pendingUpdate) ELSE EndPass
       \/ Fault /\ EndPass
    /\ UNCHANGED <<conf, initialized, pods, old, seen, cluster, status, edits>>

\* ReactivateShardAllocation
Reactivate ==
    /\ pc = "reactivate"
    /\ allocation' = "all"
    /\ Answered("finish")
    /\ UNCHANGED <<kube, status, excluded, data, system, edits>>

Finish ==
    /\ pc = "finish"
    /\ status' = "Finished"
    /\ NoFault /\ EndPass
    /\ UNCHANGED <<kube, cluster, edits>>

Begin ==
    /\ pc = "begin"
    /\ status' = "InProgress"
    /\ Answered(IF DrainDataNodes THEN "clean" ELSE "select")
    /\ UNCHANGED <<kube, cluster, edits>>
-----------------------------------------------------------------------------
(* globalCandidateRollingRestart *)

IsPodStale(n) == pods[n] = "absent" \/ n \notin old

CleanStaleExclusionList ==
    /\ pc = "clean"
    /\ \/ /\ excluded' = {n \in excluded : ~IsPodStale(n)}
          /\ NoFault /\ Goto("select")
       \/ /\ \E done \in SUBSET {n \in excluded : IsPodStale(n)} : excluded' = excluded \ done
          /\ Fault /\ EndPass
    /\ UNCHANGED <<kube, status, allocation, data, system, edits>>

\* GetPodWithOlderRevision looks at the pods from ordinal 0 up: the first one that it cannot
\* find is an error, the first one of another revision is the candidate of the pool.
Stops(p) == {o \in 0..(Replicas[p] - 1) : pods[<<p, o>>] = "absent" \/ <<p, o>> \in old}
WithUpdates == {p \in Pool : ~seen[p].updated /\ Stops(p) # {}}
Older(p) == <<p, First(Stops(p))>>
LookupFails == \E p \in WithUpdates : pods[Older(p)] = "absent"

\* sort.Slice: pools without master role first, then by the name of the StatefulSet.
Precedes(p, q) ==
    \/ p \notin MasterPools /\ q \in MasterPools
    \/ (p \in MasterPools <=> q \in MasterPools) /\ NameRank[p] < NameRank[q]
FirstPool == CHOOSE p \in WithUpdates : \A q \in WithUpdates \ {p} : Precedes(p, q)

\* countMasters, and the quorum that it is compared with.
TotalMasters == Cardinality(MasterNode)
ReadyMasters == Cardinality({n \in MasterNode : pods[n] = "ready"})

\* Mutant of MinRequired: the quorum is one too many.
MinRequiredPlusOne == (TotalMasters + 1) \div 2 + 1

MinRequired == (TotalMasters + 1) \div 2

\* The first candidate is a master only when all candidates are.
MasterQuorumUnsafe == FirstPool \in MasterPools /\ ReadyMasters <= MinRequired

SelectCandidate ==
    /\ pc = "select"
    /\ IF LookupFails \/ WithUpdates = {} \/ MasterQuorumUnsafe THEN EndPass
       ELSE pc' = "health" /\ cand' = Older(FirstPool) /\ UNCHANGED <<inst, todo, pendingUpdate>>
    /\ NoFault
    /\ UNCHANGED <<kube, cluster, status, edits>>
-----------------------------------------------------------------------------
(* restartSpecificPod *)

Green == \A n \in Node : data[n] # "missing"

\* Mutant of CheckHealth: the health of the cluster is not checked.
CheckNoHealth ==
    /\ pc = "health"
    /\ NoFault /\ Goto("prepare")
    /\ UNCHANGED <<kube, cluster, status, edits>>

\* CheckClusterStatusForRestart.  (Replicas that cannot be assigned because of a newer version,
\* the other state in which a restart may go on, exist during an upgrade only.)
CheckHealth ==
    /\ pc = "health"
    /\ \/ Green /\ NoFault /\ Goto("prepare") /\ UNCHANGED allocation
       \/ ~Green /\ (DrainDataNodes \/ allocation = "all") /\ NoFault /\ EndPass /\ UNCHANGED allocation
       \/ /\ ~Green /\ ~DrainDataNodes /\ allocation # "all"
          /\ allocation' = "all" /\ NoFault /\ EndPass
    /\ UNCHANGED <<kube, status, excluded, data, system, edits>>

\* PreparePodForDelete: exclude the node, or restrict allocation to primaries.
PreparePodForDelete ==
    /\ pc = "prepare"
    /\ IF DrainDataNodes
       THEN excluded' = AppendExcludeNodeHost(excluded, cand) /\ Answered("drained") /\ UNCHANGED allocation
       ELSE allocation' = "primaries" /\ Answered("delete") /\ UNCHANGED excluded
    /\ UNCHANGED <<kube, status, data, system, edits>>

\* With two data nodes only the primaries of system indices have to leave.  Otherwise no shard
\* may be listed under the name of the node; CheckPodSafeToDelete compares the whole column, and
\* a shard that is moving is listed as "<source> -> <ip> <id> <target>".
SafeToDelete(n) ==
    IF Cardinality(DataNode) = 2 THEN system # n ELSE data[n] # "holds"

CheckDrained ==
    /\ pc = "drained"
    /\ IF SafeToDelete(cand) THEN Goto("delete") ELSE EndPass
    /\ NoFault
    /\ UNCHANGED <<kube, cluster, status, edits>>

\* The pod is deleted by name.
DeletePod ==
    /\ pc = "delete"
    /\ IF pods[cand] = "absent" THEN NoFault /\ EndPass /\ UNCHANGED pods
       ELSE /\ pods' = [pods EXCEPT ![cand] = "terminating"]
            /\ IF DrainDataNodes THEN Answered("include") ELSE NoFault /\ EndPass
    /\ UNCHANGED <<conf, initialized, old, seen, current, cluster, status, edits>>

\* RemoveExcludeNodeHost
IncludeNode ==
    /\ pc = "include"
    /\ excluded' = RemoveExcludeNodeHost(excluded, cand)
    /\ NoFault /\ EndPass
    /\ UNCHANGED <<kube, status, allocation, data, system, edits>>

\* A read or a call fails without effect and the pass returns, or the process crashes.
PassFails ==
    /\ pc # "idle" /\ Fault /\ EndPass
    /\ UNCHANGED <<kube, cluster, status, edits>>
-----------------------------------------------------------------------------
(* The user and the StatefulSet controller. *)

\* The template of a pool changes and the controller reports a new update revision.
ChangeTemplate(p) ==
    /\ edits < MaxEdits /\ edits' = edits + 1
    /\ old' = old \cup NodesOf(p)
    /\ seen' = [seen EXCEPT ![p].updated = FALSE]
    /\ current' = current \ {p}
    /\ UNCHANGED <<conf, initialized, pods, cluster, status, worker, faults>>

ObserveStatus(p) ==
    /\ seen' = [seen EXCEPT ![p] = [updated |-> Updated(p), ready |-> Ready(p)]]
    /\ UNCHANGED <<conf, initialized, pods, old, current, cluster, status, worker, edits, faults>>

CreatePod(n) ==
    /\ pods[n] = "absent" /\ \A o \in 0..(n[2] - 1) : pods[<<n[1], o>>] = "ready"
    /\ pods' = [pods EXCEPT ![n] = "starting"]
    /\ old' = old \ {n}
    /\ UNCHANGED <<conf, initialized, seen, current, cluster, status, worker, edits, faults>>

PodBecomesReady(n) ==
    /\ pods[n] = "starting"
    /\ pods' = [pods EXCEPT ![n] = "ready"]
    /\ UNCHANGED <<conf, initialized, old, seen, current, cluster, status, worker, edits, faults>>

\* The copies on a node that leaves are missing; a primary elsewhere takes over.
LosesNode(n) ==
    /\ data' = [data EXCEPT ![n] = IF @ = "empty" THEN "empty" ELSE "missing"]
    /\ \/ system # n /\ UNCHANGED system
       \/ system = n /\ system' \in {m \in DataNode : m # n /\ data[m] = "holds"}
       \/ system = n /\ (\A m \in DataNode \ {n} : data[m] # "holds") /\ UNCHANGED system

PodGone(n) ==
    /\ pods[n] = "terminating"
    /\ pods' = [pods EXCEPT ![n] = "absent"]
    /\ LosesNode(n)
    /\ UNCHANGED <<conf, initialized, old, seen, current, allocation, excluded, status, worker, edits, faults>>

PodFails(n) ==
    /\ PodsMayFail /\ pods[n] = "ready" /\ Fault
    /\ pods' = [pods EXCEPT ![n] = "starting"]
    /\ LosesNode(n)
    /\ UNCHANGED <<conf, initialized, old, seen, current, allocation, excluded, status, worker, edits>>
-----------------------------------------------------------------------------
(* Shard allocation. *)

\* The data nodes other than n that may receive shards.
Targets(n) == {m \in DataNode \ {n} : pods[m] = "ready" /\ m \notin excluded}

\* Missing copies come back on their node or, with three or more data nodes, on another one.
RecoverShards(n) ==
    /\ data[n] = "missing" /\ allocation # "primaries"
    /\ \/ pods[n] = "ready" /\ n \notin excluded /\ data' = [data EXCEPT ![n] = "holds"]
       \/ Targets(n) # {} /\ Cardinality(DataNode) > 2 /\ data' = [data EXCEPT ![n] = "empty"]
    /\ UNCHANGED <<kube, status, allocation, excluded, system, worker, edits, faults>>

\* With two data nodes the other one has a copy of every shard already: none can move there.
StartMove(n) ==
    /\ Cardinality(DataNode) > 2
    /\ data[n] = "holds" /\ n \in excluded /\ pods[n] = "ready" /\ Targets(n) # {}
    /\ data' = [data EXCEPT ![n] = "moving"]
    /\ UNCHANGED <<kube, status, allocation, excluded, system, worker, edits, faults>>

FinishMove(n) ==
    /\ data[n] = "moving"
    /\ \E m \in Targets(n) :
          /\ data' = [data EXCEPT ![n] = "empty", ![m] = "holds"]
          /\ system' = IF system = n THEN m ELSE system
    /\ UNCHANGED <<kube, status, allocation, excluded, worker, edits, faults>>

Rebalance(n) ==
    /\ n \in DataNode /\ data[n] = "empty" /\ pods[n] = "ready" /\ n \notin excluded
    /\ allocation # "primaries"
    /\ data' = [data EXCEPT ![n] = "holds"]
    /\ UNCHANGED <<kube, status, allocation, excluded, system, worker, edits, faults>>

\* A system primary leaves an excluded node.
MoveSystem ==
    /\ system \in excluded /\ pods[system] = "ready"
    /\ system' \in Targets(system)
    /\ UNCHANGED <<kube, status, allocation, excluded, data, worker, edits, faults>>
-----------------------------------------------------------------------------
Work ==
    \/ StartPass
    \/ \E p \in Pool : CheckPendingPool(p) \/ CheckUpdatedPool(p) \/ SetCurrentRevision(p)
    \/ Reactivate \/ Finish \/ Begin
    \/ CleanStaleExclusionList \/ SelectCandidate
    \/ CheckHealth \/ PreparePodForDelete \/ CheckDrained \/ DeletePod \/ IncludeNode

Controller ==
    \/ \E p \in Pool : ChangeTemplate(p) \/ ObserveStatus(p)
    \/ \E n \in Node : CreatePod(n) \/ PodBecomesReady(n) \/ PodGone(n) \/ PodFails(n)

Shards ==
    \/ MoveSystem
    \/ \E n \in Node : RecoverShards(n) \/ StartMove(n) \/ FinishMove(n) \/ Rebalance(n)

Next == Work \/ PassFails \/ Controller \/ Shards

Spec == Init /\ [][Next]_vars

\* Passes are requeued without end, and Kubernetes and OpenSearch go on working.
Fairness ==
    /\ WF_vars(Work) /\ WF_vars(MoveSystem)
    /\ \A p \in Pool : WF_vars(ObserveStatus(p))
    /\ \A n \in Node :
        /\ WF_vars(CreatePod(n)) /\ WF_vars(PodBecomesReady(n)) /\ WF_vars(PodGone(n))
        /\ WF_vars(RecoverShards(n)) /\ WF_vars(StartMove(n)) /\ WF_vars(FinishMove(n))

FairSpec == Spec /\ Fairness
-----------------------------------------------------------------------------
\* Whenever allocation is restricted to primaries, a restart in progress is on record: wherever
\* the worker crashes, a later pass reactivates allocation (Reconcile, PreparePodForDelete).
RestrictionIsRecorded == allocation = "primaries" => status = "InProgress"

\* Unless pods fail on their own, at most one pod is down at any time: a pass deletes a pod only
\* when all pods are ready, those deleted by earlier passes included (Reconcile).
OnePodDown ==
    ~PodsMayFail => \A m, n \in Node : pods[m] # "ready" /\ pods[n] # "ready" => m = n

\* ... and the copies of at most one node are missing: the next pod is deleted only after the
\* shards of the one before have recovered (CheckClusterStatusForRestart).
OneNodeMissing ==
    ~PodsMayFail => \A m, n \in Node : data[m] = "missing" /\ data[n] = "missing" => m = n

\* When changes and faults have ceased, every pod gets to the new revision, and the restart
\* ends with allocation unrestricted and the end on record.
RestartCompletes ==
    <>[](old = {} /\ status # "InProgress" /\ allocation # "primaries" /\ \A p \in Pool : Ready(p))
-----------------------------------------------------------------------------
\* The steps of a pass in which a restart is on record, and those with a candidate.
RestartSteps == {"clean", "select", "health", "prepare", "drained", "delete", "include"}
CandidateSteps == {"health", "prepare", "drained", "delete", "include"}

\* What the worker knows about the pods when pods do not fail on their own: the pools it has
\* checked are ready and stay ready until it deletes the candidate, which is a pod of the old
\* revision; what a StatefulSet reports as updated and ready is ready; and from the health
\* check on, until the deleted pod is gone, no copy is missing.
Undisturbed ==
    /\ pc = "check" => \A i \in (1..Len(NodePools)) \ todo : Ready(NodePools[i])
    /\ pc \in {"begin", "clean", "select", "health", "prepare", "drained", "delete"}
          => \A n \in Node : pods[n] = "ready"
    /\ pc \in CandidateSteps \ {"include"} => cand \in old
    /\ \A p \in Pool : seen[p].updated /\ seen[p].ready => Ready(p)
    /\ pc \in {"prepare", "drained", "delete"} => Green
    /\ (\E n \in Node : pods[n] = "terminating") => Green

\* What the worker knows about its own progress.
Recorded ==
    /\ pc = "check" => todo # {}
    /\ pc \in CandidateSteps => cand \in Node
    /\ pc \in RestartSteps => status = "InProgress"
    /\ pc = "finish" => allocation # "primaries"
    /\ RestrictionIsRecorded
    /\ \A n \in old : ~seen[n[1]].updated

\* The inductive invariant behind the safety properties of the restart.
IInv ==
    /\ TypeOK /\ Recorded
    /\ OnePodDown /\ OneNodeMissing
    /\ ~PodsMayFail => Undisturbed
=============================================================================
