------------------------------ MODULE Upgrade ------------------------------
(***************************************************************************)
(* The rolling upgrade of the operator (pkg/reconcilers/upgrade.go).  A    *)
(* new version in the resource changes the templates of all StatefulSets   *)
(* in the next pass; the upgrade then deletes the pods of one pool after   *)
(* the other, one pod per pass, and records how far it got in status       *)
(* entries, one per pool.  When every pool has its entry, the version is   *)
(* recorded.  While the recorded version is the one asked for, the rolling *)
(* restart looks for pods of another revision instead; it is reduced here  *)
(* to what it does to the pods, see module RollingRestart.                 *)
(*                                                                         *)
(* A step ends with one call that changes state outside the worker.        *)
(* Calls fail, with or without effect, and the process crashes; around it  *)
(* run the user, who may change the version again at any time, the         *)
(* StatefulSet controller, the pods and the allocation of shards.          *)
(***************************************************************************)
EXTENDS Integers, Sequences, FiniteSets, ExcludeList

CONSTANTS
    NodePools,       \* Spec.NodePools: a sequence of distinct pool names
    Replicas,        \* pool -> replicas
    MasterPools,     \* the pools with the role master or cluster_manager
    DataPools,       \* the pools with the role data
    Shards,          \* the shards of the indices, each with one replica
    SystemShards,    \* those of system indices
    Placements,      \* where the shards may be at first, a subset of [Shards -> Place]
    Confs,           \* the set-ups to consider, a subset of Conf
    Versions,        \* the versions the user asks for: records of major, minor and pre-release
    MaxEvents,       \* bound on changes of the version, failed calls, crashes and pod failures
    NoPod            \* no pod at hand

VARIABLES
    \* Kubernetes
    conf,        \* how the cluster is set up, see Conf
    want,        \* Spec.General.Version
    version,     \* Status.Version
    phase,       \* Status.Phase
    entries,     \* pool -> its status entry of the component "Upgrader"
    restarting,  \* the status entry of the rolling restart says InProgress
    templ,       \* pool -> the version in the template of its StatefulSet
    seen,        \* pool -> the status of its StatefulSet: update revision, replicas updated
                 \* and available
    up, runs,    \* node -> is its pod ready, and which version does it run
    \* OpenSearch
    allocation,  \* transient cluster.routing.allocation.enable
    excluded,    \* cluster.routing.allocation.exclude._name
    shards,      \* shard -> where its copies are, see Place
    archived,    \* settings that the new version archived are in the cluster state
    \* the reconcile worker
    pc, inst, pod,
    \* the bound, and how edits met an upgrade: "apart", "overlap" or "revert"
    events, edited

status == <<version, phase, entries, restarting>>
cluster == <<allocation, excluded, shards, archived>>
worker == <<pc, inst, pod>>
env == <<conf, want, seen, up, runs, edited>>
vars == <<conf, want, version, phase, entries, restarting, templ, seen, up, runs, allocation, excluded,
          shards, archived, pc, inst, pod, events, edited>>

Pool == {NodePools[i] : i \in 1..Len(NodePools)}
NodesOf(p) == {p} \X (0..(Replicas[p] - 1))
Node == UNION {NodesOf(p) : p \in Pool}
DataNode == UNION {NodesOf(p) : p \in DataPools}

\* Spec.General.DrainDataNodes; whether pods fail on their own; the pools whose StatefulSet
\* status may lag behind when a pass begins; whether nodes of the new version archive settings.
Conf == [drain : BOOLEAN, podsMayFail : BOOLEAN, lagging : SUBSET Pool, archives : BOOLEAN]

\* The node of the primary, also while that node is down; the node of the replica, if it has one;
\* and whether the primary or the replica is moving away from its node, or a "new" replica is
\* being copied to it.
Place == [primary : DataNode, replica : DataNode \cup {NoPod}, moving : {"none", "primary", "replica", "new"}]

NoVersion == [major |-> 0, minor |-> 0, pre |-> FALSE]
Count(p) == Cardinality({n \in NodesOf(p) : up[n] /\ runs[n] = templ[p]})
Available(p) == Cardinality({n \in NodesOf(p) : up[n]})
Status(p) == [rev |-> templ[p], updated |-> Count(p), available |-> Available(p)]

ASSUME UpgradeAssumption ==
    /\ Confs \subseteq Conf
    /\ NodePools \in Seq(Pool) /\ Len(NodePools) > 0 /\ MasterPools \subseteq Pool /\ DataPools \subseteq Pool /\ DataNode # {}
    /\ \A p \in Pool : Replicas[p] \in Nat
    /\ Versions \subseteq [major : Nat, minor : Nat, pre : BOOLEAN] /\ NoVersion \notin Versions
    /\ NoPod \notin Node
    /\ Placements \subseteq [Shards -> Place] /\ SystemShards \subseteq Shards
    /\ \A c \in Placements : \A s \in Shards : c[s].replica \notin {NoPod, c[s].primary} /\ c[s].moving = "none"

TypeOK ==
    /\ conf \in Conf /\ want \in Versions /\ version \in Versions
    /\ phase \in {"RUNNING", "UPGRADING"}
    /\ entries \in [Pool -> {"none", "Upgrading", "Upgraded"}] /\ restarting \in BOOLEAN
    /\ templ \in [Pool -> Versions]
    /\ \A p \in Pool : /\ seen[p].rev \in Versions
                       /\ seen[p].updated \in 0..Replicas[p] /\ seen[p].available \in 0..Replicas[p]
    /\ up \in [Node -> BOOLEAN] /\ runs \in [Node -> Versions]
    /\ allocation \in {"all", "primaries"} /\ excluded \subseteq Node
    /\ shards \in [Shards -> Place] /\ archived \in BOOLEAN
    /\ pc \in {"idle", "templates", "ready", "clean", "find", "health", "reactivate", "mark", "prepare",
               "drained", "delete", "include", "restart"}
    /\ inst \in Versions \cup {NoVersion} /\ pod \in Node \cup {NoPod}

\* A running cluster of some version.
Init ==
    /\ conf \in Confs
    /\ version \in Versions /\ want = version /\ phase = "RUNNING"
    /\ entries = [p \in Pool |-> "none"] /\ restarting = FALSE
    /\ templ = [p \in Pool |-> version]
    /\ up = [n \in Node |-> TRUE] /\ runs = [n \in Node |-> version]
    /\ seen = [p \in Pool |-> Status(p)]
    /\ allocation = "all" /\ excluded = {} /\ archived = FALSE
    /\ shards \in Placements
    /\ pc = "idle" /\ inst = NoVersion /\ pod = NoPod
    /\ events = 0 /\ edited = "apart"

Event == events < MaxEvents /\ events' = events + 1
Fault == Event
NoFault == UNCHANGED events
EndPass == pc' = "idle" /\ inst' = NoVersion /\ pod' = NoPod
Goto(next) == pc' = next /\ UNCHANGED <<inst, pod>>
Answered(next) == (NoFault /\ Goto(next)) \/ (Fault /\ EndPass)
\* The call was the last of the pass; whether its answer arrives makes no difference.
Last == NoFault /\ EndPass
-----------------------------------------------------------------------------
(* The pass before it gets to the upgrade. *)

StartPass ==
    /\ pc = "idle" /\ \A p \in Pool \ conf.lagging : seen[p] = Status(p)
    /\ pc' = "templates" /\ inst' = want /\ UNCHANGED pod
    /\ NoFault /\ UNCHANGED <<env, status, templ, cluster>>

First(S) == CHOOSE i \in S : \A j \in S : i <= j
Unwritten == {i \in 1..Len(NodePools) : templ[NodePools[i]] # inst}

\* The cluster reconciler puts the image of Spec.General.Version into the template of every pool,
\* whether that version is valid or not (ResolveImage).
WriteTemplate ==
    /\ pc = "templates" /\ Unwritten # {}
    /\ templ' = [templ EXCEPT ![NodePools[First(Unwritten)]] = inst]
    /\ Answered("templates")
    /\ UNCHANGED <<env, status, cluster>>

\* The scaler ends a pass in which the status of some StatefulSet has replicas that are not
\* available.
NodePoolsReady ==
    /\ pc = "templates" /\ Unwritten = {}
    /\ IF \A p \in Pool : seen[p].available = Replicas[p] THEN Goto("ready") ELSE EndPass
    /\ NoFault /\ UNCHANGED <<env, status, templ, cluster>>
-----------------------------------------------------------------------------
(* Reconcile *)

\* semver: a pre-release comes before its release.
LessThan(v, w) ==
    \/ v.major < w.major
    \/ v.major = w.major /\ v.minor < w.minor
    \/ v.major = w.major /\ v.minor = w.minor /\ v.pre /\ ~w.pre

\* Mutant of ValidateUpgrade: any number of major versions may be skipped.
ValidateAnyUpgrade(existing, new) == ~LessThan(new, existing)

\* The constraint "< existing + 2 majors" is one no pre-release satisfies.
ValidateUpgrade(existing, new) ==
    /\ ~LessThan(new, existing)
    /\ new.major < existing.major + 2 /\ ~new.pre

\* Versions in sync: a phase UPGRADING is set back, and the pass goes on to the rolling restart.
InSync ==
    /\ pc = "ready" /\ inst = version
    /\ IF phase = "UPGRADING" THEN phase' = "RUNNING" /\ Answered("restart")
       ELSE UNCHANGED phase /\ NoFault /\ Goto("restart")
    /\ UNCHANGED <<env, version, entries, restarting, templ, cluster>>

Refuse ==
    /\ pc = "ready" /\ inst # version /\ ~ValidateUpgrade(version, inst)
    /\ Last /\ UNCHANGED <<env, status, templ, cluster>>

Begin ==
    /\ pc = "ready" /\ inst # version /\ ValidateUpgrade(version, inst)
    /\ phase' = "UPGRADING" /\ Answered(IF conf.drain THEN "clean" ELSE "find")
    /\ UNCHANGED <<env, version, entries, restarting, templ, cluster>>

IsPodStale(n) == ~up[n] \/ runs[n] = seen[n[1]].rev

\* A put of cluster settings is refused while archived settings are in the cluster state, as
\* long as nodes of the version that refuses it are left.
Refused == archived /\ \E n \in Node : runs[n] # inst

CleanStaleExclusionList ==
    /\ pc = "clean"
    /\ LET stale == {n \in excluded : IsPodStale(n)} IN
       \/ stale # {} /\ Refused /\ Last /\ UNCHANGED excluded
       \/ ~(stale # {} /\ Refused) /\ excluded' = excluded \ stale /\ Answered("find")
    /\ UNCHANGED <<env, status, templ, allocation, shards, archived>>

\* findNextNodePoolForUpgrade: data pools without masters, then those with, then the others; in
\* each group the pool in progress first, then the first one without an entry.
Group(p) == IF p \notin DataPools THEN 3 ELSE IF p \in MasterPools THEN 2 ELSE 1
Open == {i \in 1..Len(NodePools) : entries[NodePools[i]] # "Upgraded"}
Precedes(i, j) ==
    LET p == NodePools[i] q == NodePools[j] IN
    \/ Group(p) < Group(q)
    \/ Group(p) = Group(q) /\ entries[p] = "Upgrading" /\ entries[q] = "none"
    \/ Group(p) = Group(q) /\ entries[p] = entries[q] /\ i < j

\* Mutant of FindNextNodePoolForUpgrade: the pools are taken in the order of the resource.
FindFirstNodePool == NodePools[First(Open)]

FindNextNodePoolForUpgrade == NodePools[CHOOSE i \in Open : \A j \in Open \ {i} : Precedes(i, j)]

\* Pending: the pool gets its entry.
StartPool ==
    /\ pc = "find" /\ Open # {} /\ entries[FindNextNodePoolForUpgrade] = "none"
    /\ entries' = [entries EXCEPT ![FindNextNodePoolForUpgrade] = "Upgrading"]
    /\ Last /\ UNCHANGED <<env, version, phase, restarting, templ, cluster>>

\* Finished: the version recorded is the one that the resource has by now.
FinishUpgrade ==
    /\ pc = "find" /\ Open = {}
    /\ version' = want /\ phase' = "RUNNING" /\ entries' = [p \in Pool |-> "none"]
    /\ \/ Last
       \/ NoFault /\ Goto("restart")
    /\ UNCHANGED <<env, restarting, templ, cluster>>
-----------------------------------------------------------------------------
(* doNodePoolUpgrade *)

Current == FindNextNodePoolForUpgrade

\* Mutant of WorkOnPool: archived settings are left in the cluster state.
WorkOnPoolOnly ==
    /\ pc = "find" /\ Open # {} /\ entries[Current] = "Upgrading"
    /\ IF Available(Current) = Replicas[Current] THEN Answered("health") ELSE Last
    /\ UNCHANGED <<env, status, templ, cluster>>

\* The settings that version 3 archives are deleted in an upgrade to it.
DeleteUnsupportedClusterSettings == archived' = (archived /\ inst.major < 3)

\* In progress: once all pods of the pool are ready, the work on it goes on.
WorkOnPool ==
    /\ pc = "find" /\ Open # {} /\ entries[Current] = "Upgrading"
    /\ IF Available(Current) = Replicas[Current]
       THEN DeleteUnsupportedClusterSettings /\ Answered("health")
       ELSE Last /\ UNCHANGED archived
    /\ UNCHANGED <<env, status, templ, allocation, excluded, shards>>

\* The health of the cluster: every copy is started, or every primary is.
Replicated(s) == shards[s].replica # NoPod /\ shards[s].moving # "new"
Red == \E s \in Shards : ~up[shards[s].primary]
Green == ~Red /\ \A s \in Shards : Replicated(s)

\* A copy is not allocated to a node of an older version than that of the primary, to an excluded
\* node, or to one that has a copy; a replica also not while allocation is restricted.
TooOld(s, n) == LessThan(runs[n], runs[shards[s].primary])
MayTake(s, n) ==
    /\ up[n] /\ n \notin excluded /\ n \notin {shards[s].primary, shards[s].replica} /\ ~TooOld(s, n)

\* The replica is unassigned, or must leave its node, and no node may take it, one of them because
\* of its version.
DetectShardStuckVersionMismatch(s) ==
    /\ shards[s].moving = "none" /\ shards[s].replica \in {NoPod} \cup excluded
    /\ allocation # "all" \/ ~\E n \in DataNode : MayTake(s, n)
    /\ \E n \in DataNode \ {shards[s].replica} : up[n] /\ TooOld(s, n)

\* Mutant of CheckClusterRestartOnYellow: a yellow cluster is ready, whatever replicas are missing.
RestartOnAnyYellow == ~Red

\* Nothing moves, and every replica that is missing is stuck.
CheckClusterRestartOnYellow ==
    /\ ~Red /\ \A s \in Shards : shards[s].moving = "none"
    /\ \A s \in Shards : shards[s].replica = NoPod => DetectShardStuckVersionMismatch(s)

SafeToRestart == Green \/ CheckClusterRestartOnYellow

Older == {o \in 0..(Replicas[Current] - 1) : runs[<<Current, o>>] # seen[Current].rev \/ ~up[<<Current, o>>]}
WorkingPod == <<Current, First(Older)>>

\* The pool is done, or GetPodWithOlderRevision finds its next pod; a pod that is not there and
\* an update that no pod is in need of are errors.
GoOn ==
    IF seen[Current].updated = Replicas[Current] THEN Goto("reactivate")
    ELSE IF Older = {} \/ ~up[WorkingPod] THEN EndPass
    ELSE pc' = "prepare" /\ pod' = WorkingPod /\ UNCHANGED inst

\* The cluster is not ready: without draining, allocation is enabled again.
NotReady ==
    /\ allocation' = IF conf.drain \/ Refused THEN allocation ELSE "all"
    /\ EndPass

\* CheckClusterStatusForRestart.  A replica whose allocation is delayed, because its node has
\* just left, is not stuck yet.
CheckHealth ==
    /\ pc = "health"
    /\ \/ SafeToRestart /\ GoOn /\ NoFault /\ UNCHANGED allocation
       \/ ~SafeToRestart /\ NotReady /\ NoFault
       \/ ~Green /\ SafeToRestart /\ NotReady /\ Event
    /\ UNCHANGED <<env, status, templ, excluded, shards, archived>>

ReactivateShardAllocation ==
    /\ pc = "reactivate"
    /\ IF allocation # "all" /\ Refused THEN Last /\ UNCHANGED allocation
       ELSE allocation' = "all" /\ Answered("mark")
    /\ UNCHANGED <<env, status, templ, excluded, shards, archived>>

MarkUpgraded ==
    /\ pc = "mark"
    /\ entries' = [entries EXCEPT ![Current] = "Upgraded"]
    /\ Last /\ UNCHANGED <<env, version, phase, restarting, templ, cluster>>

PreparePodForDelete ==
    /\ pc = "prepare"
    /\ IF Refused THEN Last /\ UNCHANGED <<allocation, excluded>>
       ELSE IF conf.drain
       THEN excluded' = AppendExcludeNodeHost(excluded, pod) /\ Answered("drained") /\ UNCHANGED allocation
       ELSE allocation' = "primaries" /\ Answered("delete") /\ UNCHANGED excluded
    /\ UNCHANGED <<env, status, templ, shards, archived>>

\* With two data nodes only the primaries of system indices must be gone, and all of them started.
HasIndexPrimariesOnNode(n) ==
    \E s \in SystemShards : shards[s].primary = n \/ shards[s].moving = "primary" \/ ~up[shards[s].primary]

\* CheckPodSafeToDelete: all copies on the node are replicas that are stuck; one that is moving is
\* not listed under the name of the node.
OnNode(n) == {s \in Shards : \/ shards[s].primary = n /\ shards[s].moving # "primary"
                             \/ shards[s].replica = n /\ shards[s].moving # "replica"}
SafeToDelete(n) ==
    IF Cardinality(DataNode) = 2 THEN ~HasIndexPrimariesOnNode(n)
    ELSE \A s \in OnNode(n) : shards[s].replica = n /\ DetectShardStuckVersionMismatch(s)

CheckDrained ==
    /\ pc = "drained"
    /\ IF SafeToDelete(pod) THEN Goto("delete") ELSE EndPass
    /\ NoFault /\ UNCHANGED <<env, status, templ, cluster>>

\* The node goes down: its replicas are unassigned, and of its primaries the replicas take over;
\* a primary without one is gone until the node is back.
Lost(n) ==
    [s \in Shards |->
        LET c == shards[s] IN
        IF c.replica = n THEN [c EXCEPT !.replica = NoPod, !.moving = IF @ = "primary" THEN @ ELSE "none"]
        ELSE IF c.primary # n THEN c
        ELSE [primary |-> IF Replicated(s) THEN c.replica ELSE n, replica |-> NoPod, moving |-> "none"]]

DeletePod ==
    /\ pc = "delete"
    /\ up' = [up EXCEPT ![pod] = FALSE] /\ shards' = Lost(pod)
    /\ IF conf.drain THEN Answered("include") ELSE Last
    /\ UNCHANGED <<conf, want, seen, runs, edited, status, templ, allocation, excluded, archived>>

IncludeNode ==
    /\ pc = "include"
    /\ excluded' = IF Refused THEN excluded ELSE RemoveExcludeNodeHost(excluded, pod)
    /\ Last /\ UNCHANGED <<env, status, templ, allocation, shards, archived>>

\* A call fails without effect, or the process crashes.
PassFails ==
    /\ pc # "idle" /\ Fault /\ EndPass
    /\ UNCHANGED <<env, status, templ, cluster>>
-----------------------------------------------------------------------------
(* The rolling restart, in one step of a pass that nothing interrupts. *)

AllReady == \A n \in Node : up[n]
Outdated == {n \in Node : runs[n] # seen[n[1]].rev}
Pending == \E p \in Pool : seen[p].updated < Replicas[p]

\* Pools without masters first, in a pool the lowest ordinal.
Candidate == CHOOSE n \in Outdated : \A m \in Outdated \ {n} :
    \/ n[1] \notin MasterPools /\ m[1] \in MasterPools
    \/ (n[1] \in MasterPools <=> m[1] \in MasterPools) /\ (n[1] = m[1] => n[2] < m[2])

RestartIdle ==
    /\ pc = "restart" /\ (~AllReady \/ ~Pending \/ Outdated = {})
    /\ IF AllReady /\ ~Pending /\ restarting THEN restarting' = FALSE /\ allocation' = "all"
       ELSE UNCHANGED <<restarting, allocation>>
    /\ Last /\ UNCHANGED <<env, version, phase, entries, templ, excluded, shards, archived>>

RestartWaits ==
    /\ pc = "restart" /\ AllReady /\ Pending /\ Outdated # {}
    /\ ~SafeToRestart \/ (conf.drain /\ ~(Candidate \in excluded /\ SafeToDelete(Candidate)))
    /\ restarting' = TRUE
    /\ allocation' = IF conf.drain \/ SafeToRestart THEN allocation ELSE "all"
    /\ excluded' = IF ~conf.drain THEN excluded
                   ELSE (excluded \cap Outdated) \cup (IF SafeToRestart THEN {Candidate} ELSE {})
    /\ Last /\ UNCHANGED <<env, version, phase, entries, templ, shards, archived>>

RestartPod ==
    /\ pc = "restart" /\ AllReady /\ Pending /\ Outdated # {} /\ SafeToRestart
    /\ conf.drain => Candidate \in excluded /\ SafeToDelete(Candidate)
    /\ restarting' = TRUE
    /\ allocation' = IF conf.drain THEN allocation ELSE "primaries"
    /\ excluded' = (excluded \cap Outdated) \ {Candidate}
    /\ up' = [up EXCEPT ![Candidate] = FALSE] /\ shards' = Lost(Candidate)
    /\ Last /\ UNCHANGED <<conf, want, seen, runs, edited, version, phase, entries, templ, archived>>
-----------------------------------------------------------------------------
(* The user, the StatefulSet controller, the pods and the allocation of shards. *)

Settled ==
    /\ want = version /\ phase = "RUNNING" /\ \A n \in Node : up[n] /\ runs[n] = want
    /\ allocation = "all" /\ excluded = {} /\ Green /\ \A s \in Shards : shards[s].moving = "none"

EditVersion(v) ==
    /\ Event /\ v # want
    /\ want' = v
    /\ edited' = IF Settled /\ ~restarting /\ pc = "idle" THEN edited
                 ELSE IF v = version \/ edited = "revert" THEN "revert" ELSE "overlap"
    /\ UNCHANGED <<conf, seen, up, runs, status, templ, cluster, worker>>

ObserveStatus(p) ==
    /\ seen[p] # Status(p)
    /\ seen' = [seen EXCEPT ![p] = Status(p)]
    /\ NoFault /\ UNCHANGED <<conf, want, up, runs, edited, status, templ, cluster, worker>>

\* The pod is created from the template and becomes ready.
PodStarts(n) ==
    /\ ~up[n]
    /\ up' = [up EXCEPT ![n] = TRUE] /\ runs' = [runs EXCEPT ![n] = templ[n[1]]]
    /\ archived' = (archived \/ (conf.archives /\ templ[n[1]].major >= 3))
    /\ NoFault /\ UNCHANGED <<conf, want, seen, edited, status, templ, allocation, excluded, shards, worker>>

PodFails(n) ==
    /\ conf.podsMayFail /\ up[n] /\ Fault
    /\ up' = [up EXCEPT ![n] = FALSE] /\ shards' = Lost(n)
    /\ UNCHANGED <<conf, want, seen, runs, edited, status, templ, allocation, excluded, archived, worker>>

\* A missing replica is copied to a node that may take it, and started there.
AllocateReplica(s) ==
    /\ shards[s].replica = NoPod /\ shards[s].moving = "none" /\ up[shards[s].primary] /\ allocation = "all"
    /\ \E n \in DataNode :
        /\ MayTake(s, n)
        /\ shards' = [shards EXCEPT ![s].replica = n, ![s].moving = "new"]
    /\ NoFault /\ UNCHANGED <<env, status, templ, allocation, excluded, archived, worker>>

ReplicaStarts(s) ==
    /\ shards[s].moving = "new"
    /\ shards' = [shards EXCEPT ![s].moving = "none"]
    /\ NoFault /\ UNCHANGED <<env, status, templ, allocation, excluded, archived, worker>>

\* A copy on an excluded node moves to one that may take it, if there is one by then; until the
\* end of the move the copy is the one on its old node.
CanMove(s) ==
    /\ shards[s].moving = "none" /\ up[shards[s].primary] /\ allocation = "all"
    /\ \E n \in DataNode : MayTake(s, n)

BeginMove(s) ==
    /\ CanMove(s)
    /\ \/ shards[s].primary \in excluded /\ shards' = [shards EXCEPT ![s].moving = "primary"]
       \/ shards[s].replica \in excluded /\ shards' = [shards EXCEPT ![s].moving = "replica"]
    /\ NoFault /\ UNCHANGED <<env, status, templ, allocation, excluded, archived, worker>>

EndMove(s) ==
    /\ shards[s].moving \in {"primary", "replica"}
    /\ \/ \E n \in DataNode :
            /\ MayTake(s, n)
            /\ \/ shards[s].moving = "primary" /\ shards' = [shards EXCEPT ![s].primary = n, ![s].moving = "none"]
               \/ shards[s].moving = "replica" /\ shards' = [shards EXCEPT ![s].replica = n, ![s].moving = "none"]
       \/ (~\E n \in DataNode : MayTake(s, n)) /\ shards' = [shards EXCEPT ![s].moving = "none"]
    /\ NoFault /\ UNCHANGED <<env, status, templ, allocation, excluded, archived, worker>>

\* To balance the nodes, any copy may move.
Rebalance(s) ==
    /\ Green /\ CanMove(s) /\ Event
    /\ \E copy \in {"primary", "replica"} : shards' = [shards EXCEPT ![s].moving = copy]
    /\ UNCHANGED <<env, status, templ, allocation, excluded, archived, worker>>

Allocate(s) == AllocateReplica(s) \/ ReplicaStarts(s) \/ BeginMove(s) \/ EndMove(s)
-----------------------------------------------------------------------------
Reconcile == InSync \/ Refuse \/ Begin \/ CleanStaleExclusionList \/ StartPool \/ FinishUpgrade
DoNodePoolUpgrade ==
    \/ WorkOnPool \/ CheckHealth \/ ReactivateShardAllocation \/ MarkUpgraded
    \/ PreparePodForDelete \/ CheckDrained \/ DeletePod \/ IncludeNode
RollingRestart == RestartIdle \/ RestartWaits \/ RestartPod
Work == StartPass \/ WriteTemplate \/ NodePoolsReady \/ Reconcile \/ DoNodePoolUpgrade \/ RollingRestart

Next ==
    \/ Work \/ PassFails
    \/ \E v \in Versions : EditVersion(v)
    \/ \E p \in Pool : ObserveStatus(p)
    \/ \E n \in Node : PodStarts(n) \/ PodFails(n)
    \/ \E s \in Shards : Allocate(s) \/ Rebalance(s)

\* Passes are requeued, controllers retry, pods start and shards are allocated.
Fairness ==
    /\ WF_vars(Work)
    /\ WF_vars(\E p \in Pool : ObserveStatus(p))
    /\ WF_vars(\E n \in Node : PodStarts(n))
    /\ \A s \in Shards : WF_vars(Allocate(s))

Spec == Init /\ [][Next]_vars /\ Fairness
-----------------------------------------------------------------------------
(* Properties *)

\* When pods do not fail on their own, every shard keeps its primary: the pod that is deleted has
\* no copy that is the only one of its shard.  "If the cluster is locked in yellow state just for
\* this reason, it's safe to restart" (CheckClusterStatusForRestart): a replica that is stuck has
\* its primary on a node of the new version, which is not deleted again.  For one upgrade at a
\* time, and a status of the StatefulSets that is current.
ShardsStayAvailable ==
    ~conf.podsMayFail /\ conf.lagging = {} /\ edited = "apart" => ~Red

\* The upgrade takes a master down only when every node with data but no master role runs the new
\* version: "Nodes hosting shards (data nodes) should be upgraded first" (docs/designs/upgrade.md).
\* It relies on the status of the StatefulSets being current and on one upgrade at a time.
MastersAreLast ==
    [][pc = "delete" /\ pc' # pc /\ up' # up /\ pod[1] \in MasterPools /\ conf.lagging = {} /\ edited = "apart" =>
          \A n \in DataNode : n[1] \notin MasterPools => runs[n] = inst]_vars

\* The version is recorded when every pod runs it, and it is never a downgrade or a jump over a
\* major version.
VersionIsRun ==
    [][version' # version =>
          /\ edited = "apart" => ~LessThan(version', version) /\ version'.major <= version.major + 1
          /\ conf.lagging = {} /\ edited = "apart" => \A n \in Node : runs[n] = version']_vars

\* An upgrade to a valid version completes: all pods run the version, it is recorded, and neither
\* a restriction of allocation nor an exclusion stays behind; calls may fail, pods die, and the
\* version change again on the way, but not back to the recorded one.
UpgradeCompletes ==
    []<>(\/ Settled \/ ~ValidateUpgrade(version, want)
         \/ edited = "revert" \/ (conf.drain /\ (edited = "overlap" \/ conf.archives \/ conf.lagging # {})))
=============================================================================
