-------------------------- MODULE EmptyDirRecovery --------------------------
(***************************************************************************)
(* The recovery of a cluster whose node pools all use emptyDir volumes     *)
(* (pkg/reconcilers/cluster.go, emptydir_recovery.go).  When the pods of   *)
(* most masters or of all data nodes are missing for a grace period, the   *)
(* operator deletes the StatefulSets, the dashboards and the               *)
(* securityconfig job and marks the cluster as not initialized; the passes *)
(* that follow create everything again, with a bootstrap pod.              *)
(*                                                                         *)
(* Time is counted in ticks and only as far as it matters: how old the     *)
(* recorded observation is, and for how long the loss has lasted.          *)
(***************************************************************************)
EXTENDS Integers, Sequences, FiniteSets, ComponentStatus

CONSTANTS
    NodePools,    \* Spec.NodePools: a sequence of distinct pool names
    Replicas,     \* pool -> replicas
    MasterPools,  \* the pools with the role master or cluster_manager
    DataPools,    \* the pools with the role data
    GracePeriod,  \* emptyDirRecoveryGracePeriod, in ticks
    Losses,       \* the sets of pods that may be lost at once
    MaxEvents     \* bound on losses, scalings, failed calls and crashes of the operator

VARIABLES
    \* Kubernetes
    initialized,  \* Status.Initialized
    status,       \* Status.ComponentsStatus, restricted to the entry of the recovery
    scaling,      \* an entry of the scaler: there was "none" yet, there is one ("found"), or it
                  \* is "gone" again
    sts,          \* the pools that have a StatefulSet
    pods,         \* node -> "absent", "empty" (its volume is new), "held" (it has joined, and
                  \* its volume has the state of the cluster, but it is not ready) or "ready"
    orphans,      \* the pods whose StatefulSet is deleted and that will be collected
    bootstrap,    \* is there a bootstrap pod?
    job,          \* the securityconfig job: "none", "active", "done" or "failed"
    jobApplies,   \* ... and what it applies: "all" files, or "changed" ones one by one
    dashboards,   \* is there a dashboards deployment?
    \* OpenSearch
    secured,      \* does the cluster have a security index?
    \* the reconcile worker
    pc, todo, err,
    \* time
    age,          \* now - firstObserved
    lostFor,      \* for how long pods have been missing without a break
    relapsed,     \* pods were lost again while the observation of an earlier loss was recorded
    \* the bound
    events

worker == <<pc, todo, err>>
history == <<lostFor, relapsed>>
objects == <<sts, pods, orphans, bootstrap, job, jobApplies, dashboards, secured>>
vars == <<initialized, status, scaling, sts, pods, orphans, bootstrap, job, jobApplies, dashboards,
          secured, pc, todo, err, age, lostFor, relapsed, events>>

Pool == {NodePools[i] : i \in 1..Len(NodePools)}
NodesOf(p) == {p} \X (0..(Replicas[p] - 1))
Node == UNION {NodesOf(p) : p \in Pool}
DataNode == UNION {NodesOf(p) : p \in DataPools}
MasterNode == UNION {NodesOf(p) : p \in MasterPools}

ASSUME RecoveryAssumption ==
    /\ NodePools \in Seq(Pool) /\ Len(NodePools) > 0
    /\ \A i, j \in 1..Len(NodePools) : NodePools[i] = NodePools[j] => i = j
    /\ Replicas \in [Pool -> Nat \ {0}]
    /\ MasterPools \in SUBSET Pool \ {{}} /\ DataPools \in SUBSET Pool \ {{}}
    /\ GracePeriod \in Nat \ {0} /\ Losses \subseteq SUBSET Node
    /\ MaxEvents \in Nat

\* The entry that records the first observation; its description is the time of it.
Observation == [component |-> "EmptyDirRecovery", status |-> "Pending", description |-> "time"]
CurrentStatus == [component |-> "EmptyDirRecovery", status |-> "", description |-> ""]

TypeOK ==
    /\ initialized \in BOOLEAN /\ scaling \in {"none", "found", "gone"}
    /\ status \in {<<>>, <<Observation>>}
    /\ sts \subseteq Pool
    /\ pods \in [Node -> {"absent", "empty", "held", "ready"}]
    /\ orphans \subseteq Node
    /\ bootstrap \in BOOLEAN /\ dashboards \in BOOLEAN /\ secured \in BOOLEAN
    /\ job \in {"none", "active", "done", "failed"} /\ jobApplies \in {"all", "changed"}
    /\ pc \in {"idle", "security", "bootstrap", "sts", "check", "delete", "deleteDashboards",
               "reset", "deleteJob", "dashboards"}
    /\ todo \subseteq 1..Len(NodePools)
    /\ err \in BOOLEAN
    /\ age \in 0..GracePeriod /\ lostFor \in 0..GracePeriod /\ relapsed \in BOOLEAN
    /\ events \in 0..MaxEvents

\* A cluster that is up.
Init ==
    /\ initialized = TRUE /\ scaling = "none" /\ status = <<>>
    /\ sts = Pool /\ pods = [n \in Node |-> "ready"] /\ orphans = {}
    /\ bootstrap = FALSE /\ job = "done" /\ jobApplies = "all" /\ dashboards = TRUE
    /\ secured = TRUE
    /\ pc = "idle" /\ todo = {} /\ err = FALSE
    /\ age = 0 /\ lostFor = 0 /\ relapsed = FALSE
    /\ events = 0
-----------------------------------------------------------------------------
\* CountExistingPodsForNodePool: a pod exists whether or not it is ready.
Existing(nodes) == Cardinality({n \in nodes : pods[n] # "absent"})

DataLossSuspected ==
    \/ Existing(DataNode) = 0
    \/ Existing(MasterNode) < (Cardinality(MasterNode) + 1) \div 2

AllMastersReady == MasterPools \subseteq sts /\ \A n \in MasterNode : pods[n] = "ready"

Event == events < MaxEvents /\ events' = events + 1
Fault == Event
NoFault == UNCHANGED events

EndPass == pc' = "idle" /\ todo' = {} /\ err' = FALSE
Goto(next) == pc' = next /\ UNCHANGED <<todo, err>>

\* The last call had its effect; its answer arrives, or it is lost and the pass returns.
Answered(next) == (NoFault /\ Goto(next)) \/ (Fault /\ EndPass)

\* The cluster reconciler collects errors and goes on; in the end the pass returns the first.
Leave == IF err THEN EndPass ELSE Goto("dashboards")
-----------------------------------------------------------------------------
(* reconcilePhaseRunning, up to the check *)

\* Mutant of StartPass: a cluster does not stay initialized.
StartPassForgets ==
    /\ pc = "idle"
    /\ initialized' = AllMastersReady
    /\ pc' = "security" /\ todo' = 1..Len(NodePools) /\ err' = FALSE /\ NoFault
    /\ UNCHANGED <<status, scaling, objects, age, history>>

StartPass ==
    /\ pc = "idle"
    /\ initialized' = (initialized \/ AllMastersReady)
    /\ pc' = "security" /\ todo' = 1..Len(NodePools) /\ err' = FALSE /\ NoFault
    /\ UNCHANGED <<status, scaling, objects, age, history>>

\* The securityconfig job exists: while it runs the pass does not get any further.
JobExists ==
    /\ pc = "security" /\ job \in {"active", "done"}
    /\ IF job = "active" THEN EndPass ELSE Goto("bootstrap")
    /\ NoFault
    /\ UNCHANGED <<initialized, status, scaling, objects, age, history>>

\* There is none, or it has failed (and the delay before a retry is over).
CreateJob ==
    /\ pc = "security" /\ job \in {"none", "failed"}
    /\ job' = "active" /\ jobApplies' = IF initialized THEN "changed" ELSE "all"
    /\ Answered("bootstrap")
    /\ UNCHANGED <<initialized, status, scaling, sts, pods, orphans, bootstrap, dashboards, secured, age, history>>

ReconcileBootstrapPod ==
    /\ pc = "bootstrap"
    /\ \/ bootstrap' = ~initialized /\ NoFault /\ UNCHANGED err
       \/ UNCHANGED bootstrap /\ Fault /\ err' = TRUE
    /\ pc' = "sts" /\ UNCHANGED todo
    /\ UNCHANGED <<initialized, status, scaling, sts, pods, orphans, job, jobApplies, dashboards, secured, age, history>>

\* reconcileNodeStatefulSet creates the StatefulSet of a pool that has none.
ReconcileNodeStatefulSet ==
    /\ pc = "sts"
    /\ \/ sts' = sts \cup {NodePools[First(todo)]} /\ NoFault /\ UNCHANGED err
       \/ UNCHANGED sts /\ Fault /\ err' = TRUE
    /\ IF Cardinality(todo) = 1 THEN pc' = "check" /\ todo' = 1..Len(NodePools)
       ELSE todo' = todo \ {First(todo)} /\ UNCHANGED pc
    /\ UNCHANGED <<initialized, status, scaling, pods, orphans, bootstrap, job, jobApplies, dashboards, secured, age, history>>
-----------------------------------------------------------------------------
(* checkForEmptyDirRecovery *)

\* A cluster that is not initialized or that is being scaled is left alone; a missing
\* StatefulSet is an error.
NoCheck ==
    /\ pc = "check" /\ (~initialized \/ scaling = "found" \/ sts # Pool)
    /\ NoFault
    /\ IF initialized /\ scaling # "found" THEN EndPass ELSE Leave
    /\ UNCHANGED <<initialized, status, scaling, objects, age, history>>

Checks == pc = "check" /\ initialized /\ scaling # "found" /\ sts = Pool

\* clearEmptyDirRecoveryStatus
NothingLost ==
    /\ Checks /\ ~DataLossSuspected
    /\ status' = RemoveIt(CurrentStatus, status)
    /\ NoFault /\ Leave
    /\ UNCHANGED <<initialized, scaling, objects, age, history>>

\* The first observation is recorded with the time; a later one waits for the grace period.
Observe ==
    /\ Checks /\ DataLossSuspected /\ status = <<>>
    /\ status' = Replace(CurrentStatus, Observation, status) /\ age' = 0
    /\ NoFault /\ EndPass
    /\ UNCHANGED <<initialized, scaling, objects, history>>

InGracePeriod ==
    /\ Checks /\ DataLossSuspected /\ status # <<>> /\ age < GracePeriod
    /\ NoFault /\ EndPass
    /\ UNCHANGED <<initialized, status, scaling, objects, age, history>>

\* Mutant of GracePeriodOver: any recorded observation is old enough.
GracePeriodOverAtOnce ==
    /\ Checks /\ DataLossSuspected /\ status # <<>>
    /\ NoFault /\ Goto("delete")
    /\ UNCHANGED <<initialized, status, scaling, objects, age, history>>

GracePeriodOver ==
    /\ Checks /\ DataLossSuspected /\ status # <<>> /\ age = GracePeriod
    /\ NoFault /\ Goto("delete")
    /\ UNCHANGED <<initialized, status, scaling, objects, age, history>>

\* The security index is lost with the last volume that has a copy of it.
Copies(nodes, state) == \E n \in nodes \cap DataNode : state[n] \in {"held", "ready"}

\* DeleteSTSForNodePool: the pods of the StatefulSet are collected later.
DeleteStatefulSet ==
    /\ pc = "delete"
    /\ LET p == NodePools[First(todo)] IN
       /\ sts' = sts \ {p}
       /\ orphans' = orphans \cup {n \in NodesOf(p) : pods[n] # "absent"}
       /\ secured' = (secured /\ Copies(Node \ orphans', pods))
    /\ \/ /\ NoFault /\ UNCHANGED err
          /\ todo' = todo \ {First(todo)}
          /\ pc' = IF Cardinality(todo) = 1 THEN "deleteDashboards" ELSE "delete"
       \/ Fault /\ EndPass
    /\ UNCHANGED <<initialized, status, scaling, pods, bootstrap, job, jobApplies, dashboards, age, history>>

DeleteDashboardsDeployment ==
    /\ pc = "deleteDashboards"
    /\ dashboards' = FALSE
    /\ Answered("reset")
    /\ UNCHANGED <<initialized, status, scaling, sts, pods, orphans, bootstrap, job, jobApplies, secured, age, history>>

\* Mutant of ResetInitialized: the cluster stays marked as initialized.
ResetStatusOnly ==
    /\ pc = "reset"
    /\ status' = RemoveIt(CurrentStatus, status)
    /\ Answered("deleteJob")
    /\ UNCHANGED <<initialized, scaling, objects, age, history>>

ResetInitialized ==
    /\ pc = "reset"
    /\ initialized' = FALSE /\ status' = RemoveIt(CurrentStatus, status)
    /\ Answered("deleteJob")
    /\ UNCHANGED <<scaling, objects, age, history>>

DeleteSecurityUpdateJob ==
    /\ pc = "deleteJob"
    /\ job' = "none"
    /\ NoFault /\ Leave
    /\ UNCHANGED <<initialized, status, scaling, sts, pods, orphans, bootstrap, jobApplies, dashboards, secured, age, history>>

\* The dashboards reconciler comes after the cluster reconciler.
ReconcileDashboards ==
    /\ pc = "dashboards"
    /\ dashboards' = TRUE
    /\ NoFault /\ EndPass
    /\ UNCHANGED <<initialized, status, scaling, sts, pods, orphans, bootstrap, job, jobApplies, secured, age, history>>

\* A call fails without effect and the pass returns, or the process crashes.
PassFails ==
    /\ pc # "idle" /\ Fault /\ EndPass
    /\ UNCHANGED <<initialized, status, scaling, objects, age, history>>
-----------------------------------------------------------------------------
(* The pods, OpenSearch, the scaler, and time. *)

\* A leader can be elected: by the bootstrap pod, or by most of the masters.
Quorum ==
    \/ bootstrap
    \/ 2 * Cardinality({n \in MasterNode \ orphans : pods[n] \in {"held", "ready"}})
          > Cardinality(MasterNode)

Elsewhere == <<initialized, status, scaling, sts, bootstrap, job, jobApplies, dashboards, worker, age>>

Relapse == relapsed' = (relapsed \/ (status # <<>> /\ ~DataLossSuspected /\ DataLossSuspected'))

Lose(lost) ==
    /\ Event
    /\ \A n \in lost : pods[n] = "ready" /\ n \notin orphans
    /\ pods' = [n \in Node |-> IF n \in lost THEN "absent" ELSE pods[n]]
    /\ secured' = (secured /\ Copies(Node \ orphans, pods'))
    /\ Relapse
    /\ UNCHANGED <<Elsewhere, orphans, lostFor>>

Collect(n) ==
    /\ n \in orphans
    /\ orphans' = orphans \ {n} /\ pods' = [pods EXCEPT ![n] = "absent"]
    /\ Relapse
    /\ UNCHANGED <<Elsewhere, secured, lostFor, events>>

\* The StatefulSet controller (OrderedReady).
CreatePod(n) ==
    /\ pods[n] = "absent" /\ n[1] \in sts
    /\ \A i \in 0..(n[2] - 1) : pods[<<n[1], i>>] = "ready" /\ <<n[1], i>> \notin orphans
    /\ pods' = [pods EXCEPT ![n] = "empty"]
    /\ lostFor' = IF DataLossSuspected' THEN lostFor ELSE 0
    /\ UNCHANGED <<Elsewhere, orphans, secured, relapsed, events>>

Join(n) ==
    /\ pods[n] = "empty" /\ n \notin orphans /\ Quorum
    /\ pods' = [pods EXCEPT ![n] = "held"]
    /\ UNCHANGED <<Elsewhere, orphans, secured, history, events>>

\* The readiness probe logs in: it needs a leader and the security index.
Answers == Quorum /\ secured

BecomesReady(n) ==
    /\ pods[n] = "held" /\ n \notin orphans /\ Answers
    /\ pods' = [pods EXCEPT ![n] = "ready"]
    /\ UNCHANGED <<Elsewhere, orphans, secured, history, events>>

BecomesUnready(n) ==
    /\ pods[n] = "ready" /\ ~Answers
    /\ pods' = [pods EXCEPT ![n] = "held"]
    /\ UNCHANGED <<Elsewhere, orphans, secured, history, events>>

\* The job gets through by way of the bootstrap pod or a ready pod.  When it applies all files
\* it creates the security index; single ones do not make a security configuration.
JobCanSucceed ==
    /\ Quorum /\ Copies(Node \ orphans, pods)
    /\ bootstrap \/ \E n \in Node : pods[n] = "ready"
    /\ jobApplies = "all" \/ secured

JobEnds ==
    /\ job = "active"
    /\ IF JobCanSucceed THEN job' = "done" /\ secured' = TRUE ELSE job' = "failed" /\ UNCHANGED secured
    /\ UNCHANGED <<initialized, status, scaling, sts, pods, orphans, bootstrap, jobApplies, dashboards, worker, age, history, events>>

ScalerStarts ==
    /\ scaling = "none" /\ Event
    /\ scaling' = "found"
    /\ UNCHANGED <<initialized, status, objects, worker, age, history>>

\* Only a cluster that answers can be scaled.
ScalerEnds ==
    /\ scaling = "found" /\ Answers
    /\ scaling' = "gone"
    /\ UNCHANGED <<initialized, status, objects, worker, age, history, events>>

Work ==
    \/ StartPass \/ JobExists \/ CreateJob \/ ReconcileBootstrapPod \/ ReconcileNodeStatefulSet
    \/ NoCheck \/ NothingLost \/ Observe \/ InGracePeriod \/ GracePeriodOver
    \/ DeleteStatefulSet \/ DeleteDashboardsDeployment \/ ResetInitialized
    \/ DeleteSecurityUpdateJob \/ ReconcileDashboards

Environment ==
    \/ \E lost \in Losses : Lose(lost)
    \/ \E n \in Node : Collect(n) \/ CreatePod(n) \/ Join(n)
                   \/ BecomesReady(n) \/ BecomesUnready(n)
    \/ JobEnds \/ ScalerStarts \/ ScalerEnds

\* lostFor is a history variable; CreatePod, which brings pods back, resets it.
Tick ==
    /\ age' = IF age < GracePeriod THEN age + 1 ELSE age
    /\ lostFor' = IF DataLossSuspected /\ lostFor < GracePeriod THEN lostFor + 1 ELSE lostFor
    /\ UNCHANGED <<initialized, status, scaling, objects, worker, relapsed, events>>

Next == Work \/ PassFails \/ Environment \/ Tick

Spec == Init /\ [][Next]_vars

\* Passes are requeued without end, Kubernetes and OpenSearch go on working, time goes on.
Fairness ==
    /\ WF_vars(Work) /\ WF_vars(Tick)
    /\ WF_vars(JobEnds) /\ WF_vars(ScalerEnds)
    /\ WF_vars(\E n \in Node : Collect(n)) /\ WF_vars(\E n \in Node : CreatePod(n))
    /\ WF_vars(\E n \in Node : Join(n)) /\ WF_vars(\E n \in Node : BecomesReady(n))
    /\ WF_vars(\E n \in Node : BecomesUnready(n))

FairSpec == Spec /\ Fairness
-----------------------------------------------------------------------------
\* The operator starts to delete the StatefulSets only when pods have been missing, without a
\* break, for the grace period (checkForEmptyDirRecovery), or when an earlier loss has been recorded
\* and pods are missing again, lost or taken away by a recovery: clearEmptyDirRecoveryStatus does
\* not find the entry it is to remove, so that the grace period is granted only once.
ActsOnSustainedLoss ==
    [][pc = "check" /\ pc' = "delete" => lostFor = GracePeriod \/ relapsed]_vars

\* All nodes are ready, with the security index, the dashboards and no bootstrap pod.
Up ==
    /\ initialized /\ ~bootstrap /\ secured /\ dashboards /\ sts = Pool
    /\ \A n \in Node : pods[n] = "ready"

\* The cluster does not answer, and the check does not look or counts enough pods: it counts the
\* pods that were created again, whose volumes are empty.
Unnoticed == initialized /\ ~Answers /\ (scaling = "found" \/ ~DataLossSuspected)

\* The recovery was cut short before it deleted the job.
JobLeft == ~initialized /\ ~secured /\ job = "done"

\* Whatever pods are lost, calls fail and pools are scaled, the cluster gets up again, by itself or
\* because the operator recreates it; the only cases in which it does not are those that the check
\* does not notice, and a recovery that was cut short between its last two calls.  "The operator
\* starts recovery in case of these failure scenarios" (docs/userguide/main.md): more than half
\* of the masters, or all data nodes, are missing.
ClusterRecovers == <>[](Up \/ Unnoticed \/ JobLeft)

\* The bootstrap pod, which can found a second cluster, is not started while most masters are
\* there, other than those about to be collected (Reconcile, Status.Initialized).
BootstrapsOnlyAfterLoss ==
    [][bootstrap' /\ ~bootstrap => 2 * Existing(MasterNode \ orphans) <= Cardinality(MasterNode)]_vars
=============================================================================
