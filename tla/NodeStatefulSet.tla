-------------------------- MODULE NodeStatefulSet --------------------------
(***************************************************************************)
(* How the cluster reconciler keeps the StatefulSet of one node pool       *)
(* (pkg/reconcilers/cluster.go, reconcileNodeStatefulSet): it creates and  *)
(* updates it, and where an update is not possible (another disk size, an  *)
(* immutable field) it deletes it while its pods stay, and creates it      *)
(* anew.  When most pods are gone although their volumes are there, the    *)
(* StatefulSet is replaced for a time by one that starts all pods at once, *)
(* since nodes that start one after the other would not form a quorum.     *)
(* The scaler runs after it in the same pass and changes the number of     *)
(* replicas by one; it is reduced to that, see module Scaler.              *)
(*                                                                         *)
(* A step ends with one call that changes state outside the worker.        *)
(* Calls fail, with or without effect, and the process crashes; a deletion *)
(* is complete some time after the call.                                   *)
(***************************************************************************)
EXTENDS Integers, FiniteSets

CONSTANTS
    Specs,        \* the node pools the user asks for, a subset of PoolSpec
    Confs,        \* the set-ups to consider, a subset of Conf
    MaxReplicas,  \* bound on the replicas of the pool
    MaxSize,      \* bound on disk sizes
    MaxEvents,    \* bound on edits, failed calls, crashes and losses of pods
    None          \* no StatefulSet

VARIABLES
    conf,      \* see Conf
    want,      \* the node pool in the resource
    sts,       \* the StatefulSet
    pods,      \* ordinal -> "none", "started" or "ready"
    podLabels, \* ordinal -> the labels of its pod
    pvcs,      \* ordinal -> the size of its volume, 0 for none
    pvcLabels, \* ordinal -> the labels of its volume
    pdb,       \* the PodDisruptionBudget exists
    formed,    \* the cluster has formed once: the bootstrap pod is gone
    data,      \* the ordinals of the nodes that hold shards
    excluded,  \* the ordinals that are excluded from the allocation of shards
    pc, inst, existing, next,   \* the reconcile worker
    disturbed, \* an edit, a failure or a loss came while the pool was being changed,
               \* or with the volumes of removed replicas still there
    events     \* the bound

env == <<conf, want, pods, pvcLabels, formed, data>>
worker == <<pc, inst, existing, next>>
vars == <<conf, want, sts, pods, podLabels, pvcs, pvcLabels, pdb, formed, data, excluded, pc, inst, existing, next, disturbed, events>>

Ordinal == 0..(MaxReplicas - 1)
Size == 0..MaxSize      \* 0: the pool uses emptyDir

Labels == {"old", "new"}    \* before and after the migration to opensearch.org; part of the immutable selector

\* The budget for disruptions is off, or given with one limit, or with both or none, which is not valid.
PoolSpec == [size : Size, replicas : 1..MaxReplicas, pdb : {"off", "valid", "invalid"}]

\* Is the operator started with parallel recovery, does an entry say that an upgrade is going on, and which
\* labels does a StatefulSet have that exists already?
Conf == [parallelRecovery : BOOLEAN, upgrading : BOOLEAN, labels : Labels]

StatefulSet == [size : Size, replicas : 1..MaxReplicas, labels : Labels, parallel : BOOLEAN,
                going : BOOLEAN]    \* it is being deleted; its pods stay

ASSUME NodeStatefulSetAssumption ==
    /\ MaxReplicas \in Nat \ {0} /\ MaxSize \in Nat \ {0} /\ MaxEvents \in Nat
    /\ Specs \subseteq PoolSpec /\ Confs \subseteq Conf /\ None \notin StatefulSet

TypeOK ==
    /\ conf \in Conf /\ want \in PoolSpec /\ sts \in StatefulSet \cup {None}
    /\ pods \in [Ordinal -> {"none", "started", "ready"}] /\ podLabels \in [Ordinal -> Labels]
    /\ pvcs \in [Ordinal -> Size] /\ pvcLabels \in [Ordinal -> Labels]
    /\ pdb \in BOOLEAN /\ formed \in BOOLEAN /\ data \subseteq Ordinal /\ excluded \subseteq Ordinal
    /\ pc \in {"idle", "create", "look", "park", "parked", "waiting", "unpark", "unparked", "pdb", "volumes", "resize",
               "relabel", "present", "recreate", "scale"}
    /\ inst \in PoolSpec \cup {None} /\ existing \in StatefulSet \cup {None} /\ next \in 0..MaxReplicas
    /\ disturbed \in BOOLEAN

\* What the builder makes of the node pool.
NewSTSForNodePool(spec) ==
    [size |-> spec.size, replicas |-> spec.replicas, labels |-> "new", parallel |-> FALSE, going |-> FALSE]

Members == {i \in Ordinal : sts # None /\ i < sts.replicas}
Managed == sts # None /\ ~sts.going
AllReady == \A i \in Members : pods[i] = "ready" /\ podLabels[i] = sts.labels

\* A cluster that is to be made, or one that runs.
Init ==
    /\ conf \in Confs /\ want \in Specs
    /\ \/ sts = None /\ formed = FALSE
       \/ sts = [NewSTSForNodePool(want) EXCEPT !.labels = conf.labels] /\ formed = TRUE
    /\ pods = [i \in Ordinal |-> IF i \in Members THEN "ready" ELSE "none"]
    /\ pvcs = [i \in Ordinal |-> IF i \in Members THEN want.size ELSE 0]
    /\ podLabels = [i \in Ordinal |-> conf.labels] /\ pvcLabels = podLabels
    /\ pdb = FALSE /\ data = Members /\ excluded = {}
    /\ pc = "idle" /\ inst = None /\ existing = None /\ next = 0
    /\ disturbed = FALSE /\ events = 0

Event ==
    /\ events < MaxEvents /\ events' = events + 1
    /\ disturbed' = (disturbed \/ pc # "idle" \/ sts # NewSTSForNodePool(want) \/ ~AllReady
                                  \/ \E i \in Ordinal \ Members : pvcs[i] # 0)
NoEvent == UNCHANGED <<events, disturbed>>
EndPass == pc' = "idle" /\ inst' = None /\ existing' = None /\ next' = 0
Goto(step) == pc' = step /\ UNCHANGED <<inst, existing, next>>
Answered(step) == (NoEvent /\ Goto(step)) \/ (Event /\ EndPass)
-----------------------------------------------------------------------------
StartPass ==
    /\ pc = "idle" /\ pc' = "create" /\ inst' = want /\ UNCHANGED <<existing, next>>
    /\ NoEvent /\ UNCHANGED <<env, podLabels, sts, pvcs, pdb, excluded>>

\* A StatefulSet that is not there is created with the replicas of the resource.
EnsureCreated ==
    /\ pc = "create"
    /\ IF sts = None THEN sts' = NewSTSForNodePool(inst) /\ Answered("look")
       ELSE NoEvent /\ Goto("look") /\ UNCHANGED sts
    /\ UNCHANGED <<env, podLabels, pvcs, pdb, excluded>>

PVCCount == Cardinality({i \in Ordinal : pvcs[i] # 0 /\ pvcLabels[i] = "new"})
ReadyReplicas == Cardinality({i \in Ordinal : pods[i] = "ready" /\ podLabels[i] = "new"})

\* One missing pod is allowed for restarts.
RecoverySituation ==
    /\ ~conf.upgrading /\ PVCCount >= inst.replicas
    /\ ReadyReplicas < inst.replicas - 1

RecoveryApplies == conf.parallelRecovery /\ inst.size # 0
RecoveryStep == IF RecoverySituation /\ ~sts.parallel THEN "park"
                ELSE IF ~RecoverySituation /\ sts.parallel THEN "unpark" ELSE "pdb"

\* The StatefulSet is read, and recovery begins or ends.  When the volumes cannot be counted the pass
\* goes on without it.
Look ==
    /\ pc = "look"
    /\ \/ sts = None /\ NoEvent /\ EndPass
       \/ /\ sts # None /\ existing' = sts /\ UNCHANGED <<inst, next>>
          /\ \/ NoEvent /\ pc' = IF RecoveryApplies THEN RecoveryStep ELSE "pdb"
             \/ RecoveryApplies /\ Event /\ pc' = "pdb"
    /\ UNCHANGED <<env, podLabels, sts, pvcs, pdb, excluded>>

\* DeleteStatefulSet with orphan: the pods stay.
Orphan(s) == [s EXCEPT !.going = TRUE]

\* WaitForSTSDelete: the call, then the wait for its completion; the wait may time out.
DeleteAndWait ==
    /\ pc \in {"park", "unpark"}
    /\ IF sts = None THEN NoEvent /\ EndPass /\ UNCHANGED sts
       ELSE sts' = Orphan(sts) /\ Answered(IF pc = "park" THEN "parked" ELSE "unparked")
    /\ UNCHANGED <<env, podLabels, pvcs, pdb, excluded>>

\* Recovery: all pods are started at once.
CreateParallel ==
    /\ pc = "parked" /\ sts = None
    /\ sts' = [NewSTSForNodePool(inst) EXCEPT !.parallel = TRUE] /\ Answered("waiting")
    /\ UNCHANGED <<env, podLabels, pvcs, pdb, excluded>>

\* WaitForSTSReplicas: when all pods exist the pass is tried again.
AwaitPods ==
    /\ pc = "waiting" /\ Cardinality({i \in Members : pods[i] # "none"}) >= inst.replicas
    /\ NoEvent /\ EndPass
    /\ UNCHANGED <<env, podLabels, sts, pvcs, pdb, excluded>>

\* The end of recovery: the StatefulSet is created again below.
EndRecovery ==
    /\ pc = "unparked" /\ sts = None /\ NoEvent /\ Goto("pdb")
    /\ UNCHANGED <<env, podLabels, sts, pvcs, pdb, excluded>>

HandlePDB ==
    /\ pc = "pdb"
    /\ IF inst.pdb = "invalid" THEN NoEvent /\ EndPass /\ UNCHANGED pdb
       ELSE pdb' = (inst.pdb = "valid") /\ Answered("volumes")
    /\ UNCHANGED <<env, podLabels, sts, pvcs, excluded>>

\* maybeUpdateVolumes: nothing to do.
KeepVolumes ==
    /\ pc = "volumes" /\ (inst.size = 0 \/ existing.size = inst.size)
    /\ NoEvent /\ Goto("relabel")
    /\ UNCHANGED <<env, podLabels, sts, pvcs, pdb, excluded>>

\* The disk size differs, or the pool used emptyDir before: the StatefulSet is deleted, and the volumes
\* are resized.  A StatefulSet that is gone already is an error.
DeleteForVolumes ==
    /\ pc = "volumes" /\ inst.size # 0 /\ existing.size # inst.size
    /\ IF sts = None THEN NoEvent /\ EndPass /\ UNCHANGED sts
       ELSE sts' = Orphan(sts) /\ Answered(IF existing.size = 0 THEN "relabel" ELSE "resize")
    /\ UNCHANGED <<env, podLabels, pvcs, pdb, excluded>>

\* Mutant of Volumes: the last one is forgotten.
VolumesButLast == existing.replicas - 1

Volumes == existing.replicas

\* The volumes of the replicas in turn; one that is missing or would shrink is an error.
ResizeVolume ==
    /\ pc = "resize"
    /\ \/ /\ next < Volumes /\ pvcs[next] \in 1..inst.size
          /\ pvcs' = [pvcs EXCEPT ![next] = inst.size]
          /\ \/ NoEvent /\ next' = next + 1 /\ UNCHANGED <<pc, inst, existing>>
             \/ Event /\ EndPass
       \/ /\ next < Volumes /\ pvcs[next] \notin 1..inst.size
          /\ NoEvent /\ EndPass /\ UNCHANGED pvcs
       \/ /\ next = Volumes /\ NoEvent /\ Goto("relabel") /\ UNCHANGED <<pvcs>>
    /\ UNCHANGED <<env, podLabels, sts, pdb, excluded>>

\* Mutant of UpdateOrphanedPodLabels: the labels stay.
UpdateNoLabels ==
    /\ pc = "relabel" /\ NoEvent /\ Goto("present")
    /\ UNCHANGED <<env, podLabels, sts, pvcs, pdb, excluded>>

\* updateOrphanedPodLabels: pods with the old labels get the new ones, so that the new StatefulSet adopts
\* them.  A pod that cannot be updated is skipped.
UpdateOrphanedPodLabels ==
    /\ pc = "relabel"
    /\ LET old == {i \in Ordinal : existing.labels = "old" /\ pods[i] # "none" /\ podLabels[i] = "old"}
           Relabel(S) == podLabels' = [i \in Ordinal |-> IF i \in S THEN "new" ELSE podLabels[i]]
       IN \/ Relabel(old) /\ NoEvent /\ Goto("present")
          \/ \E i \in old : Relabel(old \ {i}) /\ Event /\ (Goto("present") \/ EndPass)
    /\ UNCHANGED <<env, sts, pvcs, pdb, excluded>>

\* The replicas are left to the scaler.
Desired == [NewSTSForNodePool(inst) EXCEPT !.replicas = existing.replicas]

SameButReplicas(s, t) == [s EXCEPT !.replicas = t.replicas] = t

\* ReconcileResource: a StatefulSet that is being deleted is left alone, an update of an immutable
\* field is refused.  The order in which pods are started is one: a pass during recovery ends it.
Present ==
    /\ pc = "present"
    /\ \/ sts = None /\ sts' = Desired /\ Answered("scale")
       \/ sts # None /\ sts.going /\ NoEvent /\ Goto("scale") /\ UNCHANGED sts
       \/ sts # None /\ SameButReplicas(sts, Desired) /\ sts' = Desired /\ Answered("scale")
       \/ /\ sts # None /\ ~sts.going /\ ~SameButReplicas(sts, Desired)
          /\ sts' = Orphan(sts) /\ Answered("recreate")
    /\ UNCHANGED <<env, podLabels, pvcs, pdb, excluded>>

\* The second ReconcileResource.  The object still carries the ResourceVersion of the refused update, with
\* which it cannot be created: the pass fails, and the next one creates the StatefulSet (EnsureCreated).
Recreate ==
    /\ pc = "recreate" /\ NoEvent
    /\ IF sts = None THEN EndPass ELSE Goto("scale")
    /\ UNCHANGED <<env, podLabels, sts, pvcs, pdb, excluded>>

Missing == inst.replicas - sts.replicas

\* The scaler: one replica more when all are ready; one less when its node is drained.
Scale ==
    /\ pc = "scale" /\ NoEvent /\ EndPass
    /\ IF sts = None \/ ~AllReady THEN UNCHANGED <<sts, excluded>>
       ELSE \/ Missing = 0 /\ excluded' = {} /\ UNCHANGED sts
            \/ /\ Missing > 0 /\ excluded' = {}
               /\ sts' = [sts EXCEPT !.replicas = @ + 1]
            \/ /\ Missing < 0
               /\ LET last == sts.replicas - 1
                  IN IF last \in excluded /\ last \notin data
                     THEN sts' = [sts EXCEPT !.replicas = last] /\ excluded' = {}
                     ELSE excluded' = {last} /\ UNCHANGED sts
    /\ UNCHANGED <<env, podLabels, pvcs, pdb>>

\* A call fails without effect, a wait times out, or the process crashes.
PassFails ==
    /\ pc # "idle" /\ Event /\ EndPass
    /\ UNCHANGED <<env, podLabels, sts, pvcs, pdb, excluded>>
-----------------------------------------------------------------------------
(* The user, the StatefulSet controller and the nodes *)

Edit ==
    /\ Event /\ want' \in Specs \ {want}
    /\ UNCHANGED <<conf, podLabels, pvcLabels, pods, formed, data, sts, pvcs, pdb, excluded, worker>>

StatefulSetGone ==
    /\ sts # None /\ sts.going /\ sts' = None
    /\ NoEvent /\ UNCHANGED <<env, podLabels, pvcs, pdb, excluded, worker>>

\* Pods are made in their order, each when those before it are ready, or all at once.
MakePod(i) ==
    /\ Managed /\ i < sts.replicas /\ pods[i] = "none"
    /\ sts.parallel \/ \A j \in 0..(i - 1) : pods[j] = "ready"
    /\ pods' = [pods EXCEPT ![i] = "started"]
    /\ podLabels' = [podLabels EXCEPT ![i] = sts.labels]
    /\ pvcs' = [pvcs EXCEPT ![i] = IF @ = 0 THEN sts.size ELSE @]
    /\ pvcLabels' = [pvcLabels EXCEPT ![i] = IF pvcs[i] = 0 THEN sts.labels ELSE @]
    /\ NoEvent /\ UNCHANGED <<conf, want, formed, data, sts, pdb, excluded, worker>>

\* The highest pod that is too many is removed.
RemovePod(i) ==
    /\ Managed /\ i >= sts.replicas /\ pods[i] # "none" /\ podLabels[i] = sts.labels
    /\ \A j \in Ordinal : j > i => (pods[j] = "none" \/ podLabels[j] # sts.labels)
    /\ pods' = [pods EXCEPT ![i] = "none"]
    /\ NoEvent /\ UNCHANGED <<conf, podLabels, pvcLabels, want, formed, data, sts, pvcs, pdb, excluded, worker>>

\* A node joins when a majority of the nodes of the cluster is up, or with the help of the bootstrap pod.
Quorum(S) == 2 * Cardinality(S) > Cardinality(data)
PodReady(i) ==
    /\ pods[i] = "started" /\ (~formed \/ Quorum({j \in data : pods[j] # "none"} \cup ({i} \ data)))
    /\ pods' = [pods EXCEPT ![i] = "ready"]
    /\ NoEvent /\ UNCHANGED <<conf, podLabels, pvcLabels, want, formed, data, sts, pvcs, pdb, excluded, worker>>

Forms ==
    /\ ~formed /\ Managed /\ AllReady /\ formed' = TRUE
    /\ NoEvent /\ UNCHANGED <<conf, podLabels, pvcLabels, want, pods, data, sts, pvcs, pdb, excluded, worker>>

\* Shards are moved away from excluded nodes and onto the others.
MoveShards ==
    /\ formed /\ AllReady
    /\ data' = {i \in Ordinal : pods[i] = "ready"} \ excluded /\ data' # data /\ data' # {}
    /\ NoEvent /\ UNCHANGED <<conf, podLabels, pvcLabels, want, pods, formed, sts, pvcs, pdb, excluded, worker>>

\* One pod is lost, or all of them.
LosePods ==
    /\ Event
    /\ \E S \in {Ordinal} \cup {{i} : i \in Ordinal} :
          /\ \E i \in S : pods[i] # "none"
          /\ pods' = [i \in Ordinal |-> IF i \in S THEN "none" ELSE pods[i]]
    /\ UNCHANGED <<conf, podLabels, pvcLabels, want, formed, data, sts, pvcs, pdb, excluded, worker>>
-----------------------------------------------------------------------------
ReconcileNodeStatefulSet ==
    \/ StartPass \/ EnsureCreated \/ Look \/ DeleteAndWait \/ CreateParallel \/ AwaitPods \/ EndRecovery \/ HandlePDB
    \/ KeepVolumes \/ DeleteForVolumes \/ ResizeVolume \/ UpdateOrphanedPodLabels \/ Present \/ Recreate \/ Scale

Next ==
    \/ ReconcileNodeStatefulSet \/ PassFails \/ Edit \/ StatefulSetGone
    \/ \E i \in Ordinal : MakePod(i) \/ RemovePod(i) \/ PodReady(i)
    \/ Forms \/ MoveShards \/ LosePods

\* Passes are repeated (the controller requeues every 30 seconds); Kubernetes and the nodes go on.
Fairness ==
    /\ WF_vars(ReconcileNodeStatefulSet) /\ WF_vars(StatefulSetGone)
    /\ WF_vars(\E i \in Ordinal : MakePod(i)) /\ WF_vars(\E i \in Ordinal : RemovePod(i))
    /\ WF_vars(\E i \in Ordinal : PodReady(i)) /\ WF_vars(Forms) /\ SF_vars(MoveShards)

Spec == Init /\ [][Next]_vars /\ Fairness
-----------------------------------------------------------------------------
\* The StatefulSet becomes what the resource asks for, all its pods are ready, and recovery is over.
\* It does not when the budget for disruptions is not valid, when the pods were lost during an upgrade or
\* with recovery switched off, nor when they were lost while the pool was to grow: recovery takes the
\* missing volumes of the new replicas for a sign that nothing is wrong, and does not count the volumes of
\* before the migration.  Nor does it when a pod kept its old labels since a step failed.
Stuck ==
    \/ want.pdb = "invalid"
    \/ disturbed /\ \E i \in Ordinal : pods[i] # "none" /\ podLabels[i] = "old"
    \/ /\ events > 0 /\ ~AllReady
       /\ ~conf.parallelRecovery \/ conf.upgrading \/ want.size = 0 \/ PVCCount < want.replicas
Settles ==
    <>[](Stuck \/ (sts = NewSTSForNodePool(want) /\ AllReady /\ pdb = (want.pdb = "valid")))

\* All volumes get at least the size that the resource asks for, unless an edit, a failure or a loss came
\* while the pool was being changed: the StatefulSet may then be created with the new size before the
\* volumes were resized, and nothing resizes them later.  Nor are the volumes of removed replicas resized,
\* which are used again when the pool grows.  (A pod that was made with an emptyDir has no volume yet.)
VolumesAreResized ==
    <>[](Stuck \/ disturbed \/ want.size = 0 \/ \A i \in Members : pvcs[i] = 0 \/ pvcs[i] >= want.size)

\* A node that holds shards is not taken out of the StatefulSet.
DrainsFirst == formed /\ sts # None => \A i \in data : i < sts.replicas
=============================================================================
