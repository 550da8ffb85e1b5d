---------------------------- MODULE ScalerProofs ----------------------------
(* Theorems about Scaler, for every number of pools, replicas, edits and faults. *)
EXTENDS Scaler, WellFoundedInduction, TLAPS

(* What the operations on the list of component statuses return, for lists of any length. *)

\* A non-empty set of positions has a first one.
LEMMA FirstIsMember ==
    ASSUME NEW S \in SUBSET Nat, S # {}
    PROVE  First(S) \in S /\ \A j \in S : First(S) <= j
<1>1. PICK m \in S : \A j \in S : ~(<<j, m>> \in OpToRel(<, Nat))
  BY NatLessThanWellFounded, WFMin, Zenon
<1>2. OpToRel(<, Nat) = {ss \in Nat \X Nat : ss[1] < ss[2]}
  BY Zenon DEF OpToRel
<1>3. \A j \in S : m <= j
  <2> SUFFICES ASSUME NEW j \in S, ~(m <= j) PROVE FALSE
    OBVIOUS
  <2>1. <<j, m>> \in {ss \in Nat \X Nat : ss[1] < ss[2]}
    OBVIOUS
  <2> QED
    BY <1>1, <1>2, <2>1, Zenon
<1> QED
  BY <1>3, Zenon DEF First

LEMMA EqualAtPositions ==
    ASSUME NEW S, NEW list \in Seq(S), NEW ss, EqualAt(ss, list) # {}
    PROVE  First(EqualAt(ss, list)) \in 1..Len(list)
<1>1. EqualAt(ss, list) \in SUBSET Nat
  BY DEF EqualAt
<1>2. First(EqualAt(ss, list)) \in EqualAt(ss, list)
  BY <1>1, FirstIsMember
<1> QED
  BY <1>2 DEF EqualAt

LEMMA RemoveItType ==
    ASSUME NEW S, NEW list \in Seq(S), NEW ss
    PROVE  RemoveIt(ss, list) \in Seq(S)
<1>1. CASE EqualAt(ss, list) = {}
  BY <1>1 DEF RemoveIt
<1>2. CASE EqualAt(ss, list) # {}
  <2> DEFINE i == First(EqualAt(ss, list))
  <2>1. i \in 1..Len(list)
    BY <1>2, EqualAtPositions
  <2> HIDE DEF i
  <2>2. Len(list) \in Nat /\ Len(list) - 1 \in Nat /\ list \in [1..Len(list) -> S]
    BY <2>1
  <2>3. Without(i, list) \in [1..(Len(list) - 1) -> S]
    BY <2>1, <2>2 DEF Without
  <2>4. Without(i, list) \in Seq(S)
    BY <2>2, <2>3
  <2> QED
    BY <1>2, <2>4 DEF RemoveIt, i
<1> QED
  BY <1>1, <1>2

LEMMA ReplaceType ==
    ASSUME NEW S, NEW list \in Seq(S), NEW ss, NEW add \in S
    PROVE  Replace(ss, add, list) \in Seq(S)
<1>1. RemoveIt(ss, list) \in Seq(S)
  BY RemoveItType
<1> QED
  BY <1>1 DEF Replace

LEMMA SliceAfterRemoveItType ==
    ASSUME NEW S, NEW list \in Seq(S), NEW ss
    PROVE  SliceAfterRemoveIt(ss, list) \in Seq(S)
<1>1. CASE EqualAt(ss, list) = {}
  BY <1>1 DEF SliceAfterRemoveIt
<1>2. CASE EqualAt(ss, list) # {}
  <2> DEFINE i == First(EqualAt(ss, list))
             f == [j \in 1..Len(list) |-> IF j < i \/ j = Len(list) THEN list[j] ELSE list[j + 1]]
  <2>1. i \in 1..Len(list)
    BY <1>2, EqualAtPositions
  <2> HIDE DEF i
  <2>2. Len(list) \in Nat /\ list \in [1..Len(list) -> S]
    BY <2>1
  <2>3. f \in [1..Len(list) -> S]
    BY <2>1, <2>2
  <2>4. SliceAfterRemoveIt(ss, list) = f
    BY <1>2 DEF SliceAfterRemoveIt, i
  <2> HIDE DEF f
  <2>5. f \in Seq(S)
    BY <2>2, <2>3
  <2> QED
    BY <2>4, <2>5
<1> QED
  BY <1>1, <1>2

LEMMA SliceAfterReplaceType ==
    ASSUME NEW S, NEW list \in Seq(S), NEW ss, NEW add \in S
    PROVE  SliceAfterReplace(ss, add, list) \in Seq(S)
<1>1. Replace(ss, add, list) \in Seq(S)
  BY ReplaceType
<1> QED
  BY <1>1 DEF SliceAfterReplace

-----------------------------------------------------------------------------
(* The invariant of types and of what the worker relies on. *)

\* The fields of an entry.
LEMMA EntryFields ==
    ASSUME NEW e \in Entries
    PROVE  /\ e.component = "Scaler" /\ e.description \in Pool
           /\ e.status \in {"Running", "Waiting", "Excluded", "Drained"}
           /\ e.status \in Draining => e.conditions \in Node /\ e.conditions[1] = e.description
BY DEF Entries, Entry, Node, Draining

USE DEF AppendExcludeNodeHost, RemoveExcludeNodeHost, HasShardsOnNode

LEMMA EntryIn ==
    /\ \A p \in Pool, st \in {"Running", "Waiting"} : Entry(p, st, NoNode) \in Entries
    /\ \A p \in Pool, o \in 0..(MaxReplicas - 1), st \in {"Excluded", "Drained"} :
          Entry(p, st, ReplicaHostName(p, o)) \in Entries
    /\ NoEntry \in Entries
<1>1. \A p \in Pool, st \in {"Running", "Waiting"} : Entry(p, st, NoNode) \in Entries
  BY DEF Entries, Entry
<1>2. \A p \in Pool, o \in 0..(MaxReplicas - 1), st \in {"Excluded", "Drained"} :
          Entry(p, st, ReplicaHostName(p, o)) \in Entries
  BY DEF Entries, Entry, ReplicaHostName
<1>3. NodePools[1] \in Pool
  BY ScalerAssumption DEF Pool
<1>4. NoEntry \in Entries
  BY <1>1, <1>3 DEF NoEntry
<1> QED
  BY <1>1, <1>2, <1>4

\* From exclusion on, an entry carries the name of a node.
LEMMA TargetOfEntry ==
    ASSUME NEW e \in Entries, e.status \in {"Excluded", "Drained"}
    PROVE  e.conditions \in Node
<1>1. CASE e \in {Entry(p, st, NoNode) : p \in Pool, st \in {"Running", "Waiting"}}
  BY <1>1 DEF Entry
<1>2. CASE e \in {Entry(p, st, <<p, o>>) :
                   p \in Pool, o \in 0..(MaxReplicas - 1), st \in {"Excluded", "Drained"}}
  BY <1>2 DEF Entry, Node
<1> QED
  BY <1>1, <1>2 DEF Entries

LEMMA CurrentPoolType ==
    ASSUME TypeOK, todo # {}
    PROVE  /\ First(todo) \in todo
           /\ CurrentPool \in Pool
           /\ Rest \subseteq 1..Len(NodePools)
<1>1. todo \in SUBSET Nat
  BY ScalerAssumption DEF TypeOK
<1>2. First(todo) \in todo
  BY <1>1, FirstIsMember
<1>3. First(todo) \in 1..Len(NodePools)
  BY <1>2, Zenon DEF TypeOK
<1> QED
  BY <1>2, <1>3, Zenon DEF CurrentPool, Pool, Rest, TypeOK

LEMMA CurrentStatusType ==
    ASSUME TypeOK, NEW p \in Pool
    PROVE  CurrentStatus(p).entry \in Entries
<1> DEFINE item == Entry(p, "Running", NoNode)
           at == {i \in 1..Len(inst.status) : GetByDescriptionAndComponent(inst.status[i], item)}
<1>1. item \in Entries
  BY EntryIn
<1>2. inst.status \in Seq(Entries)
  BY DEF TypeOK
<1>3. CASE at = {}
  BY <1>1, <1>3 DEF CurrentStatus, FindFirstPartial
<1>4. CASE at # {}
  <2>1. at \in SUBSET Nat
    OBVIOUS
  <2>2. First(at) \in at
    BY <1>4, <2>1, FirstIsMember, Zenon
  <2>3. First(at) \in 1..Len(inst.status)
    BY <2>2, Zenon
  <2> HIDE DEF at
  <2>4. inst.status[First(at)] \in Entries
    BY <1>2, <2>3
  <2> USE DEF at
  <2> QED
    BY <1>4, <2>4 DEF CurrentStatus, FindFirstPartial
<1> QED
  BY <1>3, <1>4

LEMMA NoNodeIsNoNode == NoNode \notin Node
<1>1. 0..(MaxReplicas - 1) \subseteq -1..(MaxReplicas - 1)
  BY ScalerAssumption
<1>2. Node \subseteq Name
  BY <1>1 DEF Node, Name
<1> QED
  BY <1>2, ScalerAssumption

\* A number of replicas is not less than itself; what a difference of two says of them.
LEMMA NotLessThanItself == \A n \in 0..MaxReplicas : ~(n < n)
BY ScalerAssumption

LEMMA InitIInv == Init => IInv
<1> SUFFICES ASSUME Init PROVE IInv
  OBVIOUS
<1>1. TypeOK
  <2>1. replicas \in [Pool -> 0..MaxReplicas]
    BY ScalerAssumption DEF Init
  <2>2. pods \in [Node -> {"absent", "starting", "ready", "terminating"}]
    BY DEF Init
  <2>3. inst \in [listed : SUBSET Pool, replicas : [Pool -> 0..MaxReplicas], status : Seq(Entries)]
    <3>1. [p \in Pool |-> 0] \in [Pool -> 0..MaxReplicas]
      BY ScalerAssumption
    <3> QED
      BY <3>1 DEF Init, NoInstance
  <2>4. edits \in 0..MaxEdits /\ faults \in 0..MaxFaults
    BY ScalerAssumption DEF Init
  <2> QED
    BY <2>1, <2>2, <2>3, <2>4, EntryIn DEF Init, TypeOK
<1>2. NodePools[1] \in listed
  BY ScalerAssumption DEF Init, Pool
<1> QED
  BY <1>1, <1>2 DEF Init, IInv, PoolSteps, RemovalSteps

\* The invariant is inductive.  The first steps are about the moves of the worker and the bounds,
\* then there is one for every group of actions.
LEMMA NextKeepsIInv ==
    IInv /\ [Next]_vars => IInv'
\* Between pools and between passes the worker relies on nothing but the pools left to visit.
<1>BetweenPools.
      ASSUME TypeOK', (listed # {})',
             \/ (pc \in {"idle", "cleanup"})'
             \/ (pc \in {"clean", "pool"} /\ todo # {} /\ \A i \in todo : NodePools[i] \in inst.listed)'
             \/ (pc = "removeSts" /\ todo # {} /\ \A i \in todo : NodePools[i] \notin inst.listed)'
      PROVE  IInv'
  BY <1>BetweenPools DEF IInv, PoolSteps, RemovalSteps
<1>NextPoolStep.
      ASSUME IInv, pc \in PoolSteps, NextPool, inst'.listed = inst.listed
      PROVE  /\ todo' \subseteq 1..Len(NodePools)
             /\ pc' \in {"cleanup", "pool"}
             /\ pc' = "pool" => todo' # {} /\ \A i \in todo' : NodePools[i] \in inst'.listed
  BY <1>NextPoolStep, CurrentPoolType DEF IInv, NextPool, Rest
<1>EndPassStep.
      ASSUME EndPass
      PROVE  /\ todo' \subseteq 1..Len(NodePools)
             /\ pc' = "idle" /\ cur' \in Entries
             /\ inst' \in [listed : SUBSET Pool, replicas : [Pool -> 0..MaxReplicas],
                          status : Seq(Entries)]
  <2> USE <1>EndPassStep
  <2>1. [p \in Pool |-> 0] \in [Pool -> 0..MaxReplicas]
    BY ScalerAssumption
  <2>2. <<>> \in Seq(Entries)
    OBVIOUS
  <2> QED
    BY <2>1, <2>2, EntryIn DEF EndPass, NoInstance
<1>NextObsoleteStep.
      ASSUME IInv, pc \in RemovalSteps, NextObsolete
      PROVE  /\ todo' \subseteq 1..Len(NodePools)
             /\ cur' \in Entries
             /\ inst' \in [listed : SUBSET Pool, replicas : [Pool -> 0..MaxReplicas],
                          status : Seq(Entries)]
             /\ \/ pc' = "idle"
                \/ pc' = "removeSts" /\ todo' # {} /\ \A i \in todo' : NodePools[i] \notin inst'.listed
  <2> USE <1>NextObsoleteStep
  <2>1. CASE Rest = {}
    BY <2>1, <1>EndPassStep DEF NextObsolete
  <2>2. CASE Rest # {}
    <3>1. pc' = "removeSts" /\ todo' = Rest /\ UNCHANGED <<cur, inst>>
      BY <2>2 DEF NextObsolete
    <3> QED
      BY <2>2, <3>1, CurrentPoolType DEF IInv, Rest, TypeOK
  <2> QED
    BY <2>1, <2>2
<1>EditBound.
      ASSUME TypeOK, Edit
      PROVE  edits' \in 0..MaxEdits
  BY <1>EditBound, ScalerAssumption DEF TypeOK, Edit
<1>FaultBound.
      ASSUME TypeOK, Fault \/ NoFault
      PROVE  faults' \in 0..MaxFaults
  BY <1>FaultBound, ScalerAssumption, SMTT(60) DEF TypeOK, Fault, NoFault
<1>LastReplicaIsNode.
      ASSUME NEW p \in Pool, sts[p] \in 0..MaxReplicas, LastReplica(p) \in Node
      PROVE  sts[p] > 0
  <2> USE <1>LastReplicaIsNode
  <2>1. <<p, sts[p] - 1>> \in Pool \X (0..(MaxReplicas - 1))
    BY DEF LastReplica, ReplicaHostName, Node
  <2>2. sts[p] - 1 \in 0..(MaxReplicas - 1)
    BY <2>1
  <2> QED
    BY <2>2, ScalerAssumption
<1>LastReplicaType.
      ASSUME TypeOK, NEW p \in Pool
      PROVE  /\ LastReplica(p) \in Name
             /\ sts[p] > 0 => sts[p] - 1 \in 0..(MaxReplicas - 1)
  <2> USE <1>LastReplicaType
  <2>1. sts[p] \in 0..MaxReplicas
    BY DEF TypeOK
  <2>2. sts[p] - 1 \in -1..(MaxReplicas - 1)
    BY <2>1, ScalerAssumption
  <2>3. <<p, sts[p] - 1>> \in Name
    BY <2>2 DEF Name
  <2> QED
    BY <2>1, <2>3, ScalerAssumption DEF LastReplica, ReplicaHostName
\* A step that leaves the worker and the StatefulSets alone, and gives no shard to an excluded node,
\* disturbs nothing that the worker relies on.
<1>WorkerUndisturbed.
      ASSUME IInv, TypeOK', listed' # {}, UNCHANGED <<sts, pc, inst, todo, excluded>>,
             shards' \cap excluded \subseteq shards
      PROVE  IInv'
  <2> USE <1>WorkerUndisturbed
  <2>1. CurrentPool' = CurrentPool /\ LastReplica(CurrentPool)' = LastReplica(CurrentPool)
    BY DEF CurrentPool, LastReplica
  <2>2. /\ pc \in {"removeCheck", "removeShrink"} => LastReplica(CurrentPool) \in excluded
        /\ pc = "removeShrink" => LastReplica(CurrentPool) \notin shards
    BY DEF IInv
  <2>3. pc = "removeShrink" => LastReplica(CurrentPool) \notin shards'
    BY <2>2
  <2>4. /\ pc = "increase" => sts[CurrentPool] < inst.replicas[CurrentPool]
        /\ pc \in {"exclude", "setExcluded", "setDrained", "decrease"} => sts[CurrentPool] > 0
    BY DEF IInv
  <2> QED
    BY <2>1, <2>2, <2>3, <2>4 DEF IInv
\* The user and the cluster leave the worker, the status and the StatefulSets alone; a shard
\* never goes to an excluded node.
<1>AroundKeepsIInv.
      ASSUME IInv, User \/ Cluster \/ UNCHANGED vars
      PROVE  IInv'
  <2> USE <1>AroundKeepsIInv
  <2>1. CASE UserChangesConfig
    <3>1. TypeOK'
      BY <2>1, <1>EditBound, Zenon DEF IInv, TypeOK, UserChangesConfig, worker
    <3> QED
      BY <2>1, <3>1, <1>WorkerUndisturbed DEF IInv, UserChangesConfig, worker
  <2>2. ASSUME NEW p \in Pool, UserScales(p) PROVE IInv'
    <3>1. edits' \in 0..MaxEdits
      BY <2>2, <1>EditBound DEF IInv, UserScales
    <3>2. replicas' \in [Pool -> 0..MaxReplicas]
      BY <2>2, ScalerAssumption DEF IInv, TypeOK, UserScales
    <3>3. TypeOK'
      BY <2>2, <3>1, <3>2, Zenon DEF IInv, TypeOK, UserScales, worker
    <3> QED
      BY <2>2, <3>3, <1>WorkerUndisturbed DEF IInv, UserScales, worker
  <2>3. ASSUME NEW p \in Pool, UserRemovesPool(p) PROVE IInv'
    <3>1. edits' \in 0..MaxEdits
      BY <2>3, <1>EditBound DEF IInv, UserRemovesPool
    <3>2. listed' # {} /\ listed' \subseteq Pool
      BY <2>3 DEF IInv, TypeOK, UserRemovesPool, MayEdit
    <3>3. UNCHANGED <<replicas, smart, present, sts, pods, updated, status, excluded, shards,
                      pc, inst, todo, cur, faults>>
      BY <2>3 DEF UserRemovesPool, worker
    <3>4. TypeOK'
      BY <3>1, <3>2, <3>3, Zenon DEF IInv, TypeOK
    <3> QED
      BY <3>2, <3>3, <3>4, <1>WorkerUndisturbed
  <2>4. ASSUME NEW n \in Node, CreatePod(n) PROVE IInv'
    <3>1. TypeOK'
      BY <2>4 DEF IInv, TypeOK, CreatePod, Elsewhere, worker
    <3> QED
      BY <2>4, <3>1, <1>WorkerUndisturbed DEF IInv, CreatePod, Elsewhere, worker
  <2>5. ASSUME NEW n \in Node, PodBecomesReady(n) PROVE IInv'
    <3>1. TypeOK'
      BY <2>5 DEF IInv, TypeOK, PodBecomesReady, Elsewhere, worker
    <3> QED
      BY <2>5, <3>1, <1>WorkerUndisturbed DEF IInv, PodBecomesReady, Elsewhere, worker
  <2>6. ASSUME NEW n \in Node, TerminatePod(n) PROVE IInv'
    <3>1. TypeOK'
      BY <2>6 DEF IInv, TypeOK, TerminatePod, Elsewhere, worker
    <3> QED
      BY <2>6, <3>1, <1>WorkerUndisturbed DEF IInv, TerminatePod, Elsewhere, worker
  <2>7. ASSUME NEW n \in Node, PodGone(n) PROVE IInv'
    <3>1. TypeOK'
      BY <2>7 DEF IInv, TypeOK, PodGone, Elsewhere, worker
    <3> QED
      BY <2>7, <3>1, <1>WorkerUndisturbed DEF IInv, PodGone, Elsewhere, worker
  <2>8. ASSUME NEW n \in Node, PodFails(n) PROVE IInv'
    <3>1. TypeOK'
      BY <2>8, <1>FaultBound, Zenon DEF IInv, TypeOK, PodFails, Elsewhere, worker
    <3> QED
      BY <2>8, <3>1, <1>WorkerUndisturbed DEF IInv, PodFails, Elsewhere, worker
  <2>9. ASSUME NEW n \in Node, RestartPod(n) PROVE IInv'
    <3>1. TypeOK'
      BY <2>9 DEF IInv, TypeOK, RestartPod, Elsewhere, worker
    <3> QED
      BY <2>9, <3>1, <1>WorkerUndisturbed DEF IInv, RestartPod, Elsewhere, worker
  <2>10. ASSUME NEW n \in Node, MoveShards(n) PROVE IInv'
    <3>1. TypeOK'
      BY <2>10 DEF IInv, TypeOK, MoveShards, Members, Elsewhere, worker
    <3> QED
      BY <2>10, <3>1, <1>WorkerUndisturbed DEF IInv, MoveShards, Elsewhere, worker
  <2>11. ASSUME NEW n \in Node, AllocateShard(n) PROVE IInv'
    <3>1. TypeOK'
      BY <2>11 DEF IInv, TypeOK, AllocateShard, Members, Elsewhere, worker
    <3> QED
      BY <2>11, <3>1, <1>WorkerUndisturbed DEF IInv, AllocateShard, Elsewhere, worker
  <2>12. CASE UNCHANGED vars
    <3>1. TypeOK'
      BY <2>12 DEF IInv, TypeOK, vars
    <3> QED
      BY <2>12, <3>1, <1>WorkerUndisturbed DEF IInv, vars
  <2> QED
    BY <2>1, <2>2, <2>3, <2>4, <2>5, <2>6, <2>7, <2>8, <2>9, <2>10, <2>11, <2>12
    DEF User, Cluster
\* Passes begin and end, and exclusions are cleaned.
<1>PassKeepsIInv.
      ASSUME IInv,
             \/ StartPass \/ CleanStaleExclusionList \/ CleanStaleExclusionListFails \/ CleanSkipped
             \/ PoolFails \/ CleanupStatefulSets \/ RemovalFails \/ Crash
      PROVE  IInv'
  <2> USE <1>PassKeepsIInv
  <2> USE DEF kube
  <2>1. CASE StartPass
    <3>1. TypeOK'
      BY <2>1 DEF IInv, TypeOK, StartPass
    <3>2. todo' # {}
      <4>1. PICK p \in listed : TRUE
        BY DEF IInv
      <4>2. PICK i \in 1..Len(NodePools) : NodePools[i] = p
        BY DEF IInv, TypeOK, Pool
      <4> QED
        BY <2>1, <4>2 DEF StartPass
    <3> QED
      BY <2>1, <3>1, <3>2, <1>BetweenPools DEF IInv, StartPass
  <2>2. CASE CleanStaleExclusionList
    <3>1. TypeOK'
      BY <2>2 DEF IInv, TypeOK, CleanStaleExclusionList, NoFault
    <3> QED
      BY <2>2, <3>1, <1>BetweenPools DEF IInv, PoolSteps, CleanStaleExclusionList
  <2>3. CASE CleanStaleExclusionListFails
    <3>1. TypeOK'
      BY <2>3, <1>EndPassStep, <1>FaultBound, Zenon DEF IInv, TypeOK, CleanStaleExclusionListFails
    <3> QED
      BY <2>3, <3>1, <1>EndPassStep, <1>BetweenPools DEF IInv, CleanStaleExclusionListFails
  <2>4. CASE CleanSkipped
    <3>1. TypeOK'
      BY <2>4, <1>FaultBound DEF IInv, TypeOK, CleanSkipped
    <3> QED
      BY <2>4, <3>1, <1>BetweenPools DEF IInv, PoolSteps, CleanSkipped
  <2>5. CASE PoolFails
    <3>1. /\ todo' \subseteq 1..Len(NodePools)
          /\ pc' \in {"cleanup", "pool"}
          /\ pc' = "pool" => todo' # {} /\ \A i \in todo' : NodePools[i] \in inst'.listed
      BY <2>5, <1>NextPoolStep DEF PoolFails, PoolSteps
    <3>2. TypeOK'
      BY <2>5, <3>1, <1>FaultBound, Zenon DEF IInv, TypeOK, PoolFails
    <3> QED
      BY <2>5, <3>1, <3>2, <1>BetweenPools DEF IInv, PoolFails
  <2>6. CASE CleanupStatefulSets
    <3> DEFINE obsolete == {i \in 1..Len(NodePools) : NodePools[i] \in present \ inst.listed}
    <3>1. CASE EndPass
      <4>1. TypeOK'
        BY <2>6, <3>1, <1>EndPassStep DEF IInv, TypeOK, CleanupStatefulSets, NoFault
      <4> QED
        BY <2>6, <3>1, <4>1, <1>EndPassStep, <1>BetweenPools DEF IInv, CleanupStatefulSets
    <3>2. CASE obsolete # {} /\ pc' = "removeSts" /\ todo' = obsolete /\ UNCHANGED <<cur, inst>>
      <4>1. TypeOK'
        BY <2>6, <3>2, Zenon DEF IInv, TypeOK, CleanupStatefulSets, NoFault
      <4> QED
        BY <2>6, <3>2, <4>1, <1>BetweenPools DEF IInv, CleanupStatefulSets
    <3> QED
      BY <2>6, <3>1, <3>2 DEF CleanupStatefulSets
  <2>7. CASE RemovalFails
    <3>1. TypeOK'
      BY <2>7, <1>NextObsoleteStep, <1>FaultBound, Zenon DEF IInv, TypeOK, RemovalFails, RemovalSteps
    <3> QED
      BY <2>7, <3>1, <1>NextObsoleteStep, <1>BetweenPools DEF IInv, RemovalFails, RemovalSteps
  <2>8. CASE Crash
    <3>1. TypeOK'
      BY <2>8, <1>EndPassStep, <1>FaultBound, Zenon DEF IInv, TypeOK, Crash
    <3> QED
      BY <2>8, <3>1, <1>EndPassStep, <1>BetweenPools DEF IInv, Crash
  <2> QED
    BY <2>1, <2>2, <2>3, <2>4, <2>5, <2>6, <2>7, <2>8
\* removeStatefulSet: between the exclusion of the last node and its removal nothing else
\* touches the StatefulSet, and no shard comes back.
<1>RemovalKeepsIInv.
      ASSUME IInv, NEW p \in Pool, RemoveStatefulSet(p)
      PROVE  IInv'
  <2> USE <1>RemovalKeepsIInv
  <2> USE DEF kube, RemovalSteps
  <2>1. CASE RemoveUndrained(p)
    <3>1. sts' \in [Pool -> 0..MaxReplicas] /\ present' \subseteq Pool
      BY <2>1, ScalerAssumption, SMTT(60) DEF IInv, TypeOK, RemoveUndrained
    <3>2. TypeOK'
      BY <2>1, <3>1, <1>NextObsoleteStep, Zenon DEF IInv, TypeOK, RemoveUndrained, NoFault
    <3> QED
      BY <2>1, <3>2, <1>NextObsoleteStep, <1>BetweenPools DEF IInv, RemoveUndrained
  <2>2. CASE RemovalExclude(p)
    <3>1. LastReplica(p) \in Name
      BY <1>LastReplicaType DEF IInv
    <3>2. CASE NoFault /\ pc' = "removeCheck" /\ UNCHANGED <<todo, cur, inst>>
      BY <2>2, <3>1, <3>2, Zenon
      DEF IInv, TypeOK, RemovalExclude, NoFault, PoolSteps, CurrentPool, LastReplica
    <3>3. CASE Fault /\ NextObsolete
      <4>1. TypeOK'
        BY <2>2, <3>1, <3>3, <1>NextObsoleteStep, <1>FaultBound, Zenon DEF IInv, TypeOK, RemovalExclude
      <4> QED
        BY <2>2, <3>3, <4>1, <1>NextObsoleteStep, <1>BetweenPools DEF IInv, RemovalExclude
    <3> QED
      BY <2>2, <3>2, <3>3 DEF RemovalExclude, RemovalGoesOn
  <2>3. CASE RemovalCheck(p)
    <3>1. CASE LastReplica(p) \in shards
      <4>1. TypeOK'
        BY <2>3, <3>1, <1>NextObsoleteStep, Zenon DEF IInv, TypeOK, RemovalCheck, NoFault
      <4> QED
        BY <2>3, <3>1, <4>1, <1>NextObsoleteStep, <1>BetweenPools, Zenon DEF IInv, RemovalCheck
    <3>2. CASE LastReplica(p) \notin shards
      BY <2>3, <3>2, Zenon
      DEF IInv, TypeOK, RemovalCheck, NoFault, PoolSteps, CurrentPool, LastReplica
    <3> QED
      BY <3>1, <3>2
  <2>4. CASE RemovalShrink(p)
    <3>1. sts' \in [Pool -> 0..MaxReplicas] /\ present' \subseteq Pool
      BY <2>4, ScalerAssumption, SMTT(60) DEF IInv, TypeOK, RemovalShrink
    <3>2. CASE NoFault /\ pc' = "removeInclude" /\ UNCHANGED <<todo, cur, inst>>
      BY <2>4, <3>1, <3>2, Zenon DEF IInv, TypeOK, RemovalShrink, NoFault, PoolSteps, CurrentPool
    <3>3. CASE Fault /\ NextObsolete
      <4>1. TypeOK'
        BY <2>4, <3>1, <3>3, <1>NextObsoleteStep, <1>FaultBound, Zenon DEF IInv, TypeOK, RemovalShrink
      <4> QED
        BY <2>4, <3>3, <4>1, <1>NextObsoleteStep, <1>BetweenPools, Zenon DEF IInv, RemovalShrink
    <3> QED
      BY <2>4, <3>2, <3>3 DEF RemovalShrink, RemovalGoesOn
  <2>5. CASE RemovalRejected(p)
    <3>1. TypeOK'
      BY <2>5, <1>NextObsoleteStep, Zenon DEF IInv, TypeOK, RemovalRejected, NoFault
    <3> QED
      BY <2>5, <3>1, <1>NextObsoleteStep, <1>BetweenPools DEF IInv, RemovalRejected
  <2>6. CASE RemovalInclude(p)
    <3>1. TypeOK'
      BY <2>6, <1>NextObsoleteStep, Zenon DEF IInv, TypeOK, RemovalInclude, NoFault
    <3> QED
      BY <2>6, <3>1, <1>NextObsoleteStep, <1>BetweenPools, Zenon DEF IInv, RemovalInclude
  <2> QED
    BY <2>1, <2>2, <2>3, <2>4, <2>5, <2>6 DEF RemoveStatefulSet
<1>Differences.
      ASSUME NEW max \in Nat, NEW n \in 0..max, NEW r \in 0..max
      PROVE  (n - r < 0 => n < r) /\ (n - r # 0 /\ ~(n - r < 0) => n > 0)
  BY <1>Differences
\* Counting one up below a bound.
<1>OneMore.
      ASSUME NEW max \in Nat, NEW r \in 0..max, NEW n \in 0..max, n < r
      PROVE  n + 1 \in 0..max
  BY <1>OneMore
\* What GoesOn does to the worker.
<1>GoesOnStep.
      ASSUME IInv, pc \in PoolSteps, NEW next \in PoolSteps, GoesOn(next), UNCHANGED inst
      PROVE  /\ faults' \in 0..MaxFaults
             /\ todo' \subseteq 1..Len(NodePools)
             /\ \/ pc' = next /\ todo' = todo
                \/ pc' = "cleanup"
                \/ pc' = "pool" /\ todo' # {} /\ \A i \in todo' : NodePools[i] \in inst'.listed
  <2> USE <1>GoesOnStep
  <2>1. CASE NoFault /\ pc' = next /\ UNCHANGED todo
    BY <2>1, <1>FaultBound DEF IInv, TypeOK
  <2>2. CASE Fault /\ NextPool
    BY <2>2, <1>FaultBound, <1>NextPoolStep DEF IInv
  <2> QED
    BY <2>1, <2>2 DEF GoesOn
\* reconcileNodePool, its steps that end the work on the pool.
<1>LastStepKeepsIInv.
      ASSUME IInv, NEW p \in Pool,
             \/ NothingToScale(p) \/ SettlePool(p) \/ SettlePoolFaulty(p) \/ IncreaseOneNode(p)
             \/ SetExcluded(p) \/ ResetToRunning(p) \/ SetDrained(p) \/ IncludeNode(p)
      PROVE  IInv'
  <2> USE <1>LastStepKeepsIInv
  <2> DEFINE MovesOn == todo' \subseteq 1..Len(NodePools)
                           /\ pc' \in {"cleanup", "pool"}
                           /\ (pc' = "pool" => todo' # {} /\ \A i \in todo' : NodePools[i] \in inst'.listed)
  <2> USE DEF kube, AtDesiredReplicas, InStage
  <2>0. pc \in PoolSteps /\ NextPool /\ inst'.listed = inst.listed /\ (NoFault \/ Fault)
    BY DEF NothingToScale, SettlePool, SettlePoolFaulty, IncreaseOneNode, SetExcluded,
           ResetToRunning, SetDrained, IncludeNode, Done, PoolSteps, IInv, TypeOK
  <2>a. MovesOn
    BY <2>0, <1>NextPoolStep
  <2>b. faults' \in 0..MaxFaults
    BY <2>0, <1>FaultBound DEF IInv
  <2>c. listed' # {} /\ listed' \subseteq Pool
    BY DEF NothingToScale, SettlePool, SettlePoolFaulty, IncreaseOneNode, SetExcluded,
           ResetToRunning, SetDrained, IncludeNode, IInv, TypeOK
  <2>d. CurrentStatus(p).entry \in Entries /\ Entry(p, "Running", NoNode) \in Entries
        /\ Entry(p, "Waiting", NoNode) \in Entries
    BY CurrentStatusType, EntryIn DEF IInv
  <2>e. ASSUME TypeOK' PROVE IInv'
    BY <2>e, <2>a, <2>c, <1>BetweenPools
  <2> HIDE DEF MovesOn
  <2>f. ASSUME NEW list \in Seq(Entries)
        PROVE  Settled(p, list).new \in Seq(Entries) /\ Settled(p, list).slice \in Seq(Entries)
    BY <2>d, RemoveItType, ReplaceType, SliceAfterRemoveItType, SliceAfterReplaceType, Zenon DEF Settled
  <2>t. todo' \subseteq 1..Len(NodePools) /\ pc' \in {"cleanup", "pool"}
    BY <2>a, Zenon DEF MovesOn
  <2>1. CASE NothingToScale(p)
    BY <2>1, <2>b, <2>e, <2>t, Zenon DEF IInv, TypeOK, NothingToScale
  <2>2. CASE SettlePool(p)
    <3>1. status' \in Seq(Entries)
      BY <2>2, <2>f DEF IInv, TypeOK, SettlePool
    <3>2. inst' \in [listed : SUBSET Pool, replicas : [Pool -> 0..MaxReplicas], status : Seq(Entries)]
      BY <2>2, <2>f, Zenon DEF IInv, TypeOK, SettlePool
    <3> QED
      BY <2>2, <2>b, <2>e, <2>t, <3>1, <3>2, Zenon DEF IInv, TypeOK, SettlePool
  <2>3. CASE SettlePoolFaulty(p)
    <3> DEFINE first == Settled(p, inst.status).slice
    <3>0. first \in Seq(Entries)
      BY <2>f DEF IInv, TypeOK
    <3> HIDE DEF first
    <3>1. Settled(p, first).new \in Seq(Entries) /\ Settled(p, first).slice \in Seq(Entries)
      BY <3>0, <2>f
    <3>2. \/ inst' = [inst EXCEPT !.status = first] /\ UNCHANGED status
          \/ /\ status' = Settled(p, first).new
             /\ inst' = [inst EXCEPT !.status = Settled(p, first).slice]
      BY <2>3 DEF SettlePoolFaulty, first
    <3>3. status' \in Seq(Entries)
      BY <3>1, <3>2 DEF IInv, TypeOK
    <3>4. PICK list \in Seq(Entries) : inst' = [inst EXCEPT !.status = list]
      BY <3>0, <3>1, <3>2
    <3>5. inst' \in [listed : SUBSET Pool, replicas : [Pool -> 0..MaxReplicas], status : Seq(Entries)]
      BY <3>4, Zenon DEF IInv, TypeOK
    <3> QED
      BY <2>3, <2>b, <2>e, <2>t, <3>3, <3>5, Zenon DEF IInv, TypeOK, SettlePoolFaulty
  <2>4. CASE IncreaseOneNode(p)
    <3>1. sts[p] < inst.replicas[p] /\ inst.replicas[p] \in 0..MaxReplicas /\ sts[p] \in 0..MaxReplicas
      BY <2>4 DEF IInv, TypeOK, IncreaseOneNode
    <3>2. sts[p] + 1 \in 0..MaxReplicas
      BY <3>1, <1>OneMore, ScalerAssumption, Zenon
    <3>3. sts' \in [Pool -> 0..MaxReplicas]
      BY <2>4, <3>2 DEF IInv, TypeOK, IncreaseOneNode
    <3> QED
      BY <2>4, <2>b, <2>e, <2>t, <3>3, Zenon DEF IInv, TypeOK, IncreaseOneNode
  <2>5. CASE SetExcluded(p)
    <3>1. Entry(p, "Excluded", LastReplica(p)) \in Entries
      BY <2>5, <1>LastReplicaType, EntryIn, Zenon DEF IInv, SetExcluded, LastReplica
    <3>2. status' \in Seq(Entries)
      BY <2>5, <3>1, ReplaceType DEF IInv, TypeOK, SetExcluded
    <3> QED
      BY <2>5, <2>b, <2>e, <2>t, <3>2, Zenon DEF IInv, TypeOK, SetExcluded
  <2>6. CASE ResetToRunning(p)
    <3>1. status' \in Seq(Entries)
      BY <2>6, <2>d, ReplaceType, Zenon DEF IInv, TypeOK, ResetToRunning
    <3> QED
      BY <2>6, <2>b, <2>e, <2>t, <3>1, Zenon DEF IInv, TypeOK, ResetToRunning
  <2>7. CASE SetDrained(p)
    <3>1. Entry(p, "Drained", LastReplica(p)) \in Entries
      BY <2>7, <1>LastReplicaType, EntryIn, Zenon DEF IInv, SetDrained, LastReplica
    <3>2. status' \in Seq(Entries)
      BY <2>7, <3>1, ReplaceType DEF IInv, TypeOK, SetDrained
    <3> QED
      BY <2>7, <2>b, <2>e, <2>t, <3>2, Zenon DEF IInv, TypeOK, SetDrained
  <2>8. CASE IncludeNode(p)
    BY <2>8, <2>b, <2>e, <2>t, Zenon DEF IInv, TypeOK, IncludeNode
  <2> QED
    BY <2>1, <2>2, <2>3, <2>4, <2>5, <2>6, <2>7, <2>8
\* reconcileNodePool, its steps after which the work on the pool goes on.
<1>StepKeepsIInv.
      ASSUME IInv, NEW p \in Pool,
             \/ StartScaling(p) \/ ExcludeNode(p) \/ WatchDrain(p) \/ DecreaseOneNode(p)
             \/ DropStatus(p)
      PROVE  IInv'
  <2> USE <1>StepKeepsIInv
  <2> USE DEF kube, InStage
  <2>0. pc \in PoolSteps /\ p = CurrentPool /\ todo # {} /\ (\A i \in todo : NodePools[i] \in inst.listed)
        /\ UNCHANGED inst /\ sts[p] \in 0..MaxReplicas /\ inst.replicas[p] \in 0..MaxReplicas
    BY Zenon DEF StartScaling, ExcludeNode, WatchDrain, DecreaseOneNode, DropStatus, PoolSteps, IInv, TypeOK
  <2>1. CurrentStatus(p).entry \in Entries /\ Entry(p, "Running", NoNode) \in Entries
    BY CurrentStatusType, EntryIn, Zenon DEF IInv
  <2>2. CASE StartScaling(p)
    <3> DEFINE next == IF DesireReplicaDiff(p) < 0 THEN "increase"
                       ELSE IF smart THEN "exclude" ELSE "decrease"
    <3>1. status' \in Seq(Entries) /\ cur' \in Entries
      BY <2>1, <2>2, ReplaceType, Zenon DEF IInv, TypeOK, StartScaling
    <3>2. next \in {"increase", "exclude", "decrease"}
      OBVIOUS
    <3>3. next = "increase" => sts[p] < inst.replicas[p]
      <4>1. next = "increase" => DesireReplicaDiff(p) < 0
        OBVIOUS
      <4>2. DesireReplicaDiff(p) < 0 => sts[p] < inst.replicas[p]
        BY <2>0, <1>Differences, ScalerAssumption, Zenon DEF DesireReplicaDiff
      <4> QED
        BY <4>1, <4>2, Zenon
    <3>4. next \in {"exclude", "decrease"} => sts[p] > 0
      <4>1. DesireReplicaDiff(p) # 0
        BY <2>2, Zenon DEF StartScaling
      <4>2. next # "increase" => ~(DesireReplicaDiff(p) < 0)
        OBVIOUS
      <4>3. ~(DesireReplicaDiff(p) < 0) => sts[p] > 0
        BY <2>0, <4>1, <1>Differences, ScalerAssumption, Zenon DEF DesireReplicaDiff
      <4> QED
        BY <4>2, <4>3
    <3>5. GoesOn(next)
      BY <2>2, Zenon DEF StartScaling
    <3> HIDE DEF next
    <3>6. /\ faults' \in 0..MaxFaults /\ todo' \subseteq 1..Len(NodePools)
          /\ \/ pc' = next /\ todo' = todo
             \/ pc' = "cleanup"
             \/ pc' = "pool" /\ todo' # {} /\ \A i \in todo' : NodePools[i] \in inst'.listed
      BY <2>0, <3>2, <3>5, <1>GoesOnStep, Zenon DEF PoolSteps
    <3>7. TypeOK'
      BY <2>2, <3>1, <3>2, <3>6, Zenon DEF IInv, TypeOK, StartScaling
    <3>8. CASE pc' = next /\ todo' = todo
      BY <2>0, <2>2, <3>2, <3>3, <3>4, <3>7, <3>8, Zenon
      DEF IInv, StartScaling, PoolSteps, RemovalSteps, CurrentPool
    <3>9. CASE \/ pc' = "cleanup"
               \/ pc' = "pool" /\ todo' # {} /\ \A i \in todo' : NodePools[i] \in inst'.listed
      BY <2>2, <3>7, <3>9, <1>BetweenPools, Zenon DEF IInv, StartScaling
    <3> QED
      BY <3>6, <3>8, <3>9, Zenon
  <2>3. CASE ExcludeNode(p)
    <3>1. excluded' \subseteq Name
      BY <2>3, <1>LastReplicaType, Zenon DEF IInv, TypeOK, ExcludeNode
    <3>2. TypeOK'
      BY <2>0, <2>3, <3>1, <1>GoesOnStep, Zenon DEF IInv, TypeOK, ExcludeNode, PoolSteps
    <3>3. CASE pc' = "setExcluded" /\ todo' = todo
      BY <2>0, <2>3, <3>2, <3>3, Zenon DEF IInv, ExcludeNode, PoolSteps, RemovalSteps, CurrentPool
    <3>4. CASE ~(pc' = "setExcluded" /\ todo' = todo)
      BY <2>0, <2>3, <3>2, <3>4, <1>GoesOnStep, <1>BetweenPools, Zenon DEF IInv, ExcludeNode, PoolSteps
    <3> QED
      BY <3>3, <3>4
  <2>4. CASE WatchDrain(p)
    <3>1. CurrentStatus(p).entry.conditions \in {LastReplica(p), NoNode}
      BY <2>4 DEF WatchDrain, TargetIsLast
    <3>2. CurrentStatus(p).entry.conditions \in Node
      BY <2>1, <2>4, TargetOfEntry DEF WatchDrain
    <3>3. LastReplica(p) \in Node
      BY <3>1, <3>2, NoNodeIsNoNode
    <3>4. sts[p] > 0
      BY <2>0, <3>3, <1>LastReplicaIsNode
    <3>5. cur' \in Entries
      BY <2>1, <2>4 DEF WatchDrain
    <3>6. CASE Done
      <4>0. /\ todo' \subseteq 1..Len(NodePools) /\ faults' \in 0..MaxFaults
            /\ pc' \in {"cleanup", "pool"}
            /\ pc' = "pool" => todo' # {} /\ \A i \in todo' : NodePools[i] \in inst'.listed
        BY <2>0, <3>6, <1>NextPoolStep, <1>FaultBound, Zenon DEF IInv, Done
      <4>1. TypeOK'
        BY <2>4, <3>5, <4>0, Zenon DEF IInv, TypeOK, WatchDrain
      <4> QED
        BY <2>4, <4>0, <4>1, <1>BetweenPools, Zenon DEF IInv, WatchDrain
    <3>7. CASE (NoFault \/ Fault) /\ pc' = "setDrained" /\ UNCHANGED todo
      <4>1. TypeOK'
        BY <2>4, <3>5, <3>7, <1>FaultBound, Zenon DEF IInv, TypeOK, WatchDrain
      <4> QED
        BY <2>0, <2>4, <3>4, <3>7, <4>1, Zenon DEF IInv, WatchDrain, PoolSteps, RemovalSteps, CurrentPool
    <3> QED
      BY <2>4, <3>6, <3>7, Zenon DEF WatchDrain
  <2>5. CASE DecreaseOneNode(p)
    <3>1. cur' \in Entries
      BY <2>1, <2>5, Zenon DEF IInv, TypeOK, DecreaseOneNode
    <3>2. sts[p] > 0
      <4>1. CASE InStage(p, "Drained") /\ TargetIsLast(p)
        <5>1. CurrentStatus(p).entry.conditions \in Node
          BY <2>1, <4>1, TargetOfEntry
        <5>2. LastReplica(p) \in Node
          BY <4>1, <5>1, NoNodeIsNoNode DEF TargetIsLast
        <5> QED
          BY <2>0, <5>2, <1>LastReplicaIsNode
      <4>2. CASE pc = "decrease"
        BY <2>0, <4>2 DEF IInv
      <4> QED
        BY <2>5, <4>1, <4>2 DEF DecreaseOneNode
    <3>3. sts[p] - 1 \in 0..MaxReplicas
      BY <2>0, <3>2, ScalerAssumption, SMTT(60)
    <3>4. sts' \in [Pool -> 0..MaxReplicas]
      BY <2>5, <3>3, Zenon DEF IInv, TypeOK, DecreaseOneNode
    <3>5. TypeOK'
      BY <2>0, <2>5, <3>1, <3>4, <1>GoesOnStep, Zenon DEF IInv, TypeOK, DecreaseOneNode, PoolSteps
    <3>6. CASE pc' = "dropStatus" /\ todo' = todo
      BY <2>0, <2>5, <3>5, <3>6, Zenon DEF IInv, DecreaseOneNode, PoolSteps, RemovalSteps
    <3>7. CASE ~(pc' = "dropStatus" /\ todo' = todo)
      BY <2>0, <2>5, <3>5, <3>7, <1>GoesOnStep, <1>BetweenPools, Zenon DEF IInv, DecreaseOneNode, PoolSteps
    <3> QED
      BY <3>6, <3>7
  <2>6. CASE DropStatus(p)
    <3>1. status' \in Seq(Entries)
      BY <2>6, RemoveItType DEF IInv, TypeOK, DropStatus
    <3>2. CASE GoesOn("include")
      <4>1. TypeOK'
        BY <2>0, <2>6, <3>1, <3>2, <1>GoesOnStep, Zenon DEF IInv, TypeOK, DropStatus, PoolSteps
      <4>2. CASE pc' = "include" /\ todo' = todo
        BY <2>0, <2>6, <4>1, <4>2 DEF IInv, DropStatus, PoolSteps, RemovalSteps
      <4>3. CASE ~(pc' = "include" /\ todo' = todo)
        BY <2>0, <2>6, <3>2, <4>1, <4>3, <1>GoesOnStep, <1>BetweenPools, Zenon DEF IInv, DropStatus, PoolSteps
      <4> QED
        BY <4>2, <4>3
    <3>3. CASE Done
      <4>1. TypeOK'
        BY <2>0, <2>6, <3>1, <3>3, <1>NextPoolStep, <1>FaultBound, Zenon DEF IInv, TypeOK, DropStatus, Done
      <4> QED
        BY <2>0, <2>6, <3>3, <4>1, <1>NextPoolStep, <1>BetweenPools, Zenon DEF IInv, DropStatus, Done
    <3> QED
      BY <2>6, <3>2, <3>3 DEF DropStatus
  <2> QED
    BY <2>2, <2>3, <2>4, <2>5, <2>6
<1> SUFFICES ASSUME IInv, [Next]_vars PROVE IInv'
  OBVIOUS
<1>1. ASSUME NEW p \in Pool, ReconcileNodePool(p) PROVE IInv'
  BY <1>1, <1>LastStepKeepsIInv, <1>StepKeepsIInv DEF ReconcileNodePool
<1>2. ASSUME NEW p \in Pool, RemoveStatefulSet(p) PROVE IInv'
  BY <1>2, <1>RemovalKeepsIInv
<1>3. CASE Work
  BY <1>1, <1>2, <1>3, <1>PassKeepsIInv DEF Work
<1>4. CASE Crash
  BY <1>4, <1>PassKeepsIInv
<1>5. CASE User \/ Cluster \/ UNCHANGED vars
  BY <1>5, <1>AroundKeepsIInv
<1> QED
  BY <1>3, <1>4, <1>5 DEF Next

\* The worker never leaves the states the code has names for, whatever calls fail, wherever it
\* crashes and however the user's edits overlap: the replicas it writes stay within those that
\* were asked for, and from exclusion on every status entry names a node (scaler.go).
THEOREM ScalerTypeCorrect == Spec => []TypeOK
<1>1. Init => IInv
  BY InitIInv
<1>2. IInv /\ [Next]_vars => IInv'
  BY NextKeepsIInv
<1>3. IInv => TypeOK
  BY DEF IInv
<1> QED
  BY <1>1, <1>2, <1>3, PTL DEF Spec

\* removeStatefulSet takes a node out of an obsolete StatefulSet only when it holds no shard.
\* No assumption on faults or on overlapping edits is needed: in contrast to the pools that are
\* listed, the exclusion, the check and the removal happen in one pass, and IInv carries what
\* was checked from one step of the pass to the next.
THEOREM ObsoleteNodesLeaveEmpty == Spec => ObsoletePoolsAreDrained
<1> DEFINE Drained == \A p \in Pool \ inst.listed :
                        smart /\ sts'[p] < sts[p] => ReplicaHostName(p, sts'[p]) \notin shards
<1>1. Init => IInv
  BY InitIInv
<1>2. IInv /\ [Next]_vars => IInv'
  BY NextKeepsIInv
<1>3. IInv /\ [Next]_vars => [Drained]_vars
  <2> SUFFICES ASSUME IInv, Next, NEW p \in Pool \ inst.listed, smart, sts'[p] < sts[p]
               PROVE  ReplicaHostName(p, sts'[p]) \notin shards
    OBVIOUS
  <2>0. sts[p] \in 0..MaxReplicas
    BY DEF IInv, TypeOK
  <2>1. UNCHANGED sts => FALSE
    BY <2>0, NotLessThanItself, Zenon
  <2>2. ASSUME NEW q \in Pool, ReconcileNodePool(q) PROVE FALSE
    <3>1. pc \in PoolSteps /\ q = CurrentPool
      BY <2>1, <2>2, Zenon DEF ReconcileNodePool, NothingToScale, SettlePool, SettlePoolFaulty, StartScaling,
         IncreaseOneNode, ExcludeNode, SetExcluded, ResetToRunning, WatchDrain, SetDrained,
         DecreaseOneNode, DropStatus, IncludeNode, AtDesiredReplicas, InStage, PoolSteps, kube
    <3>2. q \in inst.listed
      BY <3>1, CurrentPoolType DEF IInv, CurrentPool
    <3>3. sts'[p] = sts[p]
      BY <2>1, <2>2, <3>2, Zenon DEF ReconcileNodePool, NothingToScale, SettlePool, SettlePoolFaulty,
         StartScaling, IncreaseOneNode, ExcludeNode, SetExcluded, ResetToRunning, WatchDrain,
         SetDrained, DecreaseOneNode, DropStatus, IncludeNode, kube, IInv, TypeOK
    <3> QED
      BY <2>0, <3>3, NotLessThanItself, Zenon
  <2>3. ASSUME NEW q \in Pool, RemoveStatefulSet(q) PROVE RemovalShrink(q)
    BY <2>1, <2>3, Zenon DEF RemoveStatefulSet, RemoveUndrained, RemovalExclude, RemovalCheck,
       RemovalRejected, RemovalInclude, kube
  <2>4. ASSUME NEW q \in Pool, RemovalShrink(q) PROVE ReplicaHostName(p, sts'[p]) \notin shards
    <3>0. sts' = [sts EXCEPT ![q] = @ - 1] /\ DOMAIN sts = Pool
      BY <2>4, Zenon DEF RemovalShrink, IInv, TypeOK
    <3>1. p = q
      BY <2>0, <3>0, NotLessThanItself, Zenon
    <3>2. sts'[p] = sts[p] - 1
      BY <3>0, <3>1, Zenon
    <3> QED
      BY <2>4, <3>1, <3>2, Zenon DEF RemovalShrink, IInv, LastReplica
  <2>5. Work => \E q \in Pool : ReconcileNodePool(q) \/ RemoveStatefulSet(q)
    BY <2>1, Zenon DEF Work, StartPass, CleanStaleExclusionList, CleanStaleExclusionListFails,
       CleanSkipped, PoolFails, CleanupStatefulSets, RemovalFails, kube
  <2>6. Work
    BY <2>1, Zenon DEF Next, Crash, User, UserChangesConfig, UserScales, UserRemovesPool, Cluster,
       CreatePod, PodBecomesReady, TerminatePod, PodGone, PodFails, RestartPod, MoveShards,
       AllocateShard, Elsewhere, kube
  <2> QED
    BY <2>2, <2>3, <2>4, <2>5, <2>6
<1> QED
  BY <1>1, <1>2, <1>3, PTL DEF Spec, ObsoletePoolsAreDrained

-----------------------------------------------------------------------------
(* Which entries of a list an operation keeps, and in which order. *)

\* The entries of new are entries of list, in the same order, some perhaps repeated.
Keeps(new, list, at) ==
    /\ at \in [1..Len(new) -> 1..Len(list)]
    /\ \A j \in 1..Len(new) : new[j] = list[at[j]]
    /\ \A j, k \in 1..Len(new) : j < k => at[j] <= at[k]

\* Only entries equal to ss are left out.
LeavesOut(ss, list, at) ==
    \A m \in 1..Len(list) : (\E j \in DOMAIN at : at[j] = m) \/ ComponentStatusEqual(list[m], ss)

\* What the operations on a list do when they are called for one pool: the entries of the others
\* stay, and a drain is recorded behind another entry only if it was already, or is the new one.
OfPool(e, p) == e.description = p

LosesOnly(p, new, list) ==
    /\ Elems(new) \subseteq Elems(list)
    /\ \A q : DrainsLead(q, list) => DrainsLead(q, new)
    /\ \A q : q # p => EntriesOf(q, new) = EntriesOf(q, list)

GainsOnly(p, add, new, list) ==
    /\ Elems(new) \subseteq Elems(list) \cup {add}
    /\ \A q : DrainsLead(q, list) /\ (q # p \/ add.status \notin Draining) => DrainsLead(q, new)
    /\ \A q : q # p => EntriesOf(q, new) = EntriesOf(q, list)

AtMostOne(p, list) == \A e, f \in EntriesOf(p, list) : e = f

PlainEntry(e, p) == e \in Entries /\ e.description = p /\ e.status \notin Draining

LEMMA RemovesOfPool ==
    \A list \in Seq(Entries) : \A ss, p : OfPool(ss, p) =>
        /\ LosesOnly(p, RemoveIt(ss, list), list)
        /\ LosesOnly(p, SliceAfterRemoveIt(ss, list), list)
        /\ EntriesOf(p, RemoveIt(ss, list)) = {} => AtMostOne(p, list)
<1>Shift.
      ASSUME NEW n \in Nat, NEW i \in 1..n
      PROVE  LET f == [j \in 1..(n - 1) |-> IF j < i THEN j ELSE j + 1]
                 g == [j \in 1..n |-> IF j < i \/ j = n THEN j ELSE j + 1]
             IN  /\ f \in [1..(n - 1) -> 1..n] /\ g \in [1..n -> 1..n]
                 /\ \A j, k \in 1..(n - 1) : j < k => f[j] <= f[k]
                 /\ \A j, k \in 1..n : j < k => g[j] <= g[k]
                 /\ \A m \in 1..n : m = i \/ \E j \in 1..(n - 1) : f[j] = m
                 /\ \A m \in 1..n : m = i \/ \E j \in 1..n : g[j] = m
  <2> USE <1>Shift
  <2> DEFINE f == [j \in 1..(n - 1) |-> IF j < i THEN j ELSE j + 1]
             g == [j \in 1..n |-> IF j < i \/ j = n THEN j ELSE j + 1]
  <2>1. f \in [1..(n - 1) -> 1..n] /\ g \in [1..n -> 1..n]
    OBVIOUS
  <2>2. \A j, k \in 1..(n - 1) : j < k => f[j] <= f[k]
    OBVIOUS
  <2>3. \A j, k \in 1..n : j < k => g[j] <= g[k]
    OBVIOUS
  <2>4. ASSUME NEW m \in 1..n, m # i
        PROVE  (\E j \in 1..(n - 1) : f[j] = m) /\ (\E j \in 1..n : g[j] = m)
    <3>1. CASE m < i
      <4>1. m \in 1..(n - 1) /\ f[m] = m /\ g[m] = m
        BY <3>1
      <4> QED
        BY <4>1
    <3>2. CASE i < m
      <4>1. m - 1 \in 1..(n - 1) /\ m - 1 \in 1..n /\ f[m - 1] = m /\ g[m - 1] = m
        BY <3>2
      <4> QED
        BY <4>1
    <3> QED
      BY <2>4, <3>1, <3>2
  <2> QED
    BY <2>1, <2>2, <2>3, <2>4
<1>Same.
      ASSUME NEW S, NEW list \in Seq(S), NEW ss
      PROVE  \E at : Keeps(list, list, at) /\ LeavesOut(ss, list, at)
  <2> USE <1>Same
  <2> DEFINE at == [j \in 1..Len(list) |-> j]
  <2>1. Keeps(list, list, at)
    BY DEF Keeps
  <2>2. LeavesOut(ss, list, at)
    BY DEF LeavesOut
  <2> QED
    BY <2>1, <2>2
\* RemoveIt leaves out one entry at most.
<1>RemoveItKeeps.
      ASSUME NEW S, NEW list \in Seq(S), NEW ss
      PROVE  \E at : /\ Keeps(RemoveIt(ss, list), list, at) /\ LeavesOut(ss, list, at)
                     /\ \A m, n \in 1..Len(list) : m = n \/ \E j \in DOMAIN at : at[j] \in {m, n}
  <2> USE <1>RemoveItKeeps
  <2>1. CASE EqualAt(ss, list) = {}
    <3> DEFINE at == [j \in 1..Len(list) |-> j]
    <3>1. Keeps(list, list, at) /\ LeavesOut(ss, list, at)
      BY DEF Keeps, LeavesOut
    <3>2. \A m, n \in 1..Len(list) : m = n \/ \E j \in DOMAIN at : at[j] \in {m, n}
      OBVIOUS
    <3> QED
      BY <2>1, <3>1, <3>2, Zenon DEF RemoveIt
  <2>2. CASE EqualAt(ss, list) # {}
    <3> DEFINE i == First(EqualAt(ss, list))
               len == Len(list)
               f == [j \in 1..(len - 1) |-> IF j < i THEN j ELSE j + 1]
    <3>1. i \in 1..len /\ len \in Nat /\ ComponentStatusEqual(list[i], ss)
      <4>1. EqualAt(ss, list) \in SUBSET Nat
        BY DEF EqualAt
      <4>2. i \in EqualAt(ss, list)
        BY <2>2, <4>1, FirstIsMember
      <4> HIDE DEF i
      <4> QED
        BY <4>2 DEF EqualAt
    <3> HIDE DEF i
    <3>2. RemoveIt(ss, list) = [j \in 1..(len - 1) |-> IF j < i THEN list[j] ELSE list[j + 1]]
      BY <2>2, Zenon DEF RemoveIt, Without, i
    <3>3. Len(RemoveIt(ss, list)) = len - 1
      BY <3>1, <3>2
    <3>4. /\ f \in [1..(len - 1) -> 1..len]
          /\ \A j, k \in 1..(len - 1) : j < k => f[j] <= f[k]
          /\ \A m \in 1..len : m = i \/ \E j \in 1..(len - 1) : f[j] = m
      BY <3>1, <1>Shift
    <3>5. \A j \in 1..(len - 1) : RemoveIt(ss, list)[j] = list[f[j]]
      BY <3>2
    <3> HIDE DEF f, len
    <3>6. DOMAIN f = 1..(len - 1)
      BY <3>4
    <3>7. Keeps(RemoveIt(ss, list), list, f)
      BY <3>3, <3>4, <3>5 DEF Keeps, len
    <3>8. LeavesOut(ss, list, f)
      BY <3>1, <3>4, <3>6, Zenon DEF LeavesOut, len
    <3>9. \A m, n \in 1..Len(list) : m = n \/ \E j \in DOMAIN f : f[j] \in {m, n}
      BY <3>4, <3>6, Zenon DEF len
    <3> QED
      BY <3>7, <3>8, <3>9, Zenon
  <2> QED
    BY <2>1, <2>2
<1>SliceKeeps.
      ASSUME NEW S, NEW list \in Seq(S), NEW ss
      PROVE  \E at : Keeps(SliceAfterRemoveIt(ss, list), list, at) /\ LeavesOut(ss, list, at)
  <2> USE <1>SliceKeeps
  <2>1. CASE EqualAt(ss, list) = {}
    BY <2>1, <1>Same, Zenon DEF SliceAfterRemoveIt
  <2>2. CASE EqualAt(ss, list) # {}
    <3> DEFINE i == First(EqualAt(ss, list))
               len == Len(list)
               g == [j \in 1..len |-> IF j < i \/ j = len THEN j ELSE j + 1]
    <3>1. i \in 1..len /\ len \in Nat /\ ComponentStatusEqual(list[i], ss)
      <4>1. EqualAt(ss, list) \in SUBSET Nat
        BY DEF EqualAt
      <4>2. i \in EqualAt(ss, list)
        BY <2>2, <4>1, FirstIsMember
      <4> HIDE DEF i
      <4> QED
        BY <4>2 DEF EqualAt
    <3> HIDE DEF i
    <3>2. SliceAfterRemoveIt(ss, list) = [j \in 1..len |-> IF j < i \/ j = len THEN list[j] ELSE list[j + 1]]
      BY <2>2, Zenon DEF SliceAfterRemoveIt, i
    <3>3. Len(SliceAfterRemoveIt(ss, list)) = len
      BY <3>1, <3>2
    <3>4. /\ g \in [1..len -> 1..len]
          /\ \A j, k \in 1..len : j < k => g[j] <= g[k]
          /\ \A m \in 1..len : m = i \/ \E j \in 1..len : g[j] = m
      BY <3>1, <1>Shift
    <3>5. \A j \in 1..len : SliceAfterRemoveIt(ss, list)[j] = list[g[j]]
      BY <3>2
    <3> HIDE DEF g, len
    <3>6. DOMAIN g = 1..len
      BY <3>4
    <3>7. Keeps(SliceAfterRemoveIt(ss, list), list, g)
      BY <3>3, <3>4, <3>5 DEF Keeps, len
    <3>8. LeavesOut(ss, list, g)
      BY <3>1, <3>4, <3>6, Zenon DEF LeavesOut, len
    <3> QED
      BY <3>7, <3>8, Zenon
  <2> QED
    BY <2>1, <2>2
<1>KeptEntries.
      ASSUME NEW new, NEW list, NEW at, Len(list) \in Nat, Len(new) \in Nat, Keeps(new, list, at)
      PROVE  /\ Elems(new) \subseteq Elems(list)
             /\ \A p : DrainsLead(p, list) => DrainsLead(p, new)
  <2> USE <1>KeptEntries
  <2>1. /\ \A j \in 1..Len(new) : at[j] \in 1..Len(list) /\ new[j] = list[at[j]]
        /\ \A j, k \in 1..Len(new) : j < k => at[j] <= at[k]
    BY DEF Keeps
  <2>2. Elems(new) \subseteq Elems(list)
    BY <2>1, Zenon DEF Elems
  <2>3. ASSUME NEW p, DrainsLead(p, list), NEW i \in 1..Len(new), NEW j \in 1..Len(new), i < j,
               new[i].description = p, new[j].description = p, new[j].status \in Draining
        PROVE  new[i].status \in Draining
    <3>1. at[i] \in 1..Len(list) /\ at[j] \in 1..Len(list) /\ at[i] <= at[j]
          /\ new[i] = list[at[i]] /\ new[j] = list[at[j]]
      BY <2>1, <2>3, Zenon
    <3>2. CASE at[i] = at[j]
      BY <2>3, <3>1, <3>2, Zenon
    <3>3. CASE at[i] < at[j]
      BY <2>3, <3>1, <3>3, Zenon DEF DrainsLead
    <3> QED
      BY <3>1, <3>2, <3>3
  <2> QED
    BY <2>2, <2>3, Zenon DEF DrainsLead
<1>KeptOthers.
      ASSUME NEW new, NEW list, NEW at, NEW ss, Keeps(new, list, at), LeavesOut(ss, list, at)
      PROVE  \A p : p # ss.description => EntriesOf(p, new) = EntriesOf(p, list)
  <2> USE <1>KeptOthers
  <2> SUFFICES ASSUME NEW p, p # ss.description PROVE EntriesOf(p, new) = EntriesOf(p, list)
    OBVIOUS
  <2>1. /\ \A j \in 1..Len(new) : at[j] \in 1..Len(list) /\ new[j] = list[at[j]]
        /\ DOMAIN at = 1..Len(new)
    BY DEF Keeps
  <2>2. \A e \in EntriesOf(p, new) : e \in EntriesOf(p, list)
    BY <2>1, Zenon DEF EntriesOf, Elems
  <2>3. ASSUME NEW e \in EntriesOf(p, list) PROVE e \in EntriesOf(p, new)
    <3>1. PICK m \in 1..Len(list) : e = list[m]
      BY Zenon DEF EntriesOf, Elems
    <3>2. list[m].description = p
      BY <3>1, Zenon DEF EntriesOf
    <3>3. ~ComponentStatusEqual(list[m], ss)
      BY <3>2 DEF ComponentStatusEqual
    <3>4. PICK j \in 1..Len(new) : at[j] = m
      BY <2>1, <3>3, Zenon DEF LeavesOut
    <3> QED
      BY <2>1, <3>1, <3>2, <3>4, Zenon DEF EntriesOf, Elems
  <2> QED
    BY <2>2, <2>3, Zenon
\* What RemoveIt, and the slice it leaves behind, keep.
<1>RemoveItEffect.
      ASSUME NEW list \in Seq(Entries), NEW ss
      PROVE  /\ Elems(RemoveIt(ss, list)) \subseteq Elems(list)
             /\ Elems(SliceAfterRemoveIt(ss, list)) \subseteq Elems(list)
             /\ \A p : DrainsLead(p, list) =>
                   DrainsLead(p, RemoveIt(ss, list)) /\ DrainsLead(p, SliceAfterRemoveIt(ss, list))
             /\ \A p : p # ss.description =>
                   /\ EntriesOf(p, RemoveIt(ss, list)) = EntriesOf(p, list)
                   /\ EntriesOf(p, SliceAfterRemoveIt(ss, list)) = EntriesOf(p, list)
             /\ \A p : EntriesOf(p, RemoveIt(ss, list)) = {} => \A e, f \in EntriesOf(p, list) : e = f
  <2> USE <1>RemoveItEffect
  <2> DEFINE new == RemoveIt(ss, list)
             slice == SliceAfterRemoveIt(ss, list)
  <2>1. Len(list) \in Nat /\ Len(new) \in Nat /\ Len(slice) \in Nat
    <3>1. new \in Seq(Entries) /\ slice \in Seq(Entries)
      BY RemoveItType, SliceAfterRemoveItType, Zenon
    <3> HIDE DEF new, slice
    <3> QED
      BY <3>1
  <2>2. PICK at : /\ Keeps(new, list, at) /\ LeavesOut(ss, list, at)
                  /\ \A m, n \in 1..Len(list) : m = n \/ \E j \in DOMAIN at : at[j] \in {m, n}
    BY <1>RemoveItKeeps, Zenon
  <2>3. PICK by : Keeps(slice, list, by) /\ LeavesOut(ss, list, by)
    BY <1>SliceKeeps, Zenon
  <2> HIDE DEF new, slice
  <2>4. /\ Elems(new) \subseteq Elems(list)
        /\ \A p : DrainsLead(p, list) => DrainsLead(p, new)
    BY <2>1, <2>2, <1>KeptEntries, Zenon
  <2>5. /\ Elems(slice) \subseteq Elems(list)
        /\ \A p : DrainsLead(p, list) => DrainsLead(p, slice)
    BY <2>1, <2>3, <1>KeptEntries, Zenon
  <2>6. \A p : p # ss.description => EntriesOf(p, new) = EntriesOf(p, list)
    BY <2>2, <1>KeptOthers, SMT
  <2>7. \A p : p # ss.description => EntriesOf(p, slice) = EntriesOf(p, list)
    BY <2>3, <1>KeptOthers, SMT
  <2>8. ASSUME NEW p, EntriesOf(p, new) = {}, NEW e \in EntriesOf(p, list), NEW f \in EntriesOf(p, list)
        PROVE  e = f
    <3>1. PICK i \in 1..Len(list) : e = list[i] /\ list[i].description = p
      BY Zenon DEF EntriesOf, Elems
    <3>2. PICK j \in 1..Len(list) : f = list[j] /\ list[j].description = p
      BY Zenon DEF EntriesOf, Elems
    <3>3. ASSUME NEW k \in DOMAIN at, at[k] \in {i, j} PROVE FALSE
      <4>1. k \in 1..Len(new) /\ new[k] = list[at[k]]
        BY <2>2, <3>3, Zenon DEF Keeps
      <4>2. new[k].description = p
        BY <3>1, <3>2, <3>3, <4>1, Zenon
      <4>3. new[k] \in EntriesOf(p, new)
        BY <4>1, <4>2, Zenon DEF EntriesOf, Elems
      <4> QED
        BY <2>8, <4>3, Zenon
    <3>4. i = j
      BY <2>2, <3>3, Zenon
    <3> QED
      BY <3>1, <3>2, <3>4, Zenon
  <2> QED
    BY <2>4, <2>5, <2>6, <2>7, <2>8, Zenon DEF new, slice
<1> QED
  BY <1>RemoveItEffect DEF LosesOnly, AtMostOne, OfPool

LEMMA ReplacesInPool ==
    \A list \in Seq(Entries), add \in Entries : \A ss, p : OfPool(ss, p) /\ OfPool(add, p) =>
        /\ GainsOnly(p, add, Replace(ss, add, list), list)
        /\ GainsOnly(p, add, SliceAfterReplace(ss, add, list), list)
        /\ add \in EntriesOf(p, Replace(ss, add, list))
<1>AppendEffect.
      ASSUME NEW list \in Seq(Entries), NEW add \in Entries
      PROVE  /\ Elems(Append(list, add)) = Elems(list) \cup {add}
             /\ \A p : DrainsLead(p, list) /\ (add.description # p \/ add.status \notin Draining)
                          => DrainsLead(p, Append(list, add))
  <2> USE <1>AppendEffect
  <2> DEFINE new == Append(list, add)
             len == Len(list)
  <2>1. len \in Nat /\ Len(new) = len + 1 /\ new[len + 1] = add /\ \A j \in 1..len : new[j] = list[j]
    OBVIOUS
  <2> HIDE DEF new, len
  <2>2. \A j \in 1..Len(new) : j \in 1..len \/ j = len + 1
    BY <2>1
  <2>3. (\A j \in 1..len : j \in 1..Len(new)) /\ len + 1 \in 1..Len(new)
    BY <2>1
  <2>4. \A e : e \in Elems(new) <=> e \in Elems(list) \cup {add}
    BY <2>1, <2>2, <2>3, Zenon DEF Elems, len
  <2>5. ASSUME NEW p, DrainsLead(p, list), add.description # p \/ add.status \notin Draining,
               NEW i \in 1..Len(new), NEW j \in 1..Len(new), i < j,
               new[i].description = p, new[j].description = p, new[j].status \in Draining
        PROVE  new[i].status \in Draining
    <3>1. new[j] # add
      BY <2>5, Zenon
    <3>2. j \in 1..len
      BY <2>1, <2>2, <2>5, <3>1, Zenon
    <3>3. i \in 1..len
      BY <2>1, <2>5, <3>2
    <3>4. new[i] = list[i] /\ new[j] = list[j]
      BY <2>1, <3>2, <3>3, Zenon
    <3> QED
      BY <2>5, <3>2, <3>3, <3>4, Zenon DEF DrainsLead, len
  <2>6. \A p : DrainsLead(p, list) /\ (add.description # p \/ add.status \notin Draining) => DrainsLead(p, new)
    BY <2>5, Zenon DEF DrainsLead
  <2> QED
    BY <2>4, <2>6, Zenon DEF new
<1> SUFFICES ASSUME NEW list \in Seq(Entries), NEW ss, NEW p, OfPool(ss, p), NEW add \in Entries, OfPool(add, p)
             PROVE  /\ GainsOnly(p, add, Replace(ss, add, list), list)
                    /\ GainsOnly(p, add, SliceAfterReplace(ss, add, list), list)
                    /\ add \in EntriesOf(p, Replace(ss, add, list))
  OBVIOUS
<1> DEFINE kept == RemoveIt(ss, list)
<1>1. kept \in Seq(Entries) /\ LosesOnly(p, kept, list)
  BY RemoveItType, RemovesOfPool
<1> HIDE DEF kept
<1>2. Replace(ss, add, list) = Append(kept, add)
  BY Zenon DEF Replace, kept
<1>3. /\ Elems(Append(kept, add)) = Elems(kept) \cup {add}
      /\ \A q : DrainsLead(q, kept) /\ (add.description # q \/ add.status \notin Draining)
                   => DrainsLead(q, Append(kept, add))
  BY <1>1, <1>AppendEffect, Zenon
<1>4. GainsOnly(p, add, Append(kept, add), list) /\ add \in EntriesOf(p, Append(kept, add))
  BY <1>1, <1>3 DEF GainsOnly, LosesOnly, EntriesOf, OfPool
<1>5. GainsOnly(p, add, list, list)
  BY Zenon DEF GainsOnly
<1> QED
  BY <1>2, <1>4, <1>5, Zenon DEF SliceAfterReplace

LEMMA AllTheSame ==
    ASSUME NEW p, NEW list, \A e, f \in EntriesOf(p, list) : e = f
    PROVE  DrainsLead(p, list)
<1>1. ASSUME NEW i \in 1..Len(list), NEW j \in 1..Len(list), list[i].description = p, list[j].description = p
      PROVE  list[i] = list[j]
  BY <1>1, Zenon DEF EntriesOf, Elems
<1> QED
  BY <1>1, Zenon DEF DrainsLead

LEMMA NoneDraining ==
    ASSUME NEW p, NEW list, NoDrain(p, list)
    PROVE  DrainsLead(p, list)
BY Zenon DEF DrainsLead, NoDrain, EntriesOf, Elems

LEMMA NoElems == Elems(<<>>) = {}
BY DEF Elems

LEMMA EntryOf ==
    ASSUME NEW p, NEW st, NEW n
    PROVE  /\ Entry(p, st, n).component = "Scaler" /\ Entry(p, st, n).description = p
           /\ Entry(p, st, n).status = st /\ Entry(p, st, n).conditions = n
BY DEF Entry

\* FindFirstPartial finds the first entry of the pool.
LEMMA FirstEntry ==
    ASSUME NEW list \in Seq(Entries), NEW p \in Pool
    PROVE  LET c == FindFirstPartial(list, Entry(p, "Running", NoNode))
           IN  /\ c.found <=> EntriesOf(p, list) # {}
               /\ c.found => c.entry \in EntriesOf(p, list)
               /\ ~c.found => c.entry = Entry(p, "Running", NoNode) /\ c.entry.description = p
               /\ DrainsLead(p, list) /\ c.entry.status \notin Draining => NoDrain(p, list)
<1> DEFINE item == Entry(p, "Running", NoNode)
           at == {i \in 1..Len(list) : GetByDescriptionAndComponent(list[i], item)}
           c == FindFirstPartial(list, item)
<1>1. \A i \in 1..Len(list) : list[i] \in Entries
  OBVIOUS
<1>2. \A i \in 1..Len(list) : list[i].component = "Scaler"
  BY <1>1, EntryFields, Zenon
<1>3. item.component = "Scaler" /\ item.description = p /\ item.status = "Running"
  BY EntryOf
<1>4. \A i \in 1..Len(list) : GetByDescriptionAndComponent(list[i], item) <=> list[i].description = p
  BY <1>2, <1>3, Zenon DEF GetByDescriptionAndComponent
<1>5. \A i : i \in at <=> i \in 1..Len(list) /\ list[i].description = p
  BY <1>4, Zenon
<1>6. EntriesOf(p, list) = {list[i] : i \in at}
  BY <1>5, Zenon DEF EntriesOf, Elems
<1>7. CASE at = {}
  <2>1. c.found = FALSE /\ c.entry = item
    BY <1>7 DEF FindFirstPartial
  <2>2. EntriesOf(p, list) = {}
    BY <1>6, <1>7, Zenon
  <2>3. c.entry.description = p
    BY <1>3, <2>1, Zenon
  <2> QED
    BY <2>1, <2>2, <2>3, Zenon DEF NoDrain
<1>8. CASE at # {}
  <2>1. at \in SUBSET Nat
    OBVIOUS
  <2>2. First(at) \in at /\ \A j \in at : First(at) <= j
    BY <1>8, <2>1, FirstIsMember, Zenon
  <2>3. c.found = TRUE /\ c.entry = list[First(at)]
    BY <1>8 DEF FindFirstPartial
  <2> HIDE DEF at, c
  <2>4. c.entry \in EntriesOf(p, list)
    BY <1>6, <2>2, <2>3, Zenon
  <2>5. ASSUME DrainsLead(p, list), c.entry.status \notin Draining, NEW e \in EntriesOf(p, list),
               e.status \in Draining
        PROVE  FALSE
    <3>1. PICK j \in at : e = list[j]
      BY <1>6, Zenon
    <3>2. j # First(at)
      BY <2>3, <2>5, <3>1, Zenon
    <3>3. First(at) < j
      <4>1. First(at) \in Nat /\ j \in Nat /\ First(at) <= j
        BY <2>1, <2>2, <3>1, Zenon
      <4> QED
        BY <3>2, <4>1
    <3> QED
      BY <1>5, <2>2, <2>3, <2>5, <3>1, <3>3, Zenon DEF DrainsLead
  <2> QED
    BY <2>3, <2>4, <2>5, Zenon DEF NoDrain, c
<1> QED
  BY <1>7, <1>8

LEMMA ListTypes ==
    ASSUME TypeOK
    PROVE  /\ status \in Seq(Entries) /\ inst.status \in Seq(Entries)
           /\ \A e \in Elems(status) \cup Elems(inst.status) : e \in Entries
<1>1. status \in Seq(Entries) /\ inst.status \in Seq(Entries)
  BY DEF TypeOK
<1>2. ASSUME NEW list \in Seq(Entries), NEW i \in 1..Len(list) PROVE list[i] \in Entries
  OBVIOUS
<1> QED
  BY <1>1, <1>2, Zenon DEF Elems

LEMMA PlainEntries ==
    \A p \in Pool : PlainEntry(Entry(p, "Running", NoNode), p) /\ PlainEntry(Entry(p, "Waiting", NoNode), p)
BY DEF PlainEntry, Entries, Entry, Draining

\* The numbers of replicas, and the nodes that entries name.
LEMMA Counts ==
    ASSUME TypeOK
    PROVE  \A p \in Pool : /\ sts[p] \in 0..MaxReplicas /\ replicas[p] \in 0..MaxReplicas
                           /\ inst.replicas[p] \in 0..MaxReplicas
                           /\ DesireReplicaDiff(p) = 0 <=> sts[p] = inst.replicas[p]
                           /\ DesireReplicaDiff(p) < 0 <=> sts[p] < inst.replicas[p]
                           /\ \/ DesireReplicaDiff(p) = 0 \/ DesireReplicaDiff(p) < 0
                              \/ sts[p] > inst.replicas[p]
BY DEF TypeOK, DesireReplicaDiff

LEMMA CompareCounts ==
    \A m, n \in 0..MaxReplicas :
        /\ m \in Int /\ m <= m /\ ~(m < m) /\ ~(m > m)
        /\ m > n => ~(m <= n) /\ ~(m < n)
        /\ m <= n => m - 1 <= n
BY ScalerAssumption

\* The node after the last one, which has just left, is the last one of no pool.
LEMMA NextIsNotLast ==
    ASSUME TypeOK
    PROVE  \A p, q \in Pool : LastReplica(q) # ReplicaHostName(p, sts[p])
<1>1. \A p \in Pool : sts[p] # sts[p] - 1
  BY DEF TypeOK
<1> QED
  BY <1>1 DEF LastReplica, ReplicaHostName

LEMMA LastIsCurrent ==
    ASSUME TypeOK
    PROVE  /\ \A e : e.description \in Pool /\ e.conditions = LastReplica(e.description) => ~OutOfDate(e)
           /\ \A e \in Entries : e.status \in Draining /\ (OutOfDate(e) \/ UpToDate(e))
                                    => e.conditions[2] >= sts[e.description] - 1
<1>1. \A p \in Pool : sts[p] \in Int
  BY DEF TypeOK
<1>2. \A p : LastReplica(p)[2] = sts[p] - 1
  BY DEF LastReplica, ReplicaHostName
<1>3. ASSUME NEW e, e.description \in Pool, e.conditions = LastReplica(e.description) PROVE ~OutOfDate(e)
  BY <1>1, <1>2, <1>3 DEF OutOfDate
<1>4. ASSUME NEW e \in Entries, e.status \in Draining, OutOfDate(e) \/ UpToDate(e)
      PROVE  e.conditions[2] >= sts[e.description] - 1
  <2>1. e.description \in Pool /\ e.conditions[2] \in Int
    BY <1>4, EntryFields DEF Node
  <2> QED
    BY <1>1, <1>2, <1>4, <2>1 DEF OutOfDate, UpToDate
<1> QED
  BY <1>3, <1>4

LEMMA NewEntry ==
    ASSUME TypeOK, NEW p \in Pool, sts[p] > replicas[p], LastReplica(p) \in excluded,
           NEW st \in Draining
    PROVE  LET a == Entry(p, st, LastReplica(p))
           IN  a \in Entries /\ a.description = p /\ UpToDate(a)
<1> DEFINE a == Entry(p, st, LastReplica(p))
<1>1. sts[p] - 1 \in 0..(MaxReplicas - 1)
  BY ScalerAssumption DEF TypeOK
<1>2. a \in Entries
  BY <1>1 DEF Entries, Entry, LastReplica, ReplicaHostName, Draining
<1>3. a.description = p /\ a.status = st /\ a.conditions = LastReplica(p)
  BY EntryOf
<1> HIDE DEF a
<1>4. UpToDate(a)
  BY <1>3, Zenon DEF UpToDate
<1> QED
  BY <1>2, <1>3, <1>4, Zenon DEF a

-----------------------------------------------------------------------------
(* The induction for the drains that are recorded. *)

\* An entry stays true as long as its pool is left alone and its node stays excluded.
LEMMA StaysTrue ==
    ASSUME NEW e, OutOfDate(e) \/ UpToDate(e), sts'[e.description] = sts[e.description],
           replicas'[e.description] = replicas[e.description],
           LastReplica(e.description) \in excluded => LastReplica(e.description) \in excluded'
    PROVE  (OutOfDate(e) \/ UpToDate(e))'
<1>1. LastReplica(e.description)' = LastReplica(e.description)
  BY DEF LastReplica
<1>2. CASE OutOfDate(e)
  BY <1>2, Zenon DEF OutOfDate
<1>3. CASE UpToDate(e)
  <2>1. UpToDate(e)'
    BY <1>1, <1>3, Zenon DEF UpToDate
  <2> QED
    BY <2>1
<1> QED
  BY <1>2, <1>3

LEMMA EntriesStayTrue ==
    ASSUME EntryInv, UNCHANGED <<sts, replicas>>, excluded \subseteq excluded',
           \A e \in Elems(status') \cup Elems(inst'.status) :
               e \in Elems(status) \cup Elems(inst.status) \/ (e.status \in Draining => UpToDate(e)')
    PROVE  EntryInv'
<1>1. ASSUME NEW e \in Elems(status') \cup Elems(inst'.status), e.status \in Draining
      PROVE  (OutOfDate(e) \/ UpToDate(e))'
  <2>1. CASE e \in Elems(status) \cup Elems(inst.status)
    <3>1. OutOfDate(e) \/ UpToDate(e)
      BY <1>1, <2>1, Zenon DEF EntryInv
    <3> QED
      BY <3>1, StaysTrue
  <2> QED
    BY <1>1, <2>1, Zenon
<1> QED
  BY <1>1, Zenon DEF EntryInv

\* A pool that is not being worked at.
LEMMA StaysOrdered ==
    ASSUME NEW q, Ordered(q), UNCHANGED <<listed, replicas>>, sts'[q] = sts[q],
           DrainsLead(q, status) => DrainsLead(q, status'),
           DrainsLead(q, inst.status) => DrainsLead(q, inst'.status),
           EntriesOf(q, status') = {} => EntriesOf(q, status) = {}
    PROVE  Ordered(q)'
BY Zenon DEF Ordered

LEMMA OthersOrdered ==
    ASSUME OrderInv, NEW p, Ordered(p)', UNCHANGED <<listed, replicas>>,
           \A q \in Pool \ {p} :
              /\ sts'[q] = sts[q] /\ (EntriesOf(q, status') = {} => EntriesOf(q, status) = {})
              /\ DrainsLead(q, status) => DrainsLead(q, status')
              /\ DrainsLead(q, inst.status) => DrainsLead(q, inst'.status)
    PROVE  OrderInv'
<1>1. ASSUME NEW q \in Pool \ {p} PROVE Ordered(q)'
  BY <1>1, StaysOrdered, Zenon DEF OrderInv
<1> QED
  BY <1>1, Zenon DEF OrderInv

\* The pools that are left to visit are not the one at hand.
LEMMA OtherPools ==
    ASSUME IInv, pc \in PoolSteps
    PROVE  /\ CurrentPool \in Pool /\ First(todo) \in todo
           /\ \A i \in todo : NodePools[i] \in Pool
           /\ \A i \in Rest : i \in todo /\ NodePools[i] \in Pool \ {CurrentPool}
<1>1. First(todo) \in todo /\ CurrentPool \in Pool /\ todo \subseteq 1..Len(NodePools)
  BY CurrentPoolType, Zenon DEF IInv, TypeOK
<1>2. \A i \in 1..Len(NodePools) : NodePools[i] \in Pool
  BY Zenon DEF Pool
<1>3. ASSUME NEW i \in Rest PROVE NodePools[i] # CurrentPool
  BY <1>1, <1>3, ScalerAssumption, Zenon DEF Rest, CurrentPool
<1> QED
  BY <1>1, <1>2, <1>3, Zenon DEF Rest

\* The worker goes on to the next pool.
LEMMA MovesOn ==
    ASSUME IInv, SmartInv, pc \in PoolSteps, NextPool, UNCHANGED <<listed, replicas>>,
           inst'.replicas = inst.replicas,
           \A q \in Pool \ {CurrentPool} : sts'[q] = sts[q],
           \A i \in Rest : LET q == NodePools[i]
                           IN  /\ EntriesOf(q, status') = EntriesOf(q, status)
                               /\ EntriesOf(q, inst'.status) = EntriesOf(q, inst.status)
    PROVE  VisitInv' /\ StageInv'
<1>1. pc' \in {"pool", "cleanup"} /\ todo' = Rest
  BY Zenon DEF NextPool
<1>2. StageInv'
  BY <1>1, Zenon DEF StageInv
<1>3. ASSUME NEW i \in Rest, NEW q, q = NodePools[i]
      PROVE  Known(q)' /\ EntriesOf(q, status') = EntriesOf(q, inst'.status)
  <2>1. i \in todo /\ q \in Pool \ {CurrentPool}
    BY <1>3, OtherPools, Zenon
  <2>2. Known(q) /\ EntriesOf(q, status) = EntriesOf(q, inst.status)
    BY <1>3, <2>1, Zenon DEF SmartInv, VisitInv, Unvisited
  <2>3. /\ EntriesOf(q, status') = EntriesOf(q, status)
        /\ EntriesOf(q, inst'.status) = EntriesOf(q, inst.status) /\ sts'[q] = sts[q]
    BY <1>3, <2>1, Zenon
  <2>4. EntriesOf(q, status)' = EntriesOf(q, status)
    BY <2>3, Zenon DEF EntriesOf, Elems
  <2>5. Known(q)'
    BY <2>2, <2>3, <2>4, Zenon DEF Known
  <2> QED
    BY <2>2, <2>3, <2>5
<1>4. VisitInv'
  BY <1>1, <1>3 DEF VisitInv
<1> QED
  BY <1>2, <1>4

\* The worker stays at the pool.
LEMMA StaysAt ==
    ASSUME IInv, SmartInv, NEW p, p = CurrentPool, pc \in PoolSteps, UNCHANGED <<todo, listed, replicas, inst>>,
           \A q \in Pool \ {CurrentPool} : sts'[q] = sts[q] /\ EntriesOf(q, status') = EntriesOf(q, status),
           Known(p)',
           (pc \in {"clean", "pool", "dropStatus"})' => EntriesOf(p, status') = EntriesOf(p, inst.status)
    PROVE  VisitInv' /\ CurrentPool' = CurrentPool
<1>1. CurrentPool' = CurrentPool
  BY DEF CurrentPool, First
<1>2. ASSUME NEW i \in todo, NEW q, q = NodePools[i]
      PROVE  Known(q)' /\ (Unvisited(q)' => EntriesOf(q, status') = EntriesOf(q, inst'.status))
  <2>1. CASE q = CurrentPool
    <3>1. Unvisited(q)' => pc' \in {"clean", "pool", "dropStatus"}
      BY <1>1, <2>1, Zenon DEF Unvisited
    <3>2. Known(q)'
      BY <2>1, Zenon
    <3> QED
      BY <2>1, <3>1, <3>2
  <2>2. CASE q # CurrentPool
    <3>1. Known(q) /\ EntriesOf(q, status) = EntriesOf(q, inst.status)
      BY <1>2, <2>2, Zenon DEF SmartInv, VisitInv, Unvisited
    <3>2. q \in Pool \ {CurrentPool}
      BY <1>2, <2>2, OtherPools, Zenon
    <3>3. sts'[q] = sts[q] /\ EntriesOf(q, status') = EntriesOf(q, status)
      BY <3>2, Zenon
    <3>4. Known(q)'
      BY <3>1, <3>3 DEF Known
    <3> QED
      BY <3>1, <3>3, <3>4
  <2> QED
    BY <2>1, <2>2
<1>3. VisitInv'
  BY <1>2 DEF VisitInv
<1> QED
  BY <1>1, <1>3

\* What the cluster does.
LEMMA ClusterUndisturbing ==
    ASSUME SmartInv, UNCHANGED <<listed, replicas, status, sts, pc, inst, todo, cur, excluded>>
    PROVE  SmartInv'
<1>1. EntryInv'
  BY EntriesStayTrue, Zenon DEF SmartInv
<1>2. OrderInv'
  BY Zenon DEF SmartInv, OrderInv, Ordered
<1>3. CurrentPool' = CurrentPool
  BY DEF CurrentPool, First
<1>4. LastReplica(CurrentPool)' = LastReplica(CurrentPool)
  BY <1>3 DEF LastReplica
<1>5. VisitInv'
  BY <1>3 DEF SmartInv, VisitInv, Known, Unvisited
<1>6. StageInv'
  BY <1>3, <1>4, Zenon DEF SmartInv, StageInv
<1> QED
  BY <1>1, <1>2, <1>5, <1>6 DEF SmartInv

\* Edits of a pool whose last scaling is complete.
LEMMA EditKeepsSmartInv ==
    ASSUME IInv, SmartInv, ~EditWhileScaling, NEW p \in Pool, MayEdit(p), 
           UNCHANGED <<status, sts, pc, inst, todo, cur, excluded, shards>>,
           \A q \in Pool \ {p} : replicas'[q] = replicas[q] /\ (q \in listed' <=> q \in listed),
           \/ p \in listed' \/ replicas'[p] = replicas[p]
    PROVE  SmartInv'
<1>1. sts[p] = replicas[p] /\ p \in listed /\ \A i \in 1..Len(status) : status[i].description # p
  BY Zenon DEF MayEdit
<1>2. EntriesOf(p, status) = {}
  BY <1>1, Zenon DEF EntriesOf, Elems
<1>3. sts[p] \in 0..MaxReplicas /\ sts[p] <= sts[p] /\ ~(sts[p] > sts[p])
  BY Counts, CompareCounts, Zenon DEF IInv
<1>4. CurrentPool' = CurrentPool /\ \A q : LastReplica(q)' = LastReplica(q)
  BY DEF CurrentPool, First, LastReplica
<1>5. EntryInv'
  <2>1. ASSUME NEW e \in Elems(status) \cup Elems(inst.status), e.status \in Draining
        PROVE  (OutOfDate(e) \/ UpToDate(e))'
    <3>1. e \in Entries
      BY ListTypes, Zenon DEF IInv
    <3>2. e.description \in Pool /\ (OutOfDate(e) \/ UpToDate(e))
      BY <2>1, <3>1, EntryFields DEF SmartInv, EntryInv
    <3>3. CASE e.description = p
      <4>1. OutOfDate(e)
        BY <1>1, <1>3, <3>2, <3>3 DEF UpToDate
      <4> QED
        BY <4>1, Zenon DEF OutOfDate
    <3>4. CASE e.description # p
      BY <3>2, <3>4, StaysTrue
    <3> QED
      BY <3>3, <3>4
  <2> QED
    BY <2>1, Zenon DEF EntryInv
<1>6. OrderInv'
  <2>1. ASSUME NEW q \in Pool, q # p PROVE Ordered(q)'
    BY <2>1, Zenon DEF SmartInv, OrderInv, Ordered
  <2>2. DrainsLead(p, status) /\ DrainsLead(p, inst.status)
    BY <1>2, AllTheSame, Zenon DEF SmartInv, OrderInv, Ordered
  <2>3. Ordered(p)'
    BY <1>1, <1>3, <2>2, Zenon DEF Ordered
  <2> QED
    BY <2>1, <2>3, Zenon DEF OrderInv
<1>7. VisitInv'
  <2>1. ASSUME pc \in PoolSteps, NEW i \in todo, NEW q, q = NodePools[i] PROVE Known(q)'
    <3>1. Known(q) /\ q \in Pool
      BY <2>1, OtherPools DEF SmartInv, VisitInv
    <3> QED
      BY <1>1, <1>2, <3>1 DEF Known
  <2> QED
    BY <1>4, <2>1 DEF SmartInv, VisitInv, Unvisited
<1>8. StageInv'
  <2>1. pc \in PoolSteps => CurrentPool \in Pool
    BY OtherPools
  <2>2. pc \in {"exclude", "setExcluded", "setDrained"} => CurrentPool \in Pool \ {p}
    BY <1>1, <1>3, <2>1, Zenon DEF SmartInv, StageInv, PoolSteps
  <2>3. LastReplica(CurrentPool)' = LastReplica(CurrentPool)
    BY <1>4 DEF LastReplica
  <2> QED
    BY <1>4, <2>2, <2>3, Zenon DEF SmartInv, StageInv
<1> QED
  BY <1>5, <1>6, <1>7, <1>8 DEF SmartInv

LEMMA AroundKeepsSmartInv ==
    ASSUME ~EditWhileScaling, IInv, SmartInv, User \/ Cluster \/ UNCHANGED vars
    PROVE  SmartInv'
<1>1. CASE UserChangesConfig
  BY <1>1, ClusterUndisturbing DEF UserChangesConfig, worker
<1>2. ASSUME NEW p \in Pool, UserScales(p) PROVE SmartInv'
  <2>1. UNCHANGED <<listed, sts, status, excluded, shards, pc, inst, todo, cur>> /\ MayEdit(p)
    BY <1>2 DEF UserScales, worker
  <2>2. PICK r : replicas' = [replicas EXCEPT ![p] = r]
    BY <1>2, Zenon DEF UserScales
  <2>3. \A q \in Pool \ {p} : replicas'[q] = replicas[q]
    BY <2>2 DEF IInv, TypeOK
  <2>4. p \in listed'
    BY <2>1 DEF MayEdit
  <2> QED
    BY <2>1, <2>3, <2>4, EditKeepsSmartInv
<1>3. ASSUME NEW p \in Pool, UserRemovesPool(p) PROVE SmartInv'
  <2>1. UNCHANGED <<replicas, sts, status, excluded, shards, pc, inst, todo, cur>> /\ MayEdit(p)
    BY <1>3 DEF UserRemovesPool, worker
  <2>2. \A q \in Pool \ {p} : q \in listed' <=> q \in listed
    BY <1>3, Zenon DEF UserRemovesPool
  <2> QED
    BY <2>1, <2>2, EditKeepsSmartInv
<1>4. ASSUME NEW n \in Node,
             \/ CreatePod(n) \/ PodBecomesReady(n) \/ TerminatePod(n) \/ PodGone(n)
             \/ PodFails(n) \/ RestartPod(n) \/ MoveShards(n) \/ AllocateShard(n)
      PROVE  SmartInv'
  <2>1. UNCHANGED <<listed, replicas, status, sts, pc, inst, todo, cur, excluded>>
    BY <1>4, Zenon DEF CreatePod, PodBecomesReady, TerminatePod, PodGone, PodFails, RestartPod, MoveShards,
       AllocateShard, Elsewhere, worker
  <2>2. shards' \cap excluded \subseteq shards
    BY <1>4, Zenon DEF CreatePod, PodBecomesReady, TerminatePod, PodGone, PodFails, RestartPod, MoveShards,
       AllocateShard
  <2> QED
    BY <2>1, <2>2, ClusterUndisturbing
<1>5. CASE UNCHANGED vars
  BY <1>5, ClusterUndisturbing DEF vars, worker
<1> QED
  BY <1>1, <1>2, <1>3, <1>4, <1>5 DEF User, Cluster

\* Outside the visits to the pools, and after the pass, the worker relies on the entries only.
LEMMA LeavesPools ==
    ASSUME SmartInv, UNCHANGED <<listed, replicas, status, sts>>,
           EndPass \/ ((pc \notin PoolSteps)' /\ inst' = inst)
    PROVE  /\ OrderInv' /\ VisitInv' /\ StageInv'
           /\ Elems(status') \cup Elems(inst'.status) \subseteq Elems(status) \cup Elems(inst.status)
<1>1. pc' \notin PoolSteps
  BY DEF EndPass, PoolSteps
<1>2. VisitInv'
  BY <1>1, Zenon DEF VisitInv
<1>3. StageInv'
  BY <1>1 DEF StageInv, PoolSteps
<1>4. CASE inst' = inst
  <2>1. OrderInv'
    BY <1>4, Zenon DEF SmartInv, OrderInv, Ordered
  <2> QED
    BY <1>2, <1>3, <1>4, <2>1, Zenon
<1>5. CASE EndPass
  <2>1. inst'.status = <<>>
    BY <1>5 DEF EndPass, NoInstance
  <2>2. Elems(inst'.status) = {}
    BY <2>1 DEF Elems
  <2>3. \A p : DrainsLead(p, inst'.status)
    BY <2>2, AllTheSame, Zenon DEF EntriesOf
  <2>4. OrderInv'
    BY <2>3, Zenon DEF SmartInv, OrderInv, Ordered
  <2> QED
    BY <1>2, <1>3, <2>2, <2>4, Zenon
<1> QED
  BY <1>4, <1>5

\* ... and stays so when names are added to the exclude list.
LEMMA OutsideKeepsSmartInv ==
    ASSUME SmartInv, UNCHANGED <<listed, replicas, status, sts, shards>>, excluded \subseteq excluded',
           EndPass \/ ((pc \notin PoolSteps)' /\ inst' = inst)
    PROVE  SmartInv'
<1>1. /\ OrderInv' /\ VisitInv' /\ StageInv'
      /\ Elems(status') \cup Elems(inst'.status) \subseteq Elems(status) \cup Elems(inst.status)
  BY LeavesPools
<1>2. EntryInv'
  BY <1>1, EntriesStayTrue, Zenon DEF SmartInv
<1> QED
  BY <1>1, <1>2 DEF SmartInv

LEMMA PassKeepsSmartInv ==
    ASSUME IInv, SmartInv, smart,
           \/ StartPass \/ CleanStaleExclusionList \/ CleanStaleExclusionListFails \/ CleanSkipped
           \/ PoolFails \/ CleanupStatefulSets \/ RemovalFails \/ Crash
    PROVE  SmartInv'
<1> USE DEF kube
<1>1. CASE StartPass
  <2>1. UNCHANGED <<listed, replicas, status, sts, excluded, shards>> /\ pc' \in {"clean", "pool"}
        /\ todo' = {i \in 1..Len(NodePools) : NodePools[i] \in listed}
    BY <1>1, Zenon DEF StartPass
  <2>2. inst'.listed = listed /\ inst'.replicas = replicas /\ inst'.status = status
    BY <1>1 DEF StartPass
  <2>3. EntryInv'
    BY <2>1, <2>2, EntriesStayTrue, Zenon DEF SmartInv
  <2>4. OrderInv'
    <3>1. ASSUME NEW p \in Pool, EntriesOf(p, status) = {} PROVE DrainsLead(p, status)
      BY <3>1, AllTheSame, Zenon
    <3> QED
      BY <2>1, <2>2, <3>1, Zenon DEF SmartInv, OrderInv, Ordered
  <2>5. VisitInv'
    BY <2>1, <2>2, Zenon DEF VisitInv, Known
  <2>6. pc' = "clean" => \A e \in Elems(status) : e.status \notin Draining
    BY <1>1, Zenon DEF StartPass, ScalerHasExcludeOrDrainInProgress, Elems, Draining
  <2>7. StageInv'
    BY <2>1, <2>2, <2>6, Zenon DEF StageInv
  <2> QED
    BY <2>3, <2>4, <2>5, <2>7 DEF SmartInv
<1>2. CASE CleanStaleExclusionList \/ CleanSkipped
  <2>1. UNCHANGED <<listed, replicas, status, sts, inst, todo>> /\ pc = "clean" /\ pc' = "pool"
    BY <1>2, Zenon DEF CleanStaleExclusionList, CleanSkipped
  <2>2. EntryInv'
    BY <2>1, Zenon DEF SmartInv, StageInv, EntryInv
  <2>3. OrderInv'
    BY <2>1, Zenon DEF SmartInv, OrderInv, Ordered
  <2>4. CurrentPool' = CurrentPool
    BY <2>1 DEF CurrentPool, First
  <2>5. VisitInv'
    BY <2>1, <2>4 DEF SmartInv, VisitInv, Known, Unvisited, PoolSteps
  <2>6. StageInv'
    BY <2>1, Zenon DEF StageInv
  <2> QED
    BY <2>2, <2>3, <2>5, <2>6 DEF SmartInv
<1>3. CASE CleanStaleExclusionListFails
  <2>1. UNCHANGED <<listed, replicas, status, sts>> /\ pc = "clean" /\ EndPass
    BY <1>3 DEF CleanStaleExclusionListFails
  <2>2. /\ OrderInv' /\ VisitInv' /\ StageInv'
        /\ Elems(status') \cup Elems(inst'.status) \subseteq Elems(status) \cup Elems(inst.status)
    BY <2>1, LeavesPools, Zenon
  <2>3. \A e \in Elems(status) \cup Elems(inst.status) : e.status \notin Draining
    BY <2>1, Zenon DEF SmartInv, StageInv
  <2>4. EntryInv'
    BY <2>2, <2>3, Zenon DEF EntryInv
  <2> QED
    BY <2>2, <2>4 DEF SmartInv
<1>4. CASE PoolFails
  <2>1. UNCHANGED <<listed, replicas, status, sts, excluded, shards, inst>> /\ pc \in PoolSteps /\ NextPool
    BY <1>4 DEF PoolFails, PoolSteps
  <2>2. EntryInv'
    BY <2>1, EntriesStayTrue, Zenon DEF SmartInv
  <2>3. OrderInv'
    BY <2>1, Zenon DEF SmartInv, OrderInv, Ordered
  <2>4. VisitInv' /\ StageInv'
    BY <2>1, MovesOn, Zenon
  <2> QED
    BY <2>2, <2>3, <2>4 DEF SmartInv
<1>5. CASE CleanupStatefulSets \/ RemovalFails \/ Crash
  <2>1. UNCHANGED <<listed, replicas, status, sts, excluded, shards>>
    BY <1>5, Zenon DEF CleanupStatefulSets, RemovalFails, Crash
  <2>2. EndPass \/ (pc' = "removeSts" /\ inst' = inst)
    BY <1>5, Zenon DEF CleanupStatefulSets, RemovalFails, NextObsolete, Crash
  <2>3. EndPass \/ ((pc \notin PoolSteps)' /\ inst' = inst)
    BY <2>2 DEF PoolSteps
  <2>4. excluded \subseteq excluded'
    BY <2>1, Zenon
  <2> QED
    BY <2>1, <2>3, <2>4, OutsideKeepsSmartInv
<1> QED
  BY <1>1, <1>2, <1>3, <1>4, <1>5

\* The worker is at a pool: what it finds there is what the resource holds, and unless the pool
\* has been edited since its last scaling was complete, what it wants is what the user wants.
LEMMA AtThePool ==
    ASSUME IInv, SmartInv, NEW p, p = CurrentPool, pc = "pool"
    PROVE  /\ p \in Pool /\ Known(p) /\ EntriesOf(p, status) = EntriesOf(p, inst.status)
           /\ LET c == CurrentStatus(p)
              IN  /\ c.entry \in Entries /\ c.entry.description = p
                  /\ c.found => c.entry \in EntriesOf(p, status)
                  /\ DrainsLead(p, inst.status) /\ c.entry.status \notin Draining => NoDrain(p, inst.status)
<1>1. p \in Pool /\ First(todo) \in todo /\ p = NodePools[First(todo)]
  BY OtherPools DEF PoolSteps, CurrentPool
<1>2. Known(p) /\ EntriesOf(p, status) = EntriesOf(p, inst.status)
  <2>1. pc \in PoolSteps /\ Unvisited(p)
    BY Zenon DEF PoolSteps, Unvisited
  <2> QED
    BY <1>1, <2>1, Zenon DEF SmartInv, VisitInv
<1> DEFINE c == CurrentStatus(p)
<1>3. inst.status \in Seq(Entries) /\ c.entry \in Entries
  BY <1>1, ListTypes, CurrentStatusType, Zenon DEF IInv
<1>4. /\ c.found => c.entry \in EntriesOf(p, inst.status)
      /\ ~c.found => c.entry.description = p
      /\ DrainsLead(p, inst.status) /\ c.entry.status \notin Draining => NoDrain(p, inst.status)
  BY <1>1, <1>3, FirstEntry, Zenon DEF CurrentStatus
<1> HIDE DEF c
<1>5. c.entry.description = p
  BY <1>4, Zenon DEF EntriesOf
<1> QED
  BY <1>1, <1>2, <1>3, <1>4, <1>5, Zenon DEF c

LEMMA AtScaledPool ==
    ASSUME IInv, SmartInv, NEW p, p = CurrentPool, pc = "pool", DesireReplicaDiff(p) # 0
    PROVE  p \in listed /\ inst.replicas[p] = replicas[p] /\ sts[p] # replicas[p]
<1>1. p \in Pool /\ Known(p)
  BY AtThePool, Zenon
<1>2. sts[p] # inst.replicas[p]
  BY <1>1, Counts, Zenon DEF IInv
<1> QED
  BY <1>1, <1>2, Zenon DEF Known

\* The worker replaces an entry of the pool.
LEMMA ReplaceStep ==
    ASSUME IInv, SmartInv, NEW p \in Pool, NEW x, x.description = p, NEW a \in Entries, a.description = p,
           status' = Replace(x, a, status), UNCHANGED <<listed, replicas, sts, inst, excluded, shards>>,
           a.status \in Draining => UpToDate(a)
    PROVE  /\ EntryInv' /\ OrderInv'
           /\ \A q \in Pool \ {p} : EntriesOf(q, status') = EntriesOf(q, status)
           /\ EntriesOf(p, status') \subseteq EntriesOf(p, status) \cup {a}
<1>0. status \in Seq(Entries)
  BY ListTypes, Zenon DEF IInv
<1>a. GainsOnly(p, a, status', status) /\ a \in EntriesOf(p, status')
  BY <1>0, ReplacesInPool, Zenon DEF OfPool
<1>1. /\ Elems(status') \subseteq Elems(status) \cup {a}
      /\ \A q : DrainsLead(q, status) /\ (q # p \/ a.status \notin Draining) => DrainsLead(q, status')
      /\ \A q : q # p => EntriesOf(q, status') = EntriesOf(q, status)
  BY <1>a, Zenon DEF GainsOnly
<1>2. UpToDate(a) => UpToDate(a)'
  BY Zenon DEF UpToDate, LastReplica
<1>3. EntryInv'
  BY <1>1, <1>2, EntriesStayTrue, Zenon DEF SmartInv
<1>4. Ordered(p)
  BY Zenon DEF SmartInv, OrderInv
<1>5. ASSUME a.status \in Draining PROVE p \in listed /\ ~(sts[p] < replicas[p])
  <2>1. sts[p] > replicas[p]
    BY <1>5, Zenon DEF UpToDate
  <2>2. ~(sts[p] <= replicas[p]) /\ ~(sts[p] < replicas[p])
    BY <2>1, Counts, CompareCounts, Zenon DEF IInv
  <2> QED
    BY <1>4, <2>2, Zenon DEF Ordered
<1>6. EntriesOf(p, status') # {}
  BY <1>a, Zenon
<1>7. p \notin listed \/ sts[p] < replicas[p] => DrainsLead(p, status') /\ DrainsLead(p, inst.status)
  BY <1>1, <1>4, <1>5, Zenon DEF Ordered
<1>8. Ordered(p)'
  BY <1>4, <1>6, <1>7, Zenon DEF Ordered
<1>9. OrderInv'
  BY <1>1, <1>8, OthersOrdered, Zenon DEF SmartInv
<1> QED
  BY <1>1, <1>3, <1>9, Zenon DEF EntriesOf

\* Only an entry that names the last node may be current.
LEMMA CurrentEntry ==
    ASSUME IInv, SmartInv, NEW e \in Elems(status) \cup Elems(inst.status), e.status \in Draining,
           NEW p \in Pool, e.description = p, e.conditions = LastReplica(p)
    PROVE  UpToDate(e)
<1>1. ~OutOfDate(e)
  BY LastIsCurrent, Zenon DEF IInv
<1> QED
  BY <1>1, Zenon DEF SmartInv, EntryInv

\* The worker has changed the entries of the pool, or its StatefulSet, and goes on to the next.
LEMMA DoneWithPool ==
    ASSUME IInv, SmartInv, pc \in PoolSteps, NEW p, p = CurrentPool, NextPool,
           UNCHANGED <<listed, replicas, inst>>,
           \A q \in Pool \ {p} : sts'[q] = sts[q] /\ EntriesOf(q, status') = EntriesOf(q, status)
    PROVE  VisitInv' /\ StageInv'
<1>1. ASSUME NEW i \in Rest PROVE EntriesOf(NodePools[i], status') = EntriesOf(NodePools[i], status)
  BY <1>1, OtherPools, Zenon
<1> QED
  BY <1>1, MovesOn, Zenon

LEMMA StartKeepsSmartInv ==
    ASSUME IInv, SmartInv, smart, NEW p \in Pool, StartScaling(p)
    PROVE  SmartInv'
<1> USE DEF kube
<1> DEFINE r == Entry(p, "Running", NoNode)
           c == CurrentStatus(p)
           next == IF DesireReplicaDiff(p) < 0 THEN "increase" ELSE "exclude"
<1>0. r \in Entries /\ r.description = p /\ r.status \notin Draining
  BY PlainEntries, Zenon DEF PlainEntry
<1>1. /\ pc = "pool" /\ p = CurrentPool /\ DesireReplicaDiff(p) # 0 /\ GoesOn(next) /\ cur' = c.entry
      /\ status' = Replace(c.entry, r, status) /\ (~c.found \/ c.entry.status \in {"Running", "Waiting"})
      /\ UNCHANGED <<listed, replicas, sts, inst, excluded, shards>>
  BY Zenon DEF StartScaling
<1>2. /\ EntriesOf(p, status) = EntriesOf(p, inst.status)
      /\ c.entry \in Entries /\ c.entry.description = p
      /\ DrainsLead(p, inst.status) /\ c.entry.status \notin Draining => NoDrain(p, inst.status)
  BY <1>1, AtThePool, Zenon
<1>3. p \in listed /\ inst.replicas[p] = replicas[p] /\ sts[p] # replicas[p]
  BY <1>1, AtScaledPool, Zenon
<1>4. c.entry.status \notin Draining
  <2>1. ~c.found => c.entry = r
    BY FirstEntry, ListTypes, Zenon DEF CurrentStatus, IInv
  <2> HIDE DEF r, c
  <2> QED
    BY <1>0, <1>1, <2>1 DEF Draining
<1> HIDE DEF r, c
<1>5. /\ EntryInv' /\ OrderInv'
      /\ \A q \in Pool \ {p} : EntriesOf(q, status') = EntriesOf(q, status)
      /\ EntriesOf(p, status') \subseteq EntriesOf(p, status) \cup {r}
  BY <1>0, <1>1, <1>2, ReplaceStep, Zenon
<1>6. pc \in PoolSteps /\ next \in PoolSteps
  BY <1>1, Zenon DEF PoolSteps
<1>7. CASE NextPool
  BY <1>1, <1>5, <1>6, <1>7, DoneWithPool, Zenon DEF SmartInv
<1>8. CASE pc' = next /\ UNCHANGED todo
  <2>1. Known(p)'
    BY <1>1, <1>3, Zenon DEF Known
  <2>2. ~((pc \in {"clean", "pool", "dropStatus"})')
    BY <1>8, Zenon
  <2>3. VisitInv' /\ CurrentPool' = p
    BY <1>1, <1>5, <1>6, <1>8, <2>1, <2>2, StaysAt, Zenon
  <2>5. CASE DesireReplicaDiff(p) < 0
    <3>1. sts[p] < replicas[p]
      BY <1>3, <2>5, Counts, Zenon DEF IInv
    <3>2. NoDrain(p, inst.status)
      BY <1>2, <1>4, <3>1, Zenon DEF SmartInv, OrderInv, Ordered
    <3>3. NoDrain(p, status')
      BY <1>0, <1>2, <1>5, <3>2, Zenon DEF NoDrain
    <3>4. pc' = "increase"
      BY <1>8, <2>5, Zenon
    <3>5. StageInv'
      BY <1>1, <2>3, <3>2, <3>3, <3>4, Zenon DEF StageInv
    <3> QED
      BY <1>5, <2>3, <3>5 DEF SmartInv
  <2>6. CASE ~(DesireReplicaDiff(p) < 0)
    <3>1. sts[p] > replicas[p]
      BY <1>1, <1>3, <2>6, Counts, Zenon DEF IInv
    <3>2. pc' = "exclude"
      BY <1>8, <2>6, Zenon
    <3>3. StageInv'
      BY <1>1, <1>2, <2>3, <3>1, <3>2, Zenon DEF StageInv
    <3> QED
      BY <1>5, <2>3, <3>3 DEF SmartInv
  <2> QED
    BY <2>5, <2>6
<1> QED
  BY <1>1, <1>7, <1>8, Zenon DEF GoesOn

LEMMA ResetKeepsSmartInv ==
    ASSUME IInv, SmartInv, NEW p \in Pool, ResetToRunning(p)
    PROVE  SmartInv'
<1> USE DEF kube
<1> DEFINE r == Entry(p, "Running", NoNode)
           c == CurrentStatus(p)
<1>0. r \in Entries /\ r.description = p /\ r.status \notin Draining
  BY PlainEntries, Zenon DEF PlainEntry
<1>1. /\ pc = "pool" /\ p = CurrentPool /\ NextPool /\ status' = Replace(c.entry, r, status)
      /\ UNCHANGED <<listed, replicas, sts, inst, excluded, shards>>
  BY Zenon DEF ResetToRunning, InStage, Done
<1>2. c.entry.description = p
  BY <1>1, AtThePool, Zenon
<1> HIDE DEF r, c
<1>3. /\ EntryInv' /\ OrderInv'
      /\ \A q \in Pool \ {p} : EntriesOf(q, status') = EntriesOf(q, status)
  BY <1>0, <1>1, <1>2, ReplaceStep, Zenon
<1>4. pc \in PoolSteps
  BY <1>1, Zenon DEF PoolSteps
<1> QED
  BY <1>1, <1>3, <1>4, DoneWithPool, Zenon DEF SmartInv

\* excludeNode and drainNode record what is the case.
LEMMA RecordKeepsSmartInv ==
    ASSUME IInv, SmartInv, NEW p \in Pool, SetExcluded(p) \/ SetDrained(p)
    PROVE  SmartInv'
<1> USE DEF kube
<1> DEFINE st == IF pc = "setExcluded" THEN "Excluded" ELSE "Drained"
           a == Entry(p, st, LastReplica(p))
<1>1. /\ pc \in {"setExcluded", "setDrained"} /\ p = CurrentPool /\ NextPool /\ status' = Replace(cur, a, status)
      /\ UNCHANGED <<listed, replicas, sts, inst, excluded, shards>>
  BY DEF SetExcluded, SetDrained, Done
<1>2. cur.description = p /\ sts[p] > replicas[p] /\ LastReplica(p) \in excluded
  BY <1>1, Zenon DEF SmartInv, StageInv
<1>3. st \in Draining
  BY Zenon DEF Draining
<1> HIDE DEF st
<1>4. a \in Entries /\ a.description = p /\ UpToDate(a)
  BY <1>2, <1>3, NewEntry, Zenon DEF IInv
<1> HIDE DEF a
<1>5. /\ EntryInv' /\ OrderInv'
      /\ \A q \in Pool \ {p} : EntriesOf(q, status') = EntriesOf(q, status)
  BY <1>1, <1>2, <1>4, ReplaceStep, Zenon
<1>6. pc \in PoolSteps
  BY <1>1, Zenon DEF PoolSteps
<1> QED
  BY <1>1, <1>5, <1>6, DoneWithPool, Zenon DEF SmartInv

\* The worker has neither changed the entries nor the StatefulSets.
LEMMA NothingRecorded ==
    ASSUME SmartInv, UNCHANGED <<listed, replicas, sts, status, inst, shards>>, excluded \subseteq excluded'
    PROVE  EntryInv' /\ OrderInv'
<1>1. EntryInv'
  BY EntriesStayTrue, Zenon DEF SmartInv
<1>2. OrderInv'
  BY Zenon DEF SmartInv, OrderInv, Ordered
<1> QED
  BY <1>1, <1>2

LEMMA ExcludeKeepsSmartInv ==
    ASSUME IInv, SmartInv, NEW p \in Pool, ExcludeNode(p)
    PROVE  SmartInv'
<1> USE DEF kube
<1>1. /\ pc = "exclude" /\ p = CurrentPool /\ GoesOn("setExcluded")
      /\ UNCHANGED <<listed, replicas, sts, status, inst, shards, cur>>
  BY Zenon DEF ExcludeNode
<1>2. excluded' = excluded \cup {LastReplica(p)}
  BY Zenon DEF ExcludeNode, AppendExcludeNodeHost
<1>3. EntryInv' /\ OrderInv'
  BY <1>1, <1>2, NothingRecorded, Zenon
<1>4. pc \in PoolSteps
  BY <1>1, Zenon DEF PoolSteps
<1>5. CASE NextPool
  BY <1>1, <1>3, <1>4, <1>5, DoneWithPool, Zenon DEF SmartInv
<1>6. CASE pc' = "setExcluded" /\ UNCHANGED todo
  <2>1. Known(p)
    BY <1>1, <1>4, OtherPools, Zenon DEF SmartInv, VisitInv, CurrentPool
  <2>2. Known(p)'
    BY <1>1, <2>1, Zenon DEF Known
  <2>3. ~((pc \in {"clean", "pool", "dropStatus"})')
    BY <1>6, Zenon
  <2>4. VisitInv' /\ CurrentPool' = p
    BY <1>1, <1>4, <1>6, <2>2, <2>3, StaysAt, Zenon
  <2>5. LastReplica(p)' \in excluded'
    BY <1>1, <1>2, Zenon DEF LastReplica
  <2>6. sts[p] > replicas[p] /\ cur.description = p
    BY <1>1, Zenon DEF SmartInv, StageInv
  <2>7. LastReplica(CurrentPool)' \in excluded'
    BY <2>4, <2>5 DEF LastReplica
  <2>8. StageInv'
    BY <1>1, <1>6, <2>4, <2>6, <2>7, Zenon DEF StageInv
  <2> QED
    BY <1>3, <2>4, <2>8 DEF SmartInv
<1> QED
  BY <1>1, <1>5, <1>6, Zenon DEF GoesOn

\* The entry the worker acts on, from exclusion on, is current or it is reset.
LEMMA StageEntry ==
    ASSUME IInv, SmartInv, NEW p \in Pool, NEW stage \in Draining, InStage(p, stage), TargetIsLast(p)
    PROVE  LET e == CurrentStatus(p).entry
           IN  /\ pc = "pool" /\ p = CurrentPool
               /\ e.status = stage /\ e.description = p /\ UpToDate(e)
<1> DEFINE e == CurrentStatus(p).entry
<1>1. pc = "pool" /\ p = CurrentPool /\ CurrentStatus(p).found /\ e.status = stage
  BY Zenon DEF InStage
<1>2. e \in Entries /\ e.description = p /\ e \in EntriesOf(p, status)
  BY <1>1, AtThePool, Zenon
<1>3. e.conditions \in Node
  BY <1>1, <1>2, TargetOfEntry, Zenon DEF Draining
<1>4. e.conditions = LastReplica(p)
  BY <1>3, NoNodeIsNoNode, Zenon DEF TargetIsLast
<1>5. e \in Elems(status) \cup Elems(inst.status)
  BY <1>2, Zenon DEF EntriesOf
<1> HIDE DEF e
<1>6. UpToDate(e)
  BY <1>1, <1>2, <1>4, <1>5, CurrentEntry, Zenon
<1> QED
  BY <1>1, <1>2, <1>6, Zenon DEF e

LEMMA WatchKeepsSmartInv ==
    ASSUME IInv, SmartInv, NEW p \in Pool, WatchDrain(p)
    PROVE  SmartInv'
<1> USE DEF kube
<1> DEFINE e == CurrentStatus(p).entry
<1>1. /\ InStage(p, "Excluded") /\ TargetIsLast(p) /\ cur' = e
      /\ UNCHANGED <<listed, replicas, sts, status, excluded, shards, inst>>
  BY Zenon DEF WatchDrain
<1>2. pc = "pool" /\ p = CurrentPool /\ e.description = p /\ UpToDate(e)
  BY <1>1, StageEntry, Zenon DEF Draining
<1> HIDE DEF e
<1>3. EntryInv' /\ OrderInv'
  BY <1>1, NothingRecorded, Zenon
<1>4. pc \in PoolSteps
  BY <1>2, Zenon DEF PoolSteps
<1>5. CASE NextPool
  BY <1>1, <1>2, <1>3, <1>4, <1>5, DoneWithPool, Zenon DEF SmartInv
<1>6. CASE pc' = "setDrained" /\ UNCHANGED todo
  <2>1. Known(p)
    BY <1>2, AtThePool, Zenon
  <2>2. Known(p)'
    BY <1>1, <2>1, Zenon DEF Known
  <2>3. ~((pc \in {"clean", "pool", "dropStatus"})')
    BY <1>6, Zenon
  <2>4. VisitInv' /\ CurrentPool' = p
    BY <1>1, <1>2, <1>4, <1>6, <2>2, <2>3, StaysAt, Zenon
  <2>5. sts[p] > replicas[p] /\ LastReplica(p) \in excluded
    BY <1>2, Zenon DEF UpToDate
  <2>6. LastReplica(CurrentPool)' = LastReplica(p)
    BY <1>1, <2>4 DEF LastReplica
  <2>7. StageInv'
    BY <1>1, <1>2, <1>6, <2>4, <2>5, <2>6, Zenon DEF StageInv
  <2> QED
    BY <1>3, <2>4, <2>7 DEF SmartInv
<1> QED
  BY <1>5, <1>6, Zenon DEF WatchDrain, HasShardsOnNode, Done

\* A StatefulSet grows: no drain of its nodes is recorded.
LEMMA IncreaseKeepsSmartInv ==
    ASSUME IInv, SmartInv, NEW p \in Pool, IncreaseOneNode(p)
    PROVE  SmartInv'
<1>1. /\ pc = "increase" /\ p = CurrentPool /\ NextPool
      /\ UNCHANGED <<listed, replicas, status, excluded, shards, inst>> /\ sts' = [sts EXCEPT ![p] = @ + 1]
  BY Zenon DEF IncreaseOneNode, Done
<1>2. \A q \in Pool \ {p} : sts'[q] = sts[q]
  BY <1>1 DEF IInv, TypeOK
<1>3. NoDrain(p, status) /\ NoDrain(p, inst.status)
  BY <1>1, Zenon DEF SmartInv, StageInv
<1>4. pc \in PoolSteps
  BY <1>1, Zenon DEF PoolSteps
<1>5. EntryInv'
  <2>1. ASSUME NEW e \in Elems(status) \cup Elems(inst.status), e.status \in Draining
        PROVE  (OutOfDate(e) \/ UpToDate(e))'
    <3>1. e \in Entries
      BY ListTypes, Zenon DEF IInv
    <3>2. e.description \in Pool /\ (OutOfDate(e) \/ UpToDate(e))
      BY <2>1, <3>1, EntryFields DEF SmartInv, EntryInv
    <3>3. e.description # p
      BY <1>3, <2>1, Zenon DEF NoDrain, EntriesOf
    <3>4. sts'[e.description] = sts[e.description]
      BY <1>2, <3>2, <3>3, Zenon
    <3> QED
      BY <1>1, <3>2, <3>4, StaysTrue, Zenon
  <2> QED
    BY <1>1, <2>1, Zenon DEF EntryInv
<1>6. p \in listed
  <2>1. Known(p)
    BY <1>1, <1>4, OtherPools, Zenon DEF SmartInv, VisitInv, CurrentPool
  <2>2. sts[p] \in 0..MaxReplicas /\ sts[p] < inst.replicas[p]
    BY <1>1 DEF IInv, TypeOK
  <2> QED
    BY <2>1, <2>2, NotLessThanItself, Zenon DEF Known
<1>7. Ordered(p)'
  BY <1>1, <1>3, <1>6, NoneDraining, Zenon DEF Ordered
<1>8. OrderInv'
  BY <1>1, <1>2, <1>7, OthersOrdered, Zenon DEF SmartInv
<1> QED
  BY <1>1, <1>2, <1>4, <1>5, <1>8, DoneWithPool, Zenon DEF SmartInv

\* A StatefulSet loses its last node: the entry that names it is now out of date.
LEMMA ShrinkMakesOutOfDate ==
    ASSUME IInv, SmartInv, NEW p \in Pool, sts' = [sts EXCEPT ![p] = @ - 1],
           UNCHANGED <<replicas, excluded, shards>>,
           Elems(status') \cup Elems(inst'.status) \subseteq Elems(status) \cup Elems(inst.status)
    PROVE  /\ EntryInv' /\ sts'[p] = sts[p] - 1
           /\ \A q \in Pool \ {p} : sts'[q] = sts[q]
<1>1. /\ sts'[p] = sts[p] - 1 /\ \A q \in Pool \ {p} : sts'[q] = sts[q]
  BY DEF IInv, TypeOK
<1>2. ASSUME NEW e \in Elems(status) \cup Elems(inst.status), e.status \in Draining
      PROVE  (OutOfDate(e) \/ UpToDate(e))'
  <2>1. e \in Entries
    BY ListTypes, Zenon DEF IInv
  <2>2. e.description \in Pool /\ e.conditions \in Node /\ (OutOfDate(e) \/ UpToDate(e))
    BY <1>2, <2>1, EntryFields DEF SmartInv, EntryInv
  <2>3. CASE e.description = p
    <3>1. e.conditions[2] >= sts[e.description] - 1
      BY <1>2, <2>1, <2>2, LastIsCurrent, Zenon DEF IInv
    <3> QED
      BY <1>1, <2>3, <3>1, Zenon DEF OutOfDate
  <2>4. CASE e.description # p
    <3>1. sts'[e.description] = sts[e.description]
      BY <1>1, <2>2, <2>4, Zenon
    <3> QED
      BY <2>2, <3>1, StaysTrue, Zenon
  <2> QED
    BY <2>3, <2>4
<1>3. EntryInv'
  BY <1>2, Zenon DEF EntryInv
<1> QED
  BY <1>1, <1>3, Zenon

LEMMA DecreaseKeepsSmartInv ==
    ASSUME IInv, SmartInv, NEW p \in Pool, DecreaseOneNode(p)
    PROVE  SmartInv'
<1> DEFINE e == CurrentStatus(p).entry
<1>1. InStage(p, "Drained") /\ TargetIsLast(p) /\ cur' = e
  BY Zenon DEF DecreaseOneNode, SmartInv, StageInv
<1>2. /\ GoesOn("dropStatus") /\ UNCHANGED <<listed, replicas, status, excluded, shards, inst>>
      /\ sts' = [sts EXCEPT ![p] = @ - 1]
  BY Zenon DEF DecreaseOneNode
<1>3. pc = "pool" /\ p = CurrentPool /\ e.description = p /\ UpToDate(e)
  BY <1>1, StageEntry, Zenon DEF Draining
<1>4. DesireReplicaDiff(p) # 0
  BY <1>1, Zenon DEF InStage
<1> HIDE DEF e
<1>5. EntryInv' /\ sts'[p] = sts[p] - 1 /\ \A q \in Pool \ {p} : sts'[q] = sts[q]
  BY <1>2, ShrinkMakesOutOfDate, Zenon
<1>6. p \in listed /\ inst.replicas[p] = replicas[p]
  BY <1>3, <1>4, AtScaledPool, Zenon
<1>7. ~(sts'[p] < replicas[p])
  <2>1. sts[p] > replicas[p]
    BY <1>3, Zenon DEF UpToDate
  <2>2. sts[p] \in Int /\ replicas[p] \in Int
    BY DEF IInv, TypeOK
  <2> QED
    BY <1>5, <2>1, <2>2
<1>8. Ordered(p)'
  BY <1>2, <1>6, <1>7, Zenon DEF SmartInv, OrderInv, Ordered
<1>9. OrderInv'
  BY <1>2, <1>5, <1>8, OthersOrdered, Zenon DEF SmartInv
<1>10. pc \in PoolSteps
  BY <1>3, Zenon DEF PoolSteps
<1>11. CASE NextPool
  BY <1>2, <1>3, <1>5, <1>9, <1>10, <1>11, DoneWithPool, Zenon DEF SmartInv
<1>12. CASE pc' = "dropStatus" /\ UNCHANGED todo
  <2>1. Known(p)'
    BY <1>2, <1>6, Zenon DEF Known
  <2>2. EntriesOf(p, status') = EntriesOf(p, inst.status)
    BY <1>2, <1>3, AtThePool, Zenon
  <2>3. VisitInv' /\ CurrentPool' = p
    BY <1>2, <1>3, <1>5, <1>10, <1>12, <2>1, <2>2, StaysAt, Zenon
  <2>4. StageInv'
    BY <1>1, <1>3, <1>12, <2>3, Zenon DEF StageInv
  <2> QED
    BY <1>5, <1>9, <2>3, <2>4 DEF SmartInv
<1> QED
  BY <1>2, <1>11, <1>12, Zenon DEF GoesOn

LEMMA DropKeepsSmartInv ==
    ASSUME IInv, SmartInv, smart, NEW p \in Pool, DropStatus(p)
    PROVE  SmartInv'
<1> USE DEF kube
<1>1. /\ pc = "dropStatus" /\ p = CurrentPool /\ status' = RemoveIt(cur, status) /\ GoesOn("include")
      /\ UNCHANGED <<listed, replicas, sts, excluded, shards, inst>>
  BY Zenon DEF DropStatus
<1>2. pc \in PoolSteps /\ Unvisited(p)
  BY <1>1, Zenon DEF PoolSteps, Unvisited
<1>3. cur.description = p /\ Known(p) /\ EntriesOf(p, status) = EntriesOf(p, inst.status)
  <2>1. First(todo) \in todo /\ p = NodePools[First(todo)]
    BY <1>1, <1>2, OtherPools, Zenon DEF CurrentPool
  <2>2. Known(p) /\ EntriesOf(p, status) = EntriesOf(p, inst.status)
    BY <1>2, <2>1, Zenon DEF SmartInv, VisitInv
  <2> QED
    BY <1>1, <2>2, Zenon DEF SmartInv, StageInv
<1>4. status \in Seq(Entries)
  BY ListTypes, Zenon DEF IInv
<1>a. LosesOnly(p, status', status) /\ (EntriesOf(p, status') = {} => AtMostOne(p, status))
  BY <1>1, <1>3, <1>4, RemovesOfPool, Zenon DEF OfPool
<1>5. /\ Elems(status') \subseteq Elems(status)
      /\ \A q : DrainsLead(q, status) => DrainsLead(q, status')
      /\ \A q : q # p => EntriesOf(q, status') = EntriesOf(q, status)
      /\ EntriesOf(p, status') = {} => \A e, f \in EntriesOf(p, status) : e = f
  BY <1>a, Zenon DEF LosesOnly, AtMostOne
<1>6. EntryInv'
  BY <1>1, <1>5, EntriesStayTrue, Zenon DEF SmartInv
<1>7. Ordered(p)'
  <2>1. Ordered(p)
    BY Zenon DEF SmartInv, OrderInv
  <2>2. EntriesOf(p, status') = {} => DrainsLead(p, inst.status)
    BY <1>3, <1>5, AllTheSame, Zenon
  <2> QED
    BY <1>1, <1>5, <2>1, <2>2, Zenon DEF Ordered
<1>8. OrderInv'
  BY <1>1, <1>5, <1>7, OthersOrdered, Zenon DEF SmartInv
<1>9. CASE NextPool
  BY <1>1, <1>2, <1>5, <1>6, <1>8, <1>9, DoneWithPool, Zenon DEF SmartInv
<1>10. CASE pc' = "include" /\ UNCHANGED todo
  <2>1. EntriesOf(p, status') \subseteq EntriesOf(p, status)
    BY <1>5, Zenon DEF EntriesOf
  <2>2. EntriesOf(p, status) = {} => EntriesOf(p, status') = {}
    BY <2>1, Zenon
  <2>3. Known(p)'
    BY <1>1, <1>3, <2>2, Zenon DEF Known
  <2>4. ~((pc \in {"clean", "pool", "dropStatus"})')
    BY <1>10, Zenon
  <2>5. VisitInv' /\ CurrentPool' = p
    BY <1>1, <1>2, <1>5, <1>10, <2>3, <2>4, StaysAt, Zenon
  <2>6. StageInv'
    BY <1>10, Zenon DEF StageInv
  <2> QED
    BY <1>6, <1>8, <2>5, <2>6 DEF SmartInv
<1> QED
  BY <1>1, <1>9, <1>10, Zenon DEF GoesOn

\* The name taken off the exclude list is that of a node that has left: no entry relies on it.
LEMMA IncludeLeavesTrue ==
    ASSUME IInv, SmartInv, NEW p \in Pool, excluded' = excluded \ {ReplicaHostName(p, sts[p])},
           UNCHANGED <<sts, replicas, shards>>,
           Elems(status') \cup Elems(inst'.status) \subseteq Elems(status) \cup Elems(inst.status)
    PROVE  EntryInv'
<1>1. ASSUME NEW q \in Pool PROVE LastReplica(q) # ReplicaHostName(p, sts[p])
  BY NextIsNotLast, Zenon DEF IInv
<1>2. ASSUME NEW e \in Elems(status) \cup Elems(inst.status), e.status \in Draining
      PROVE  (OutOfDate(e) \/ UpToDate(e))'
  <2>1. e \in Entries
    BY ListTypes, Zenon DEF IInv
  <2>2. e.description \in Pool /\ (OutOfDate(e) \/ UpToDate(e))
    BY <1>2, <2>1, EntryFields DEF SmartInv, EntryInv
  <2>3. LastReplica(e.description) \in excluded => LastReplica(e.description) \in excluded'
    BY <1>1, <2>2, Zenon
  <2> QED
    BY <2>2, <2>3, StaysTrue, Zenon
<1> QED
  BY <1>2, Zenon DEF EntryInv

LEMMA IncludeKeepsSmartInv ==
    ASSUME IInv, SmartInv, NEW p \in Pool, IncludeNode(p)
    PROVE  SmartInv'
<1> USE DEF kube
<1>1. /\ pc = "include" /\ p = CurrentPool /\ NextPool
      /\ UNCHANGED <<listed, replicas, sts, status, shards, inst>>
  BY Zenon DEF IncludeNode, Done
<1>2. excluded' = excluded \ {ReplicaHostName(p, sts[p])}
  BY Zenon DEF IncludeNode, RemoveExcludeNodeHost
<1>3. EntryInv'
  BY <1>1, <1>2, IncludeLeavesTrue, Zenon
<1>4. OrderInv'
  BY <1>1, Zenon DEF SmartInv, OrderInv, Ordered
<1>5. pc \in PoolSteps
  BY <1>1, Zenon DEF PoolSteps
<1> QED
  BY <1>1, <1>3, <1>4, <1>5, DoneWithPool, Zenon DEF SmartInv

\* What settling a pool makes of a list, and of the slice it came in.
LEMMA SettledEffect ==
    ASSUME IInv, NEW p \in Pool, CurrentStatus(p).entry.description = p, NEW list \in Seq(Entries)
    PROVE  LET new == Settled(p, list).new
               slice == Settled(p, list).slice
           IN  /\ slice \in Seq(Entries)
               /\ \A e \in Elems(new) \cup Elems(slice) : e \in Elems(list) \/ e.status \notin Draining
               /\ \A q : q # p => /\ EntriesOf(q, new) = EntriesOf(q, list)
                                  /\ EntriesOf(q, slice) = EntriesOf(q, list)
                                  /\ DrainsLead(q, list) => DrainsLead(q, new) /\ DrainsLead(q, slice)
               /\ EntriesOf(p, new) = {} => DrainsLead(p, slice)
<1> DEFINE x == CurrentStatus(p).entry
           w == Entry(p, "Waiting", NoNode)
           new == Settled(p, list).new
           slice == Settled(p, list).slice
<1>1. w \in Entries /\ w.description = p /\ w.status \notin Draining
  BY PlainEntries, Zenon DEF PlainEntry
<1>2. x.description = p
  OBVIOUS
<1> HIDE DEF x, w
<1>3. CASE ReadyReplicas(p) # inst.replicas[p]
  <2>1. new = Replace(x, w, list) /\ slice = SliceAfterReplace(x, w, list)
    BY <1>3, Zenon DEF Settled, x, w
  <2> HIDE DEF new, slice
  <2>2. slice \in Seq(Entries)
    BY <1>1, <2>1, SliceAfterReplaceType, Zenon
  <2>a. GainsOnly(p, w, new, list) /\ GainsOnly(p, w, slice, list) /\ w \in EntriesOf(p, new)
    BY <1>1, <1>2, <2>1, ReplacesInPool, Zenon DEF OfPool
  <2>3. /\ Elems(new) \subseteq Elems(list) \cup {w} /\ w \in EntriesOf(p, new)
        /\ \A q : q # p => EntriesOf(q, new) = EntriesOf(q, list) /\ (DrainsLead(q, list) => DrainsLead(q, new))
    BY <1>1, <2>a, Zenon DEF GainsOnly
  <2>4. /\ Elems(slice) \subseteq Elems(list) \cup {w}
        /\ \A q : q # p => EntriesOf(q, slice) = EntriesOf(q, list) /\ (DrainsLead(q, list) => DrainsLead(q, slice))
    BY <1>1, <2>a, Zenon DEF GainsOnly
  <2> QED
    BY <1>1, <2>2, <2>3, <2>4, Zenon DEF new, slice
<1>4. CASE ReadyReplicas(p) = inst.replicas[p]
  <2>1. new = RemoveIt(x, list) /\ slice = SliceAfterRemoveIt(x, list)
    BY <1>4, Zenon DEF Settled, x, w
  <2> HIDE DEF new, slice
  <2>2. slice \in Seq(Entries)
    BY <2>1, SliceAfterRemoveItType, Zenon
  <2>a. /\ LosesOnly(p, new, list) /\ LosesOnly(p, slice, list)
        /\ EntriesOf(p, new) = {} => AtMostOne(p, list)
    BY <1>2, <2>1, RemovesOfPool, Zenon DEF OfPool
  <2>3. /\ Elems(new) \subseteq Elems(list) /\ Elems(slice) \subseteq Elems(list)
        /\ \A q : DrainsLead(q, list) => DrainsLead(q, new) /\ DrainsLead(q, slice)
        /\ \A q : q # p => EntriesOf(q, new) = EntriesOf(q, list) /\ EntriesOf(q, slice) = EntriesOf(q, list)
        /\ EntriesOf(p, new) = {} => \A e, f \in EntriesOf(p, list) : e = f
    BY <2>a, Zenon DEF LosesOnly, AtMostOne
  <2>4. EntriesOf(p, new) = {} => DrainsLead(p, slice)
    BY <2>3, AllTheSame, Zenon
  <2> QED
    BY <2>2, <2>3, <2>4, Zenon DEF new, slice
<1> QED
  BY <1>3, <1>4, Zenon

\* A pool that has the replicas asked for.  The list that is written back is that of the pass:
\* pools visited before go back to the entries the pass has read.
LEMMA SettledKeepsSmartInv ==
    ASSUME IInv, SmartInv, NEW p \in Pool, p = CurrentPool, AtDesiredReplicas(p), CurrentStatus(p).found,
           NextPool, UNCHANGED <<listed, replicas, sts, excluded, shards>>, inst'.replicas = inst.replicas,
           \A e \in Elems(status') \cup Elems(inst'.status) :
               e \in Elems(status) \cup Elems(inst.status) \/ e.status \notin Draining,
           EntriesOf(p, status') = {} => DrainsLead(p, inst'.status),
           \A q \in Pool \ {p} :
               /\ EntriesOf(q, inst'.status) = EntriesOf(q, inst.status)
               /\ DrainsLead(q, inst.status) => DrainsLead(q, inst'.status)
               /\ \/ status' = status
                  \/ /\ EntriesOf(q, status') = EntriesOf(q, inst.status)
                     /\ DrainsLead(q, inst.status) => DrainsLead(q, status')
    PROVE  SmartInv'
<1>1. pc = "pool" /\ pc \in PoolSteps /\ DesireReplicaDiff(p) = 0
  BY DEF AtDesiredReplicas, PoolSteps
<1>2. Known(p) /\ EntriesOf(p, status) # {}
  BY <1>1, AtThePool, Zenon
<1>3. p \in listed /\ ~(sts[p] < replicas[p])
  <2>1. p \in listed /\ inst.replicas[p] = replicas[p]
    BY <1>2, Zenon DEF Known
  <2>2. sts[p] = replicas[p]
    BY <1>1, <2>1, Counts, Zenon DEF IInv
  <2> QED
    BY <2>1, <2>2, Counts, CompareCounts, Zenon DEF IInv
<1>4. EntryInv'
  BY EntriesStayTrue, Zenon DEF SmartInv
<1>5. Ordered(p)'
  BY <1>3, Zenon DEF Ordered
<1>6. ASSUME NEW q \in Pool \ {p} PROVE Ordered(q)'
  <2>1. Ordered(q)
    BY Zenon DEF SmartInv, OrderInv
  <2>2. EntriesOf(q, inst.status) = {} => DrainsLead(q, inst'.status)
    BY AllTheSame, Zenon
  <2>3. q \notin listed \/ sts[q] < replicas[q] => DrainsLead(q, status') /\ DrainsLead(q, inst'.status)
    BY <2>1, Zenon DEF Ordered
  <2>4. EntriesOf(q, status') = {} => DrainsLead(q, inst'.status)
    BY <2>1, <2>2, Zenon DEF Ordered
  <2> QED
    BY <2>1, <2>3, <2>4, Zenon DEF Ordered
<1>7. OrderInv'
  BY <1>5, <1>6, Zenon DEF OrderInv
<1>8. VisitInv' /\ StageInv'
  <2>1. ASSUME NEW i \in Rest, NEW q, q = NodePools[i]
        PROVE  /\ EntriesOf(q, status') = EntriesOf(q, status)
               /\ EntriesOf(q, inst'.status) = EntriesOf(q, inst.status)
    <3>1. i \in todo /\ q \in Pool \ {p}
      BY <1>1, <2>1, OtherPools, Zenon
    <3>2. EntriesOf(q, status) = EntriesOf(q, inst.status)
      BY <1>1, <2>1, <3>1, Zenon DEF SmartInv, VisitInv, Unvisited
    <3> QED
      BY <3>1, <3>2, Zenon
  <2> QED
    BY <1>1, <2>1, MovesOn, Zenon
<1> QED
  BY <1>4, <1>7, <1>8, Zenon DEF SmartInv

LEMMA SettleKeepsSmartInv ==
    ASSUME IInv, SmartInv, NEW p \in Pool, NothingToScale(p) \/ SettlePool(p) \/ SettlePoolFaulty(p)
    PROVE  SmartInv'
<1> USE DEF kube
<1>1. /\ pc = "pool" /\ p = CurrentPool /\ AtDesiredReplicas(p) /\ NextPool
      /\ UNCHANGED <<listed, replicas, sts, excluded, shards>>
  BY Zenon DEF NothingToScale, SettlePool, SettlePoolFaulty, Done, AtDesiredReplicas
<1>2. pc \in PoolSteps
  BY <1>1, Zenon DEF PoolSteps
<1>3. CurrentStatus(p).entry.description = p /\ inst.status \in Seq(Entries)
  BY <1>1, AtThePool, ListTypes, Zenon DEF IInv
<1> DEFINE new == Settled(p, inst.status).new
           slice == Settled(p, inst.status).slice
           again == Settled(p, slice).new
           slice2 == Settled(p, slice).slice
<1>4. /\ slice \in Seq(Entries)
      /\ \A e \in Elems(new) \cup Elems(slice) : e \in Elems(inst.status) \/ e.status \notin Draining
      /\ \A q : q # p => /\ EntriesOf(q, new) = EntriesOf(q, inst.status)
                         /\ EntriesOf(q, slice) = EntriesOf(q, inst.status)
                         /\ DrainsLead(q, inst.status) => DrainsLead(q, new) /\ DrainsLead(q, slice)
      /\ EntriesOf(p, new) = {} => DrainsLead(p, slice)
  BY <1>3, SettledEffect, Zenon
<1> HIDE DEF new, slice
<1>5. /\ \A e \in Elems(again) \cup Elems(slice2) : e \in Elems(slice) \/ e.status \notin Draining
      /\ \A q : q # p => /\ EntriesOf(q, again) = EntriesOf(q, slice)
                         /\ EntriesOf(q, slice2) = EntriesOf(q, slice)
                         /\ DrainsLead(q, slice) => DrainsLead(q, again) /\ DrainsLead(q, slice2)
      /\ EntriesOf(p, again) = {} => DrainsLead(p, slice2)
  BY <1>3, <1>4, SettledEffect, Zenon
<1> HIDE DEF again, slice2
<1>6. CASE NothingToScale(p)
  <2>1. UNCHANGED <<status, inst>>
    BY <1>6, Zenon DEF NothingToScale
  <2>2. EntryInv' /\ OrderInv'
    BY <1>1, <2>1, NothingRecorded, Zenon
  <2> QED
    BY <1>1, <1>2, <2>1, <2>2, DoneWithPool, Zenon DEF SmartInv
<1>7. ASSUME CurrentStatus(p).found, status' = status, inst' = [inst EXCEPT !.status = slice]
      PROVE  SmartInv'
  <2>1. inst'.status = slice /\ inst'.replicas = inst.replicas
    BY <1>7 DEF IInv, TypeOK
  <2>2. EntriesOf(p, status) # {}
    BY <1>1, <1>7, AtThePool, Zenon
  <2>3. \A e \in Elems(status') \cup Elems(inst'.status) :
               e \in Elems(status) \cup Elems(inst.status) \/ e.status \notin Draining
    BY <1>4, <1>7, <2>1, Zenon
  <2>4. EntriesOf(p, status') = {} => DrainsLead(p, inst'.status)
    BY <1>7, <2>2, Zenon
  <2>5. \A q \in Pool \ {p} :
               /\ EntriesOf(q, inst'.status) = EntriesOf(q, inst.status)
               /\ DrainsLead(q, inst.status) => DrainsLead(q, inst'.status)
    BY <1>4, <2>1, Zenon
  <2> QED
    BY <1>1, <1>7, <2>1, <2>3, <2>4, <2>5, SettledKeepsSmartInv, Zenon
<1>8. ASSUME CurrentStatus(p).found, status' = new, inst' = [inst EXCEPT !.status = slice]
      PROVE  SmartInv'
  <2>1. inst'.status = slice /\ inst'.replicas = inst.replicas
    BY <1>8 DEF IInv, TypeOK
  <2> QED
    BY <1>1, <1>4, <1>8, <2>1, SettledKeepsSmartInv, Zenon
<1>9. ASSUME CurrentStatus(p).found, status' = again, inst' = [inst EXCEPT !.status = slice2]
       PROVE  SmartInv'
  <2>1. inst'.status = slice2 /\ inst'.replicas = inst.replicas
    BY <1>9 DEF IInv, TypeOK
  <2>2. \A e \in Elems(again) \cup Elems(slice2) : e \in Elems(inst.status) \/ e.status \notin Draining
    BY <1>4, <1>5, Zenon
  <2>3. \A q \in Pool \ {p} : /\ EntriesOf(q, again) = EntriesOf(q, inst.status)
                              /\ EntriesOf(q, slice2) = EntriesOf(q, inst.status)
                              /\ DrainsLead(q, inst.status) => DrainsLead(q, again) /\ DrainsLead(q, slice2)
    BY <1>4, <1>5, Zenon
  <2> QED
    BY <1>1, <1>5, <1>9, <2>1, <2>2, <2>3, SettledKeepsSmartInv, Zenon
<1>10. CASE SettlePool(p)
  BY <1>8, <1>10, Zenon DEF SettlePool, new, slice
<1>11. CASE SettlePoolFaulty(p)
  BY <1>7, <1>9, <1>11, Zenon DEF SettlePoolFaulty, slice, again, slice2
<1> QED
  BY <1>6, <1>10, <1>11

\* The StatefulSet of a pool that was taken out of the resource.
LEMMA RemovalKeepsSmartInv ==
    ASSUME IInv, DrainInv, SmartInv, smart, NEW p \in Pool, RemoveStatefulSet(p)
    PROVE  SmartInv'
<1> USE DEF kube
<1>0. /\ pc \in RemovalSteps /\ p = CurrentPool /\ UNCHANGED <<listed, replicas, status, shards>>
      /\ EndPass \/ ((pc \in RemovalSteps)' /\ inst' = inst)
  <2>1. pc \in RemovalSteps /\ p = CurrentPool /\ UNCHANGED <<listed, replicas, status, shards>>
    BY Zenon DEF RemoveStatefulSet, RemoveUndrained, RemovalExclude, RemovalCheck, RemovalShrink,
       RemovalRejected, RemovalInclude, RemovalSteps
  <2>2. EndPass \/ ((pc \in RemovalSteps)' /\ inst' = inst)
    BY Zenon DEF RemoveStatefulSet, RemoveUndrained, RemovalExclude, RemovalCheck, RemovalShrink,
       RemovalRejected, RemovalInclude, RemovalSteps, RemovalGoesOn, NextObsolete
  <2> QED
    BY <2>1, <2>2
<1>1. EndPass \/ ((pc \notin PoolSteps)' /\ inst' = inst)
  BY <1>0 DEF RemovalSteps, PoolSteps
<1>2. CASE RemovalExclude(p) \/ RemovalCheck(p) \/ RemovalRejected(p)
  <2>1. UNCHANGED sts
    BY <1>2, Zenon DEF RemovalExclude, RemovalCheck, RemovalRejected
  <2>2. excluded \subseteq excluded'
    BY <1>2, Zenon DEF RemovalExclude, RemovalCheck, RemovalRejected, AppendExcludeNodeHost
  <2> QED
    BY <1>0, <1>1, <2>1, <2>2, OutsideKeepsSmartInv, Zenon
<1>3. CASE RemovalInclude(p)
  <2>1. UNCHANGED sts
    BY <1>3, Zenon DEF RemovalInclude
  <2>2. excluded' = excluded \ {ReplicaHostName(p, sts[p])}
    BY <1>3, Zenon DEF RemovalInclude, RemoveExcludeNodeHost
  <2>3. /\ OrderInv' /\ VisitInv' /\ StageInv'
        /\ Elems(status') \cup Elems(inst'.status) \subseteq Elems(status) \cup Elems(inst.status)
    BY <1>0, <1>1, <2>1, LeavesPools, Zenon
  <2>4. EntryInv'
    BY <1>0, <2>1, <2>2, <2>3, IncludeLeavesTrue, Zenon
  <2> QED
    BY <2>3, <2>4 DEF SmartInv
<1>4. CASE RemovalShrink(p)
  <2>1. sts' = [sts EXCEPT ![p] = @ - 1] /\ UNCHANGED excluded
    BY <1>4, Zenon DEF RemovalShrink
  <2>2. p \notin listed
    BY <1>0, CurrentPoolType DEF DrainInv, IInv, RemovalSteps, CurrentPool
  <2>3. /\ Elems(inst'.status) \subseteq Elems(inst.status)
        /\ \A q : DrainsLead(q, inst.status) => DrainsLead(q, inst'.status)
    <3>1. CASE EndPass
      <4>1. inst'.status = <<>>
        BY <3>1 DEF EndPass, NoInstance
      <4>2. Elems(inst'.status) = {}
        BY <4>1, NoElems, Zenon
      <4> QED
        BY <4>2, AllTheSame, Zenon DEF EntriesOf
    <3> QED
      BY <1>0, <3>1, Zenon
  <2>4. Elems(status') \cup Elems(inst'.status) \subseteq Elems(status) \cup Elems(inst.status)
    BY <1>0, <2>3, Zenon
  <2>5. EntryInv' /\ sts'[p] = sts[p] - 1 /\ \A q \in Pool \ {p} : sts'[q] = sts[q]
    BY <1>0, <2>1, <2>4, ShrinkMakesOutOfDate, Zenon
  <2>6. Ordered(p)'
    <3>1. Ordered(p)
      BY Zenon DEF SmartInv, OrderInv
    <3>2. DrainsLead(p, status) /\ DrainsLead(p, inst.status) /\ sts[p] <= replicas[p]
      BY <2>2, <3>1, Zenon DEF Ordered
    <3>3. sts'[p] <= replicas[p]
      <4>1. sts[p] - 1 <= replicas[p]
        BY <3>2, Counts, CompareCounts, Zenon DEF IInv
      <4> QED
        BY <2>5, <4>1, Zenon
    <3> QED
      BY <1>0, <2>3, <3>2, <3>3, Zenon DEF Ordered
  <2>7. OrderInv'
    BY <1>0, <2>3, <2>5, <2>6, OthersOrdered, Zenon DEF SmartInv
  <2>8. pc' \notin PoolSteps
    BY <1>1 DEF EndPass, PoolSteps
  <2>9. VisitInv' /\ StageInv'
    BY <2>8 DEF VisitInv, StageInv, PoolSteps
  <2> QED
    BY <2>5, <2>7, <2>9 DEF SmartInv
<1> QED
  BY <1>2, <1>3, <1>4, Zenon DEF RemoveStatefulSet, RemoveUndrained

\* SmartScaler is not switched, and a pass knows of every pool the resource still lists.
LEMMA PassKnowsListed ==
    ASSUME IInv, DrainInv, [Next]_vars
    PROVE  smart' = smart /\ (pc # "idle" => listed \subseteq inst.listed)'
<1>1. smart' = smart
  BY Zenon DEF Next, Work, Crash, User, Cluster, StartPass, CleanStaleExclusionList, CleanStaleExclusionListFails,
     CleanSkipped, PoolFails, CleanupStatefulSets, RemovalFails, ReconcileNodePool, RemoveStatefulSet,
     NothingToScale, SettlePool, SettlePoolFaulty, StartScaling, IncreaseOneNode, ExcludeNode, SetExcluded,
     ResetToRunning, WatchDrain, SetDrained, DecreaseOneNode, DropStatus, IncludeNode, RemoveUndrained,
     RemovalExclude, RemovalCheck, RemovalShrink, RemovalRejected, RemovalInclude, UserChangesConfig, UserScales,
     UserRemovesPool, CreatePod, PodBecomesReady, TerminatePod, PodGone, PodFails, RestartPod, MoveShards,
     AllocateShard, Elsewhere, kube, vars
<1>2. listed' \subseteq listed
  BY Zenon DEF Next, Work, Crash, User, Cluster, StartPass, CleanStaleExclusionList, CleanStaleExclusionListFails,
     CleanSkipped, PoolFails, CleanupStatefulSets, RemovalFails, ReconcileNodePool, RemoveStatefulSet,
     NothingToScale, SettlePool, SettlePoolFaulty, StartScaling, IncreaseOneNode, ExcludeNode, SetExcluded,
     ResetToRunning, WatchDrain, SetDrained, DecreaseOneNode, DropStatus, IncludeNode, RemoveUndrained,
     RemovalExclude, RemovalCheck, RemovalShrink, RemovalRejected, RemovalInclude, UserChangesConfig, UserScales,
     UserRemovesPool, CreatePod, PodBecomesReady, TerminatePod, PodGone, PodFails, RestartPod, MoveShards,
     AllocateShard, Elsewhere, kube, vars
<1>3. CASE StartPass
  <2>1. inst'.listed = listed
    BY <1>3 DEF StartPass
  <2> QED
    BY <1>1, <1>2, <2>1
<1>4. ASSUME \/ pc' = "idle"
             \/ (pc # "idle" \/ pc' = pc) /\ (inst' = inst \/ \E list : inst' = [inst EXCEPT !.status = list])
      PROVE  (pc # "idle" => listed \subseteq inst.listed)'
  <2>1. inst' = inst \/ (\E list : inst' = [inst EXCEPT !.status = list]) => inst'.listed = inst.listed
    BY DEF IInv, TypeOK
  <2> QED
    BY <1>2, <1>4, <2>1 DEF DrainInv
<1>5. CASE User \/ Cluster \/ UNCHANGED vars
  <2>1. UNCHANGED <<pc, inst>>
    BY <1>5, Zenon DEF User, Cluster, UserChangesConfig, UserScales, UserRemovesPool, CreatePod, PodBecomesReady,
       TerminatePod, PodGone, PodFails, RestartPod, MoveShards, AllocateShard, Elsewhere, worker, vars
  <2> QED
    BY <1>1, <1>4, <2>1
<1>6. CASE Crash \/ CleanStaleExclusionList \/ CleanStaleExclusionListFails \/ CleanSkipped \/ PoolFails
           \/ CleanupStatefulSets \/ RemovalFails
  <2>1. pc # "idle" /\ (pc' = "idle" \/ inst' = inst)
    BY <1>6 DEF Crash, CleanStaleExclusionList, CleanStaleExclusionListFails, CleanSkipped, PoolFails,
       CleanupStatefulSets, RemovalFails, NextObsolete, EndPass
  <2> QED
    BY <1>1, <1>4, <2>1
<1>7. ASSUME NEW p \in Pool, ReconcileNodePool(p) PROVE (pc # "idle" => listed \subseteq inst.listed)'
  <2>1. pc # "idle"
    BY <1>7 DEF ReconcileNodePool, NothingToScale, SettlePool, SettlePoolFaulty, StartScaling,
       IncreaseOneNode, ExcludeNode, SetExcluded, ResetToRunning, WatchDrain, SetDrained,
       DecreaseOneNode, DropStatus, IncludeNode, AtDesiredReplicas, InStage
  <2>2. inst' = inst \/ \E list : inst' = [inst EXCEPT !.status = list]
    BY <1>7, Zenon DEF ReconcileNodePool, NothingToScale, SettlePool, SettlePoolFaulty, StartScaling,
       IncreaseOneNode, ExcludeNode, SetExcluded, ResetToRunning, WatchDrain, SetDrained,
       DecreaseOneNode, DropStatus, IncludeNode
  <2> QED
    BY <1>4, <2>1, <2>2
<1>8. ASSUME NEW p \in Pool, RemoveStatefulSet(p) PROVE (pc # "idle" => listed \subseteq inst.listed)'
  <2>1. pc # "idle"
    BY <1>8 DEF RemoveStatefulSet, RemoveUndrained, RemovalExclude, RemovalCheck, RemovalShrink,
       RemovalRejected, RemovalInclude
  <2>2. pc' = "idle" \/ inst' = inst
    BY <1>8, Zenon DEF RemoveStatefulSet, RemoveUndrained, RemovalExclude, RemovalCheck, RemovalShrink,
       RemovalRejected, RemovalInclude, RemovalGoesOn, NextObsolete, EndPass
  <2> QED
    BY <1>4, <2>1, <2>2
<1> QED
  BY <1>1, <1>3, <1>5, <1>6, <1>7, <1>8, Zenon DEF Next, Work

LEMMA InitDrainInv == Init => DrainInv
<1> SUFFICES ASSUME Init PROVE DrainInv
  OBVIOUS
<1>1. status = <<>> /\ pc = "idle" /\ listed = Pool /\ inst.status = <<>>
  BY DEF Init, NoInstance
<1>2. Elems(status) = {} /\ Elems(inst.status) = {}
  BY <1>1, NoElems, Zenon
<1>3. EntryInv
  BY <1>2, Zenon DEF EntryInv
<1>4. OrderInv
  <2>1. \A p : DrainsLead(p, status) /\ DrainsLead(p, inst.status)
    BY <1>2, AllTheSame, Zenon DEF EntriesOf
  <2> QED
    BY <1>1, <2>1, Zenon DEF OrderInv, Ordered
<1>5. VisitInv /\ StageInv
  BY <1>1 DEF VisitInv, StageInv, PoolSteps
<1> QED
  BY <1>1, <1>3, <1>4, <1>5 DEF DrainInv, SmartInv

LEMMA NextKeepsDrainInv ==
    ASSUME ~EditWhileScaling, IInv, DrainInv, [Next]_vars
    PROVE  DrainInv'
<1>0. smart' = smart /\ (pc # "idle" => listed \subseteq inst.listed)'
  BY PassKnowsListed
<1> SUFFICES ASSUME smart PROVE SmartInv'
  BY <1>0, Zenon DEF DrainInv
<1>1. SmartInv
  BY Zenon DEF DrainInv
<1>2. ASSUME NEW p \in Pool, ReconcileNodePool(p) PROVE SmartInv'
  BY <1>1, <1>2, SettleKeepsSmartInv, StartKeepsSmartInv, IncreaseKeepsSmartInv, ExcludeKeepsSmartInv,
     RecordKeepsSmartInv, ResetKeepsSmartInv, WatchKeepsSmartInv, DecreaseKeepsSmartInv, DropKeepsSmartInv,
     IncludeKeepsSmartInv, Zenon DEF ReconcileNodePool
<1>3. ASSUME NEW p \in Pool, RemoveStatefulSet(p) PROVE SmartInv'
  BY <1>1, <1>3, RemovalKeepsSmartInv, Zenon
<1>4. CASE Work
  BY <1>1, <1>2, <1>3, <1>4, PassKeepsSmartInv, Zenon DEF Work
<1>5. CASE Crash
  BY <1>1, <1>5, PassKeepsSmartInv
<1>6. CASE User \/ Cluster \/ UNCHANGED vars
  BY <1>1, <1>6, AroundKeepsSmartInv
<1> QED
  BY <1>4, <1>5, <1>6, Zenon DEF Next

\* While the user waits for the scaling of a pool to be complete before they edit that pool again,
\* a node whose drain is recorded stays on the exclude list until it is removed, whatever calls
\* fail, wherever the operator crashes, and whichever pools are scaled or taken out of the
\* resource at the same time (scaler.go: excludeNode, drainNode, decreaseOneNode).
THEOREM DrainedNodeStaysExcluded ==
    ASSUME ~EditWhileScaling
    PROVE  Spec => []DrainingNodeIsExcluded
<1>1. Init => IInv /\ DrainInv
  BY InitIInv, InitDrainInv
<1>2. IInv /\ DrainInv /\ [Next]_vars => (IInv /\ DrainInv)'
  BY NextKeepsIInv, NextKeepsDrainInv
<1>3. IInv /\ DrainInv => DrainingNodeIsExcluded
  <2> SUFFICES ASSUME IInv, DrainInv, smart, NEW i \in 1..Len(status), NEW e, e = status[i],
                      e.status \in {"Excluded", "Drained"}, e.conditions = LastReplica(e.description)
               PROVE  e.conditions \in excluded
    BY Zenon DEF DrainingNodeIsExcluded
  <2>1. SmartInv /\ e \in Elems(status) /\ e.status \in Draining
    BY Zenon DEF DrainInv, Elems, Draining
  <2>2. e \in Entries
    BY <2>1, ListTypes, Zenon DEF IInv
  <2>3. e.description \in Pool
    BY <2>2, EntryFields
  <2>4. UpToDate(e)
    BY <2>1, <2>3, CurrentEntry, Zenon
  <2> QED
    BY <2>4, Zenon DEF UpToDate
<1> QED
  BY <1>1, <1>2, <1>3, PTL DEF Spec
=============================================================================
