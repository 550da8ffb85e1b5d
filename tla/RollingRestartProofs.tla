------------------------ MODULE RollingRestartProofs ------------------------
(* Theorems about RollingRestart, for every number of pools, replicas, edits and faults. *)
EXTENDS RollingRestart, WellFoundedInduction, TLAPS

USE DEF AppendExcludeNodeHost, RemoveExcludeNodeHost, DrainDataNodes, PodsMayFail

\* A non-empty set of positions has a first one.
LEMMA FirstIsMember ==
    ASSUME NEW S \in SUBSET Nat, S # {}
    PROVE  First(S) \in S /\ \A j \in S : First(S) <= j
<1>1. PICK m \in S : \A j \in S : ~(<<j, m>> \in OpToRel(<, Nat))
  BY NatLessThanWellFounded, WFMin, Zenon
<1>2. OpToRel(<, Nat) = {ss \in Nat \X Nat : ss[1] < ss[2]}
  BY Zenon DEF OpToRel
<1>3. \A j \in S : m <= j
  <2> SUFFICES ASSUME NEW j \in S, ~(m <= j) PROVE FALSE
    OBVIOUS
  <2>1. <<j, m>> \in {ss \in Nat \X Nat : ss[1] < ss[2]}
    OBVIOUS
  <2> QED
    BY <1>1, <1>2, <2>1, Zenon
<1> QED
  BY <1>3, Zenon DEF First

LEMMA NodeFacts ==
    /\ \A p \in Pool : NodesOf(p) \subseteq Node
    /\ \A p \in Pool : \A o \in 0..(Replicas[p] - 1) : <<p, o>> \in NodesOf(p)
    /\ \A n \in Node : n[1] \in Pool /\ n \in NodesOf(n[1])
    /\ DataNode \subseteq Node /\ MasterNode \subseteq Node
    /\ NoPod \notin Node
<1>1. \A p \in Pool : NodesOf(p) \subseteq Node
  BY DEF Node
<1>2. \A p \in Pool : \A o \in 0..(Replicas[p] - 1) : <<p, o>> \in NodesOf(p)
  BY DEF NodesOf
<1>3. ASSUME NEW n \in Node PROVE n[1] \in Pool /\ n \in NodesOf(n[1])
  <2>1. PICK p \in Pool : n \in NodesOf(p)
    BY DEF Node
  <2>2. n[1] = p
    BY <2>1 DEF NodesOf
  <2> QED
    BY <2>1, <2>2
<1>4. DataNode \subseteq Node /\ MasterNode \subseteq Node
  BY RestartAssumption DEF DataNode, MasterNode, Node
<1> QED
  BY <1>1, <1>2, <1>3, <1>4, RestartAssumption

LEMMA PoolAt ==
    ASSUME TypeOK, todo # {}
    PROVE  First(todo) \in todo /\ NodePools[First(todo)] \in Pool
<1>1. todo \in SUBSET Nat
  BY RestartAssumption DEF TypeOK
<1>2. First(todo) \in todo
  BY <1>1, FirstIsMember
<1> QED
  BY <1>2 DEF TypeOK, Pool

\* A set of pools with updates has a first pool in the order of sort.Slice.
LEMMA FirstPoolExists ==
    ASSUME WithUpdates # {}
    PROVE  FirstPool \in WithUpdates
<1> DEFINE Least(S) == \E p \in S : \A q \in S \ {p} : NameRank[p] < NameRank[q]
<1>1. ASSUME NEW S \in SUBSET Pool, S # {} PROVE Least(S)
  <2> DEFINE ranks == {NameRank[p] : p \in S}
  <2>1. ranks \in SUBSET Nat /\ ranks # {}
    BY <1>1, RestartAssumption
  <2>2. First(ranks) \in ranks /\ \A j \in ranks : First(ranks) <= j
    BY <2>1, FirstIsMember, Zenon
  <2>3. PICK p \in S : NameRank[p] = First(ranks)
    BY <2>2, Zenon
  <2>4. ASSUME NEW q \in S \ {p} PROVE NameRank[p] < NameRank[q]
    <3>1. NameRank[q] \in ranks
      OBVIOUS
    <3>2. NameRank[p] <= NameRank[q]
      BY <2>2, <2>3, <3>1
    <3>3. NameRank[p] # NameRank[q]
      BY RestartAssumption
    <3> QED
      BY <3>2, <3>3, RestartAssumption
  <2> QED
    BY <2>4
<1> DEFINE others == WithUpdates \ MasterPools
<1>2. WithUpdates \in SUBSET Pool /\ others \in SUBSET Pool
  BY DEF WithUpdates
<1>3. \E p \in WithUpdates : \A q \in WithUpdates \ {p} : Precedes(p, q)
  <2>1. CASE others = {}
    BY <1>1, <1>2, <2>1 DEF Precedes
  <2>2. CASE others # {}
    BY <1>1, <1>2, <2>2, Zenon DEF Precedes
  <2> QED
    BY <2>1, <2>2
<1> QED
  BY <1>3 DEF FirstPool

\* The candidate is a node and, as the lookup has not failed, a pod of the old revision.
LEMMA CandidateIsOld ==
    ASSUME TypeOK, WithUpdates # {}, ~LookupFails
    PROVE  Older(FirstPool) \in old /\ Older(FirstPool) \in Node
<1>1. FirstPool \in WithUpdates
  BY FirstPoolExists
<1>2. FirstPool \in Pool /\ Stops(FirstPool) # {}
  BY <1>1 DEF WithUpdates
<1>3. Stops(FirstPool) \in SUBSET Nat
  BY DEF Stops
<1>4. First(Stops(FirstPool)) \in Stops(FirstPool)
  BY <1>2, <1>3, FirstIsMember
<1>5. pods[Older(FirstPool)] # "absent"
  BY <1>1 DEF LookupFails
<1>6. Older(FirstPool) \in old
  BY <1>4, <1>5 DEF Stops, Older
<1> QED
  BY <1>6 DEF TypeOK
-----------------------------------------------------------------------------
LEMMA InitIInv == Init => IInv
<1> SUFFICES ASSUME Init PROVE IInv
  OBVIOUS
<1>1. TypeOK
  <2>1. pods \in [Node -> PodStates]
    BY DEF Init, PodStates
  <2>2. data \in [Node -> {"holds", "moving", "empty", "missing"}]
    BY DEF Init
  <2>3. edits \in 0..MaxEdits /\ faults \in 0..MaxFaults
    BY RestartAssumption DEF Init
  <2> QED
    BY <2>1, <2>2, <2>3, Zenon DEF Init, TypeOK, Steps
<1>2. Recorded
  BY DEF Init, Recorded, CandidateSteps, RestartSteps, RestrictionIsRecorded
<1>3. \A n \in Node : pods[n] = "ready" /\ data[n] # "missing"
  BY DEF Init
<1>4. Undisturbed
  BY <1>3, NodeFacts DEF Init, Undisturbed, CandidateSteps, Ready, Green
<1> QED
  BY <1>1, <1>2, <1>3, <1>4 DEF IInv, OnePodDown, OneNodeMissing

LEMMA FaultBound ==
    ASSUME TypeOK, Fault \/ NoFault
    PROVE  faults' \in 0..MaxFaults
BY RestartAssumption DEF TypeOK, Fault, NoFault

\* When the worker gives up on a pass it relies on nothing.
LEMMA PassEnds ==
    ASSUME IInv, EndPass, Fault \/ NoFault,
           UNCHANGED <<conf, pods, old, seen, data, edits>>,
           initialized' = initialized, current' \subseteq Pool,
           excluded' \subseteq Node, system' = system,
           \/ UNCHANGED <<allocation, status>>
           \/ allocation' = "all" /\ UNCHANGED status
           \/ UNCHANGED allocation /\ status' = "InProgress"
           \/ allocation # "primaries" /\ UNCHANGED allocation /\ status' = "Finished"
           \/ status = "InProgress" /\ allocation' = "primaries" /\ UNCHANGED status
    PROVE  IInv'
<1>1. TypeOK'
  BY FaultBound, Zenon DEF IInv, TypeOK, EndPass, Steps
<1>2. Recorded'
  BY DEF IInv, Recorded, EndPass, CandidateSteps, RestartSteps, RestrictionIsRecorded, TypeOK
<1>3. ASSUME Undisturbed PROVE Undisturbed'
  BY <1>3 DEF Undisturbed, EndPass, CandidateSteps, Ready, Green
<1> QED
  BY <1>1, <1>2, <1>3 DEF IInv, OnePodDown, OneNodeMissing

\* The worker goes on to its next step, without having touched a pod or a shard.
LEMMA WorkerGoesOn ==
    ASSUME IInv, NEW next \in Steps, Goto(next), NoFault,
           UNCHANGED <<conf, pods, old, seen, data, edits, initialized, system>>,
           current' \subseteq Pool, excluded' \subseteq Node,
           allocation' \in {"unset", "all", "primaries"},
           status' \in {"none", "InProgress", "Finished"},
           next # "check",
           next \in CandidateSteps => cand \in Node,
           next \in RestartSteps => status' = "InProgress",
           next = "finish" => allocation' # "primaries",
           allocation' = "primaries" => status' = "InProgress",
           ~PodsMayFail =>
               /\ next \in {"begin", "clean", "select", "health", "prepare", "drained", "delete"}
                     => \A n \in Node : pods[n] = "ready"
               /\ next \in CandidateSteps \ {"include"} => cand \in old
               /\ next \in {"prepare", "drained", "delete"} => Green
    PROVE  IInv'
<1>1. TypeOK'
  BY FaultBound DEF IInv, TypeOK, Goto
<1>2. Recorded'
  BY DEF IInv, Recorded, Goto, RestrictionIsRecorded
<1>3. ASSUME Undisturbed, ~PodsMayFail PROVE Undisturbed'
  BY <1>3 DEF Undisturbed, Goto, Ready, Green
<1> QED
  BY <1>1, <1>2, <1>3 DEF IInv, OnePodDown, OneNodeMissing

\* Reconcile: a pool has been checked and is ready.
LEMMA CheckGoesOn ==
    ASSUME IInv, pc = "check", NEW pending \in BOOLEAN, CheckNext(pending), NoFault,
           UNCHANGED <<conf, pods, old, seen, cluster, status, edits, initialized>>,
           current' \subseteq Pool,
           ~PodsMayFail => Ready(NodePools[First(todo)])
    PROVE  IInv'
<1>1. todo # {} /\ First(todo) \in todo
  BY PoolAt DEF IInv, Recorded
<1>2. CASE todo = {First(todo)}
  <2>1. ASSUME ~PodsMayFail PROVE \A n \in Node : pods[n] = "ready"
    <3>1. \A i \in 1..Len(NodePools) : Ready(NodePools[i])
      BY <1>2, <2>1 DEF IInv, Undisturbed
    <3>2. ASSUME NEW n \in Node PROVE pods[n] = "ready"
      BY <3>1, NodeFacts DEF Ready, Pool
    <3> QED
      BY <3>2
  <2>2. CASE EndPass
    BY <2>2, PassEnds DEF cluster, IInv, TypeOK
  <2>3. CASE Goto("begin")
    BY <2>1, <2>3, WorkerGoesOn
    DEF cluster, Steps, CandidateSteps, RestartSteps, IInv, TypeOK, Recorded, RestrictionIsRecorded
  <2>4. CASE Goto("reactivate")
    BY <2>4, WorkerGoesOn
    DEF cluster, Steps, CandidateSteps, RestartSteps, IInv, TypeOK, Recorded, RestrictionIsRecorded
  <2> QED
    BY <1>2, <2>2, <2>3, <2>4 DEF CheckNext, Decide
<1>3. CASE todo # {First(todo)}
  <2> USE DEF cluster
  <2>1. /\ pc' = "check" /\ todo' = todo \ {First(todo)} /\ pendingUpdate' = pending
        /\ UNCHANGED <<inst, cand>>
    BY <1>3 DEF CheckNext
  <2>2. TypeOK'
    <3>1. faults' \in 0..MaxFaults
      BY FaultBound DEF IInv
    <3>2. todo' \subseteq 1..Len(NodePools) /\ pc' \in Steps
      BY <2>1, Zenon DEF IInv, TypeOK, Steps
    <3> QED
      BY <2>1, <3>1, <3>2 DEF IInv, TypeOK
  <2>3. Recorded'
    BY <1>1, <1>3, <2>1
    DEF IInv, Recorded, CandidateSteps, RestartSteps, RestrictionIsRecorded
  <2>4. ASSUME ~PodsMayFail PROVE Undisturbed'
    <3>1. \A i \in (1..Len(NodePools)) \ todo' : Ready(NodePools[i])
      BY <2>1, <2>4 DEF IInv, Undisturbed
    <3>2. \A p : Ready(p) => Ready(p)'
      BY DEF Ready
    <3> QED
      BY <2>1, <2>4, <3>1, <3>2 DEF IInv, Undisturbed, CandidateSteps, Green
  <2> QED
    BY <2>2, <2>3, <2>4 DEF IInv, OnePodDown, OneNodeMissing
<1> QED
  BY <1>2, <1>3

LEMMA PassKeepsIInv ==
    ASSUME IInv,
           \/ StartPass
           \/ \E p \in Pool : CheckPendingPool(p) \/ CheckUpdatedPool(p) \/ SetCurrentRevision(p)
           \/ Reactivate \/ Finish \/ Begin
           \/ CleanStaleExclusionList \/ SelectCandidate \/ PassFails
    PROVE  IInv'
<1> USE DEF kube, cluster
<1>1. CASE StartPass
  <2>1. TypeOK'
    BY <1>1 DEF IInv, TypeOK, StartPass, Steps
  <2>2. Recorded'
    <3>1. 1..Len(NodePools) # {}
      <4>1. Len(NodePools) \in Nat /\ Len(NodePools) > 0
        BY RestartAssumption
      <4>2. 1 \in 1..Len(NodePools)
        BY <4>1
      <4> QED
        BY <4>2
    <3> QED
      BY <1>1, <3>1
      DEF IInv, Recorded, StartPass, CandidateSteps, RestartSteps, RestrictionIsRecorded
  <2>3. ASSUME Undisturbed PROVE Undisturbed'
    BY <1>1, <2>3 DEF Undisturbed, StartPass, CandidateSteps, Ready, Green
  <2> QED
    BY <1>1, <2>1, <2>2, <2>3 DEF IInv, StartPass, OnePodDown, OneNodeMissing
<1>2. ASSUME NEW p \in Pool, CheckPendingPool(p) PROVE IInv'
  BY <1>2, CheckGoesOn, PassEnds, Zenon DEF CheckPendingPool, IInv, TypeOK
<1>3. ASSUME NEW p \in Pool, CheckUpdatedPool(p) PROVE IInv'
  <2>1. pendingUpdate \in BOOLEAN
    BY DEF IInv, TypeOK
  <2> QED
    BY <1>3, <2>1, CheckGoesOn, PassEnds DEF CheckUpdatedPool, IInv, TypeOK
<1>4. ASSUME NEW p \in Pool, SetCurrentRevision(p) PROVE IInv'
  <2>1. pendingUpdate \in BOOLEAN /\ current' \subseteq Pool /\ excluded' \subseteq Node
    BY <1>4 DEF IInv, TypeOK, SetCurrentRevision
  <2>2. CASE EndPass
    BY <1>4, <2>1, <2>2, PassEnds DEF SetCurrentRevision
  <2>3. CASE NoFault /\ seen[p].ready /\ CheckNext(pendingUpdate)
    <3>1. ~PodsMayFail => Ready(NodePools[First(todo)])
      BY <1>4, <2>3 DEF SetCurrentRevision, IInv, Undisturbed
    <3> QED
      BY <1>4, <2>1, <2>3, <3>1, CheckGoesOn DEF SetCurrentRevision
  <2> QED
    BY <1>4, <2>2, <2>3, Zenon DEF SetCurrentRevision
<1>5. CASE Reactivate
  <2>1. CASE Fault /\ EndPass
    BY <1>5, <2>1, PassEnds DEF Reactivate, IInv, TypeOK
  <2>2. CASE NoFault /\ Goto("finish")
    BY <1>5, <2>2, WorkerGoesOn
    DEF Reactivate, IInv, TypeOK, Steps, CandidateSteps, RestartSteps
  <2> QED
    BY <1>5, <2>1, <2>2 DEF Reactivate, Answered
<1>6. CASE Finish
  BY <1>6, PassEnds DEF Finish, IInv, TypeOK, Recorded
<1>7. CASE Begin
  <2>1. CASE Fault /\ EndPass
    BY <1>7, <2>1, PassEnds DEF Begin, IInv, TypeOK
  <2>2. CASE NoFault /\ (Goto("clean") \/ Goto("select"))
    <3>1. ~PodsMayFail => \A n \in Node : pods[n] = "ready"
      BY <1>7, Zenon DEF IInv, Undisturbed, Begin
    <3> QED
      BY <1>7, <2>2, <3>1, WorkerGoesOn
      DEF Begin, IInv, TypeOK, Steps, CandidateSteps
  <2> QED
    BY <1>7, <2>1, <2>2 DEF Begin, Answered
<1>8. CASE CleanStaleExclusionList
  <2>1. excluded' \subseteq Node
    BY <1>8 DEF IInv, TypeOK, CleanStaleExclusionList
  <2>2. CASE Fault /\ EndPass
    BY <1>8, <2>1, <2>2, PassEnds DEF CleanStaleExclusionList, IInv, TypeOK
  <2>3. CASE NoFault /\ Goto("select")
    <3>1. status = "InProgress" /\ (~PodsMayFail => \A n \in Node : pods[n] = "ready")
      BY <1>8 DEF IInv, Recorded, Undisturbed, CleanStaleExclusionList, RestartSteps
    <3> QED
      BY <1>8, <2>1, <2>3, <3>1, WorkerGoesOn
      DEF CleanStaleExclusionList, IInv, TypeOK, Steps, CandidateSteps
  <2> QED
    BY <1>8, <2>2, <2>3 DEF CleanStaleExclusionList
<1>9. CASE SelectCandidate
  <2>1. CASE EndPass
    BY <1>9, <2>1, PassEnds DEF SelectCandidate, IInv, TypeOK
  <2>2. CASE ~EndPass
    <3>1. /\ WithUpdates # {} /\ ~LookupFails
          /\ pc' = "health" /\ cand' = Older(FirstPool) /\ UNCHANGED <<inst, todo, pendingUpdate>>
      BY <1>9, <2>2 DEF SelectCandidate
    <3>2. cand' \in old /\ cand' \in Node
      BY <3>1, CandidateIsOld DEF IInv
    <3>3. TypeOK'
      BY <1>9, <3>1, <3>2, FaultBound DEF SelectCandidate, IInv, TypeOK, Steps
    <3>4. Recorded'
      BY <1>9, <3>1, <3>2 DEF SelectCandidate, IInv, Recorded, RestartSteps, RestrictionIsRecorded
    <3>5. ASSUME ~PodsMayFail PROVE Undisturbed'
      <4>1. \A n \in Node : pods[n] = "ready"
        BY <1>9, <3>5 DEF SelectCandidate, IInv, Undisturbed
      <4> QED
        BY <1>9, <3>1, <3>2, <3>5, <4>1 DEF SelectCandidate, IInv, Undisturbed, Ready, Green
    <3> QED
      BY <1>9, <3>3, <3>4, <3>5, Zenon DEF SelectCandidate, IInv, OnePodDown, OneNodeMissing
  <2> QED
    BY <2>1, <2>2
<1>10. CASE PassFails
  BY <1>10, PassEnds DEF PassFails, IInv, TypeOK
<1> QED
  BY <1>1, <1>2, <1>3, <1>4, <1>5, <1>6, <1>7, <1>8, <1>9, <1>10

LEMMA RestartPodKeepsIInv ==
    ASSUME IInv,
           CheckHealth \/ PreparePodForDelete \/ CheckDrained \/ DeletePod \/ IncludeNode
    PROVE  IInv'
<1> USE DEF kube, cluster
<1>1. CASE CheckHealth
  <2>1. CASE EndPass
    BY <1>1, <2>1, PassEnds DEF CheckHealth, IInv, TypeOK
  <2>2. CASE Green /\ NoFault /\ Goto("prepare") /\ UNCHANGED allocation
    <3>1. /\ status = "InProgress" /\ cand \in Node
          /\ ~PodsMayFail => cand \in old /\ \A n \in Node : pods[n] = "ready"
      BY <1>1 DEF CheckHealth, IInv, Recorded, Undisturbed, CandidateSteps, RestartSteps
    <3> QED
      BY <1>1, <2>2, <3>1, WorkerGoesOn DEF CheckHealth, IInv, TypeOK, Steps
  <2> QED
    BY <1>1, <2>1, <2>2 DEF CheckHealth
<1>2. CASE PreparePodForDelete
  <2>1. /\ status = "InProgress" /\ cand \in Node
        /\ ~PodsMayFail => cand \in old /\ Green /\ \A n \in Node : pods[n] = "ready"
    BY <1>2 DEF PreparePodForDelete, IInv, Recorded, Undisturbed, CandidateSteps, RestartSteps
  <2>2. /\ excluded' \subseteq Node
        /\ allocation' = allocation \/ allocation' = "primaries"
    BY <1>2, <2>1 DEF PreparePodForDelete, IInv, TypeOK
  <2>3. CASE Fault /\ EndPass
    BY <1>2, <2>1, <2>2, <2>3, PassEnds DEF PreparePodForDelete, IInv, TypeOK
  <2>4. CASE NoFault /\ (Goto("drained") \/ Goto("delete"))
    BY <1>2, <2>1, <2>2, <2>4, WorkerGoesOn DEF PreparePodForDelete, IInv, TypeOK, Steps
  <2> QED
    BY <1>2, <2>3, <2>4 DEF PreparePodForDelete, Answered
<1>3. CASE CheckDrained
  <2>1. CASE EndPass
    BY <1>3, <2>1, PassEnds DEF CheckDrained, IInv, TypeOK
  <2>2. CASE Goto("delete")
    <3>1. /\ status = "InProgress" /\ cand \in Node
          /\ ~PodsMayFail => cand \in old /\ Green /\ \A n \in Node : pods[n] = "ready"
      BY <1>3 DEF CheckDrained, IInv, Recorded, Undisturbed, CandidateSteps, RestartSteps
    <3> QED
      BY <1>3, <2>2, <3>1, WorkerGoesOn DEF CheckDrained, IInv, TypeOK, Steps
  <2> QED
    BY <1>3, <2>1, <2>2 DEF CheckDrained
<1>4. CASE DeletePod
  <2>1. CASE pods[cand] = "absent"
    BY <1>4, <2>1, PassEnds DEF DeletePod, IInv, TypeOK
  <2>2. CASE pods[cand] # "absent"
    <3>1. /\ pods' = [pods EXCEPT ![cand] = "terminating"]
          /\ EndPass \/ Goto("include")
          /\ Fault \/ NoFault
      BY <1>4, <2>2 DEF DeletePod, Answered
    <3>2. status = "InProgress" /\ cand \in Node
      BY <1>4 DEF DeletePod, IInv, Recorded, CandidateSteps, RestartSteps
    <3>3. pods' \in [Node -> PodStates]
      BY <3>1, Zenon DEF IInv, TypeOK, PodStates
    <3>4. TypeOK'
      BY <1>4, <3>1, <3>3, FaultBound, Zenon DEF DeletePod, IInv, TypeOK, EndPass, Goto, Steps
    <3>5. Recorded'
      BY <1>4, <3>1, <3>2
      DEF DeletePod, IInv, Recorded, CandidateSteps, RestartSteps, RestrictionIsRecorded,
          EndPass, Goto
    <3>6. ASSUME ~PodsMayFail PROVE Undisturbed' /\ OnePodDown' /\ OneNodeMissing'
      <4>1. cand \in old /\ Green /\ \A n \in Node : pods[n] = "ready"
        BY <1>4, <3>6, Zenon DEF DeletePod, IInv, Undisturbed, CandidateSteps
      <4>2. \A n \in Node : n # cand => pods'[n] = "ready"
        BY <3>1, <4>1 DEF IInv, TypeOK
      <4>3. ASSUME NEW p \in Pool, seen[p].updated PROVE Ready(p)'
        <5>1. cand \notin NodesOf(p)
          BY <4>1, <4>3 DEF IInv, Recorded, NodesOf
        <5> QED
          BY <4>2, <5>1, NodeFacts DEF Ready
      <4>4. Green'
        BY <1>4, <4>1 DEF DeletePod, Green
      <4>5. Undisturbed'
        BY <1>4, <3>1, <4>3, <4>4 DEF DeletePod, Undisturbed, EndPass, Goto, CandidateSteps
      <4> QED
        BY <1>4, <4>2, <4>4, <4>5 DEF OnePodDown, OneNodeMissing, Green
    <3>7. UNCHANGED conf
      BY <1>4 DEF DeletePod
    <3> QED
      BY <3>4, <3>5, <3>6, <3>7 DEF IInv, OnePodDown, OneNodeMissing
  <2> QED
    BY <2>1, <2>2
<1>5. CASE IncludeNode
  BY <1>5, PassEnds DEF IncludeNode, IInv, TypeOK
<1> QED
  BY <1>1, <1>2, <1>3, <1>4, <1>5

\* Shards move or come back: no copy that was there is missing afterwards.
LEMMA ShardsKeepIInv ==
    ASSUME IInv, Shards
    PROVE  IInv'
<1>1. /\ UNCHANGED <<kube, status, allocation, excluded, worker, edits, faults>>
      /\ data' \in [Node -> {"holds", "moving", "empty", "missing"}]
      /\ system' \in DataNode
      /\ \A k \in Node : data'[k] = "missing" => data[k] = "missing"
  <2>1. CASE MoveSystem
    BY <2>1 DEF MoveSystem, Targets, IInv, TypeOK
  <2>2. ASSUME NEW n \in Node, RecoverShards(n) \/ StartMove(n) \/ Rebalance(n)
        PROVE  <1>1!:
    BY <2>2 DEF RecoverShards, StartMove, Rebalance, IInv, TypeOK
  <2>3. ASSUME NEW n \in Node, FinishMove(n) PROVE <1>1!:
    <3>1. PICK m \in Targets(n) :
              /\ data' = [data EXCEPT ![n] = "empty", ![m] = "holds"]
              /\ system' = IF system = n THEN m ELSE system
      BY <2>3, Zenon DEF FinishMove
    <3>2. m \in DataNode /\ m \in Node
      BY NodeFacts DEF Targets
    <3> QED
      BY <2>3, <3>1, <3>2, Zenon DEF FinishMove, IInv, TypeOK
  <2> QED
    BY <2>1, <2>2, <2>3 DEF Shards
<1> USE DEF kube, worker
<1>2. TypeOK'
  BY <1>1 DEF IInv, TypeOK
<1>3. Recorded'
  BY <1>1 DEF IInv, Recorded, RestrictionIsRecorded
<1>4. ASSUME ~PodsMayFail PROVE Undisturbed'
  <2>1. Green => Green'
    BY <1>1 DEF Green
  <2>2. \A p : Ready(p) => Ready(p)'
    BY <1>1 DEF Ready
  <2> QED
    BY <1>1, <1>4, <2>1, <2>2 DEF IInv, Undisturbed
<1> QED
  BY <1>1, <1>2, <1>3, <1>4, Zenon DEF IInv, OnePodDown, OneNodeMissing

\* The pods that are down change while the worker, the status and the settings do not: this is
\* all that a pod that is not ready can disturb when pods do not fail on their own.
LEMMA DownPodKeepsUndisturbed ==
    ASSUME IInv, ~PodsMayFail, NEW n \in Node, pods[n] # "ready",
           NEW s \in PodStates \ {"terminating"}, pods' = [pods EXCEPT ![n] = s],
           UNCHANGED <<seen, worker>>,
           \A k \in Node : k # n /\ data'[k] = "missing" => data[k] = "missing"
    PROVE  Undisturbed' /\ OnePodDown'
<1> USE DEF worker
<1>1. \A k \in Node : k # n => pods[k] = "ready" /\ pods'[k] = "ready"
  BY DEF IInv, OnePodDown, TypeOK
<1>2. pc \notin {"begin", "clean", "select", "health", "prepare", "drained", "delete"}
  BY DEF IInv, Undisturbed
<1>3. \A p \in Pool : Ready(p) => Ready(p)'
  BY <1>1, NodeFacts DEF Ready
<1>4. pods'[n] # "terminating"
  BY DEF IInv, TypeOK
<1>5. pc' = "check" => \A i \in (1..Len(NodePools)) \ todo' : Ready(NodePools[i])'
  BY <1>3 DEF IInv, Undisturbed, Pool
<1>6. \A p \in Pool : seen'[p].updated /\ seen'[p].ready => Ready(p)'
  BY <1>3 DEF IInv, Undisturbed
<1>7. ~ \E k \in Node : pods'[k] = "terminating"
  BY <1>1, <1>4
<1> QED
  BY <1>1, <1>2, <1>5, <1>6, <1>7 DEF Undisturbed, OnePodDown, CandidateSteps

LEMMA ControllerKeepsIInv ==
    ASSUME IInv, Controller
    PROVE  IInv'
<1> USE DEF cluster, worker
<1>1. ASSUME NEW p \in Pool, ChangeTemplate(p) PROVE IInv'
  <2>1. edits' \in 0..MaxEdits
    BY <1>1, RestartAssumption DEF ChangeTemplate, IInv, TypeOK
  <2>2. /\ seen' \in [Pool -> [updated : BOOLEAN, ready : BOOLEAN]]
        /\ ~seen'[p].updated
        /\ \A q \in Pool \ {p} : seen'[q] = seen[q]
    BY <1>1, Zenon DEF ChangeTemplate, IInv, TypeOK
  <2>3. old' \subseteq Node
    BY <1>1, NodeFacts DEF ChangeTemplate, IInv, TypeOK
  <2>4. TypeOK'
    BY <1>1, <2>1, <2>2, <2>3 DEF ChangeTemplate, IInv, TypeOK
  <2>5. \A n \in old' : ~seen'[n[1]].updated
    BY <1>1, <2>2, NodeFacts DEF ChangeTemplate, IInv, TypeOK, Recorded, NodesOf
  <2>6. Recorded'
    BY <1>1, <2>5 DEF ChangeTemplate, IInv, Recorded, RestrictionIsRecorded
  <2>7. ASSUME ~PodsMayFail PROVE Undisturbed'
    <3>1. \A q : Ready(q) => Ready(q)'
      BY <1>1 DEF ChangeTemplate, Ready
    <3> QED
      BY <1>1, <2>2, <2>7, <3>1 DEF ChangeTemplate, IInv, Undisturbed, Green
  <2> QED
    BY <1>1, <2>4, <2>6, <2>7 DEF ChangeTemplate, IInv, OnePodDown, OneNodeMissing
<1>2. ASSUME NEW p \in Pool, ObserveStatus(p) PROVE IInv'
  <2>1. /\ seen' \in [Pool -> [updated : BOOLEAN, ready : BOOLEAN]]
        /\ seen'[p].updated <=> Updated(p)
        /\ seen'[p].ready <=> Ready(p)
        /\ \A q \in Pool \ {p} : seen'[q] = seen[q]
    <3>1. Updated(p) \in BOOLEAN /\ Ready(p) \in BOOLEAN
      BY DEF Updated, Ready
    <3> HIDE DEF Updated, Ready
    <3> QED
      BY <1>2, <3>1 DEF ObserveStatus, IInv, TypeOK
  <2>2. TypeOK'
    <3>1. UNCHANGED <<conf, initialized, pods, old, current, cluster, status, worker, edits, faults>>
      BY <1>2 DEF ObserveStatus
    <3>2. TypeOK
      BY DEF IInv
    <3> QED
      BY <2>1, <3>1, <3>2 DEF TypeOK, cluster, worker
  <2>3. ASSUME NEW n \in old PROVE ~seen'[n[1]].updated
    <3>1. n \in Node /\ ~seen[n[1]].updated
      BY DEF IInv, TypeOK, Recorded
    <3>2. n[1] \in Pool /\ n \in NodesOf(n[1])
      BY <3>1, NodeFacts
    <3>3. CASE n[1] = p
      <4>1. ~Updated(p)
        BY <3>2, <3>3 DEF Updated
      <4> QED
        BY <2>1, <3>3, <4>1
    <3>4. CASE n[1] # p
      BY <2>1, <3>1, <3>2, <3>4
    <3> QED
      BY <3>3, <3>4
  <2>4. Recorded'
    BY <1>2, <2>3 DEF ObserveStatus, IInv, Recorded, RestrictionIsRecorded
  <2>5. ASSUME ~PodsMayFail PROVE Undisturbed'
    <3>1. \A q : Ready(q) => Ready(q)'
      BY <1>2 DEF ObserveStatus, Ready
    <3>2. UNCHANGED <<pods, old, data, pc, todo, cand>>
      BY <1>2 DEF ObserveStatus, cluster, worker
    <3>3. Undisturbed
      BY <2>5 DEF IInv
    <3>4. ASSUME NEW q \in Pool, seen'[q].updated, seen'[q].ready PROVE Ready(q)'
      <4>1. CASE q = p
        BY <2>1, <3>1, <3>4, <4>1
      <4>2. CASE q # p
        BY <2>1, <3>1, <3>3, <3>4, <4>2 DEF Undisturbed
      <4> QED
        BY <4>1, <4>2
    <3>5. Green => Green'
      BY <3>2 DEF Green
    <3> QED
      BY <3>1, <3>2, <3>3, <3>4, <3>5 DEF Undisturbed
  <2> QED
    BY <1>2, <2>2, <2>4, <2>5 DEF ObserveStatus, IInv, OnePodDown, OneNodeMissing
<1>3. ASSUME NEW n \in Node, CreatePod(n) PROVE IInv'
  <2>1. TypeOK'
    BY <1>3 DEF CreatePod, IInv, TypeOK, PodStates
  <2>2. Recorded'
    BY <1>3 DEF CreatePod, IInv, Recorded, RestrictionIsRecorded
  <2>3. ASSUME ~PodsMayFail PROVE Undisturbed' /\ OnePodDown'
    BY <1>3, <2>3, DownPodKeepsUndisturbed, Zenon DEF CreatePod, PodStates
  <2> QED
    BY <1>3, <2>1, <2>2, <2>3 DEF CreatePod, IInv, OnePodDown, OneNodeMissing
<1>4. ASSUME NEW n \in Node, PodBecomesReady(n) PROVE IInv'
  <2>1. TypeOK'
    BY <1>4 DEF PodBecomesReady, IInv, TypeOK, PodStates
  <2>2. Recorded'
    BY <1>4 DEF PodBecomesReady, IInv, Recorded, RestrictionIsRecorded
  <2>3. ASSUME ~PodsMayFail PROVE Undisturbed' /\ OnePodDown'
    BY <1>4, <2>3, DownPodKeepsUndisturbed, Zenon DEF PodBecomesReady, PodStates
  <2> QED
    BY <1>4, <2>1, <2>2, <2>3 DEF PodBecomesReady, IInv, OnePodDown, OneNodeMissing
<1>5. ASSUME NEW n \in Node, LosesNode(n), TypeOK
      PROVE  /\ data' \in [Node -> {"holds", "moving", "empty", "missing"}]
             /\ system' \in DataNode
             /\ \A k \in Node : k # n => data'[k] = data[k]
  BY <1>5 DEF LosesNode, TypeOK
<1>6. ASSUME NEW n \in Node, PodGone(n) PROVE IInv'
  <2>1. /\ data' \in [Node -> {"holds", "moving", "empty", "missing"}]
        /\ system' \in DataNode
        /\ \A k \in Node : k # n => data'[k] = data[k]
    BY <1>5, <1>6 DEF PodGone, IInv
  <2>2. TypeOK'
    <3>1. pods' \in [Node -> PodStates]
      BY <1>6 DEF PodGone, IInv, TypeOK, PodStates
    <3> QED
      BY <1>6, <2>1, <3>1 DEF PodGone, IInv, TypeOK, worker
  <2>3. Recorded'
    BY <1>6 DEF PodGone, IInv, Recorded, RestrictionIsRecorded
  <2>4. ASSUME ~PodsMayFail PROVE Undisturbed' /\ OnePodDown'
    BY <1>6, <2>1, <2>4, DownPodKeepsUndisturbed, Zenon DEF PodGone, PodStates
  <2>5. OneNodeMissing'
    BY <1>6, <2>1 DEF PodGone, IInv, Undisturbed, Green, OneNodeMissing
  <2>6. UNCHANGED conf
    BY <1>6 DEF PodGone
  <2> QED
    BY <2>2, <2>3, <2>4, <2>5, <2>6 DEF IInv, OnePodDown
<1>7. ASSUME NEW n \in Node, PodFails(n) PROVE IInv'
  <2>1. TypeOK'
    <3>1. pods' \in [Node -> PodStates]
      BY <1>7 DEF PodFails, IInv, TypeOK, PodStates
    <3>2. data' \in [Node -> {"holds", "moving", "empty", "missing"}] /\ system' \in DataNode
      BY <1>5, <1>7 DEF PodFails, IInv
    <3>3. faults' \in 0..MaxFaults
      BY <1>7, FaultBound DEF PodFails, IInv
    <3>4. UNCHANGED <<conf, initialized, old, seen, current, allocation, excluded, status, worker, edits>>
      BY <1>7 DEF PodFails
    <3> QED
      BY <3>1, <3>2, <3>3, <3>4 DEF IInv, TypeOK, worker
  <2>2. Recorded'
    BY <1>7 DEF PodFails, IInv, Recorded, RestrictionIsRecorded
  <2> QED
    BY <1>7, <2>1, <2>2, Zenon DEF PodFails, IInv, OnePodDown, OneNodeMissing
<1> QED
  BY <1>1, <1>2, <1>3, <1>4, <1>6, <1>7 DEF Controller

LEMMA NextKeepsIInv == IInv /\ [Next]_vars => IInv'
<1> SUFFICES ASSUME IInv, [Next]_vars PROVE IInv'
  OBVIOUS
<1>1. CASE Next
  BY <1>1, PassKeepsIInv, RestartPodKeepsIInv, ShardsKeepIInv, ControllerKeepsIInv
  DEF Next, Work
<1>2. CASE UNCHANGED vars
  <2>1. TypeOK' /\ Recorded'
    <3>1. TypeOK'
      BY <1>2 DEF vars, IInv, TypeOK
    <3>2. Recorded'
      BY <1>2, Zenon DEF vars, IInv, Recorded, RestrictionIsRecorded
    <3> QED
      BY <3>1, <3>2
  <2>2. Undisturbed => Undisturbed'
    BY <1>2 DEF vars, Undisturbed, Ready, Green
  <2> QED
    BY <1>2, <2>1, <2>2 DEF vars, IInv, OnePodDown, OneNodeMissing
<1> QED
  BY <1>1, <1>2

LEMMA IInvHolds == Spec => []IInv
BY InitIInv, NextKeepsIInv, PTL DEF Spec

\* Every variable of the restart keeps its type.
THEOREM RestartTypeCorrect == Spec => []TypeOK
<1>1. IInv => TypeOK
  BY DEF IInv
<1> QED
  BY <1>1, IInvHolds, PTL

\* For any pools, replicas, faults and crashes: allocation is restricted to primaries only while
\* the status entry "RollingRestart" says InProgress, so that a later pass lifts the restriction
\* (Reconcile, PreparePodForDelete, ReactivateShardAllocation).
THEOREM RestrictionAlwaysRecorded == Spec => []RestrictionIsRecorded
<1>1. IInv => RestrictionIsRecorded
  BY DEF IInv, Recorded
<1> QED
  BY <1>1, IInvHolds, PTL

\* For any pools and replicas, and wherever calls fail or the operator crashes: the restart never
\* takes down a second pod while one is down (Reconcile, restartSpecificPod).
THEOREM RestartTakesOnePodDown == Spec => []OnePodDown
<1>1. IInv => OnePodDown
  BY DEF IInv
<1> QED
  BY <1>1, IInvHolds, PTL

\* ... and it never deletes a pod before the copies of the one before have been recovered
\* (CheckClusterStatusForRestart).
THEOREM RestartLosesOneNode == Spec => []OneNodeMissing
<1>1. IInv => OneNodeMissing
  BY DEF IInv
<1> QED
  BY <1>1, IInvHolds, PTL
=============================================================================
