--------------------------- MODULE UpgradeProofs ---------------------------
(***************************************************************************)
(* What the rolling upgrade keeps to, for any pools, versions and bounds,  *)
(* wherever calls fail and the operator stops: it takes masters last,      *)
(* records a version only when all pods run it, and takes no pod down that *)
(* has the only copy of a shard.                                           *)
(***************************************************************************)
EXTENDS Upgrade, FiniteSetTheorems, WellFoundedInduction, TLAPS

\* The pass is about the pods of one pool; it has a pod at hand.
PodSteps == {"prepare", "drained", "delete", "include"}
PoolSteps == {"health", "reactivate", "mark"} \cup PodSteps
UpgradeSteps == {"clean", "find"} \cup PoolSteps

\* Every pod of the pool runs the version of its template.
AllRun(p) == \A n \in NodesOf(p) : runs[n] = templ[p]

\* Some pool has an entry.
Started == \E p \in Pool : entries[p] # "none"

\* The status of no StatefulSet lags behind when a pass begins.
Fresh == conf.lagging = {}

\* The pass knows what it works on: templates that were written, a status that counts the pods of
\* these templates, and a pool with an entry of its own.
PassInv ==
    /\ entries \in [Pool -> {"none", "Upgrading", "Upgraded"}]
    /\ templ \in [Pool -> Versions] /\ runs \in [Node -> Versions] /\ DOMAIN seen = Pool
    /\ want \in Versions /\ version \in Versions
    /\ Fresh => \A p \in Pool : seen[p].rev = templ[p] /\ seen[p].updated = Replicas[p] => AllRun(p)
    /\ Fresh /\ pc = "templates" => \A p \in Pool : templ[p] # inst => seen[p].rev = templ[p]
    /\ pc # "idle" => inst \in Versions
    /\ pc \notin {"idle", "templates"} => \A p \in Pool : templ[p] = inst
    /\ pc \in PoolSteps => Open # {} /\ entries[Current] = "Upgrading"
    /\ pc \in PodSteps => pod[1] = Current

\* While one upgrade is made at a time, its version is valid, all templates have it, and the pods
\* of the pools that are done run it.
ApartInv ==
    edited = "apart" =>
        /\ pc # "idle" => inst = want
        /\ phase = "UPGRADING" => want # version /\ ValidateUpgrade(version, want)
        /\ pc \in UpgradeSteps => phase = "UPGRADING"
        /\ Started => phase = "UPGRADING" /\ \A p \in Pool : templ[p] = want
        /\ Fresh /\ Started /\ pc # "idle" => \A p \in Pool : seen[p].rev = templ[p]
        /\ Fresh => \A p \in Pool : entries[p] = "Upgraded" => AllRun(p)
        /\ Fresh /\ pc \in {"reactivate", "mark"} => AllRun(Current)

IInv == PassInv /\ ApartInv

\* One upgrade at a time, with a current status of the StatefulSets.
Calm == Fresh /\ edited = "apart"

\* Templates and pods have the recorded version or the one asked for, and a pass that comes to the
\* rolling restart finds them the same.
VersionsInv ==
    Calm =>
        /\ \A p \in Pool : templ[p] \in {version, want}
        /\ \A n \in Node : runs[n] \in {version, want}
        /\ want = version /\ pc # "idle" => \A p \in Pool : seen[p].rev = version
        /\ pc = "restart" => want = version

\* A replica is on a node of its own, which is up.
CopiesInv ==
    /\ up \in [Node -> BOOLEAN] /\ shards \in [Shards -> Place]
    /\ \A s \in Shards : /\ shards[s].replica # shards[s].primary
                         /\ shards[s].replica # NoPod => up[shards[s].replica]

\* From the check of the health to the deletion, the pod at hand has the old version, and a shard
\* without a replica has its primary on a node of the new one.
TakeDown == {"prepare", "drained", "delete"}
DeleteInv ==
    Calm /\ ~conf.podsMayFail =>
        /\ ~Red
        /\ pc \in TakeDown =>
              /\ pod \in Node /\ up[pod] /\ runs[pod] # want
              /\ \A s \in Shards : Replicated(s) \/ runs[shards[s].primary] = want
-----------------------------------------------------------------------------
(* The operators of the upgrade *)

\* A non-empty set of positions has a first one.
LEMMA FirstIsLeast ==
    ASSUME NEW S \in SUBSET Nat, S # {}
    PROVE  First(S) \in S /\ \A j \in S : First(S) <= j
<1>1. PICK m \in S : \A j \in S : ~(<<j, m>> \in OpToRel(<, Nat))
  BY NatLessThanWellFounded, WFMin, Zenon
<1>2. OpToRel(<, Nat) = {ss \in Nat \X Nat : ss[1] < ss[2]}
  BY Zenon DEF OpToRel
<1>3. \A j \in S : m <= j
  <2> SUFFICES ASSUME NEW j \in S, ~(m <= j) PROVE FALSE
    OBVIOUS
  <2>1. <<j, m>> \in {ss \in Nat \X Nat : ss[1] < ss[2]}
    OBVIOUS
  <2> QED
    BY <1>1, <1>2, <2>1, Zenon
<1> QED
  BY <1>3, Zenon DEF First

LEMMA PoolFacts ==
    /\ Len(NodePools) \in Nat
    /\ \A i \in 1..Len(NodePools) : NodePools[i] \in Pool
    /\ \A p \in Pool : Replicas[p] \in Nat
    /\ Pool # {}
BY UpgradeAssumption DEF Pool

LEMMA NodeFacts ==
    ASSUME NEW p \in Pool, NEW n \in NodesOf(p)
    PROVE  n \in Node /\ n[1] = p
BY DEF Node, NodesOf

\* A StatefulSet that counts as many updated pods as it has replicas has no other pods.
LEMMA CountIsAll ==
    ASSUME NEW p \in Pool, Count(p) = Replicas[p]
    PROVE  AllRun(p)
<1> DEFINE I == 0..(Replicas[p] - 1)
           U == {n \in NodesOf(p) : up[n] /\ runs[n] = templ[p]}
<1>1. IsFiniteSet(I) /\ Cardinality(I) = Replicas[p]
  <2>1. 0 \in Int /\ Replicas[p] - 1 \in Int /\ Replicas[p] \in Nat
    BY PoolFacts
  <2>2. IsFiniteSet(I) /\ Cardinality(I) = IF 0 > Replicas[p] - 1 THEN 0 ELSE Replicas[p] - 1 - 0 + 1
    BY <2>1, FS_Interval, Zenon
  <2> QED
    BY <2>1, <2>2
<1>2. IsFiniteSet({p}) /\ Cardinality({p}) = 1
  BY FS_Singleton
<1>3. IsFiniteSet(NodesOf(p)) /\ Cardinality(NodesOf(p)) = 1 * Replicas[p]
  <2>1. /\ IsFiniteSet({p} \X I)
        /\ Cardinality({p} \X I) = Cardinality({p}) * Cardinality(I)
    BY <1>1, <1>2, FS_Product, Zenon
  <2> QED
    BY <1>1, <1>2, <2>1, Zenon DEF NodesOf
<1>4. U \subseteq NodesOf(p) /\ Cardinality(U) = Cardinality(NodesOf(p))
  BY <1>3, PoolFacts DEF Count
<1>5. U = NodesOf(p)
  BY <1>3, <1>4, FS_Subset
<1> QED
  BY <1>5 DEF AllRun

\* findNextNodePoolForUpgrade has a first pool for every non-empty choice: no other open pool
\* precedes it.
LEMMA CurrentIsFirst ==
    ASSUME entries \in [Pool -> {"none", "Upgrading", "Upgraded"}], Open # {}
    PROVE  \E i \in Open : Current = NodePools[i] /\ \A j \in Open \ {i} : Precedes(i, j)
<1> DEFINE G(k) == {i \in Open : Group(NodePools[i]) = k}
<1>1. Open \in SUBSET Nat /\ \A i \in Open : NodePools[i] \in Pool /\ entries[NodePools[i]] \in {"none", "Upgrading"}
  BY PoolFacts DEF Open
<1>2. \A i \in Open : Group(NodePools[i]) \in {1, 2, 3}
  BY DEF Group
<1>3. PICK k \in {1, 2, 3} : G(k) # {} /\ \A l \in {1, 2, 3} : G(l) # {} => k <= l
  <2>1. G(1) # {} \/ G(2) # {} \/ G(3) # {}
    BY <1>2
  <2> QED
    BY <2>1
<1> DEFINE T == {i \in G(k) : entries[NodePools[i]] = "Upgrading"}
           S == IF T # {} THEN T ELSE G(k)
<1>4. S \in SUBSET Nat /\ S # {}
  BY <1>1, <1>3
<1>5. PICK i \in S : \A j \in S : i <= j
  BY <1>4, FirstIsLeast
<1>6. i \in Open /\ i \in Nat /\ Group(NodePools[i]) = k /\ (T # {} => entries[NodePools[i]] = "Upgrading")
  BY <1>1, <1>5
<1>7. ASSUME NEW j \in Open \ {i} PROVE Precedes(i, j)
  <2>1. j \in Nat /\ Group(NodePools[j]) \in {1, 2, 3} /\ k <= Group(NodePools[j])
    BY <1>1, <1>2, <1>3
  <2>2. CASE k < Group(NodePools[j])
    BY <1>6, <2>2 DEF Precedes
  <2>3. CASE Group(NodePools[j]) = k
    <3>1. CASE entries[NodePools[j]] = entries[NodePools[i]]
      <4>1. j \in S
        BY <1>1, <1>6, <2>3, <3>1
      <4>2. i < j
        BY <1>5, <1>6, <1>7, <2>1, <4>1
      <4> QED
        BY <1>6, <2>3, <3>1, <4>2 DEF Precedes
    <3>2. CASE entries[NodePools[j]] # entries[NodePools[i]]
      <4>1. T # {}
        BY <1>1, <1>6, <2>3, <3>2
      <4> QED
        BY <1>1, <1>6, <2>3, <3>2, <4>1 DEF Precedes
    <3> QED
      BY <3>1, <3>2
  <2> QED
    BY <2>1, <2>2, <2>3
<1> DEFINE c == CHOOSE x \in Open : \A j \in Open \ {x} : Precedes(x, j)
<1>8. c \in Open /\ \A j \in Open \ {c} : Precedes(c, j)
  BY <1>6, <1>7, Zenon
<1> QED
  BY <1>8 DEF Current, FindNextNodePoolForUpgrade

\* The pool at hand is a pool of the cluster, and pools of an earlier group are done.
LEMMA CurrentPool ==
    ASSUME entries \in [Pool -> {"none", "Upgrading", "Upgraded"}], Open # {}
    PROVE  /\ Current \in Pool
           /\ \A p \in Pool : Group(p) < Group(Current) => entries[p] = "Upgraded"
<1>1. PICK i \in Open : Current = NodePools[i] /\ \A j \in Open \ {i} : Precedes(i, j)
  BY CurrentIsFirst
<1>2. Current \in Pool
  BY <1>1, PoolFacts DEF Open
<1>3. ASSUME NEW p \in Pool, Group(p) < Group(Current), entries[p] # "Upgraded" PROVE FALSE
  <2>1. PICK j \in 1..Len(NodePools) : p = NodePools[j]
    BY DEF Pool
  <2>2. j \in Open /\ j # i
    BY <1>1, <1>3, <2>1 DEF Open, Group
  <2>3. Precedes(i, j)
    BY <1>1, <2>2
  <2> QED
    BY <1>1, <1>3, <2>1, <2>3 DEF Precedes, Group
<1> QED
  BY <1>2, <1>3
-----------------------------------------------------------------------------
(* The pass keeps its invariant *)

\* Steps of the worker that write neither the resource nor a template, and steps around it that
\* only concern shards and the readiness of pods.
LEMMA WorkerMoves ==
    ASSUME IInv, UNCHANGED <<conf, want, version, phase, entries, templ, seen, runs, edited>>,
           inst' = inst \/ pc' = "idle",
           pc' # "idle" => pc # "idle",
           pc' = "templates" => pc = "templates",
           pc' \notin {"idle", "templates"} => \A p \in Pool : templ[p] = inst,
           pc' \in PoolSteps => Open # {} /\ entries[Current] = "Upgrading",
           pc' \in PodSteps => pod'[1] = Current,
           pc' \in UpgradeSteps => pc \in UpgradeSteps,
           Fresh /\ edited = "apart" /\ pc' \in {"reactivate", "mark"} => AllRun(Current)
    PROVE  IInv'
<1>1. Open' = Open /\ Current' = Current
  BY DEF Open, Current, FindNextNodePoolForUpgrade, Precedes
<1>2. (Started' <=> Started) /\ (Fresh' <=> Fresh) /\ \A p : AllRun(p)' <=> AllRun(p)
  BY DEF Started, Fresh, AllRun
<1>3. PassInv'
  BY <1>1, <1>2, Zenon DEF IInv, PassInv
<1>4. ApartInv'
  BY <1>1, <1>2 DEF IInv, ApartInv
<1> QED
  BY <1>3, <1>4 DEF IInv

LEMMA StatusFields == ASSUME NEW p PROVE Status(p).rev = templ[p] /\ Status(p).updated = Count(p)
BY DEF Status

LEMMA StartPassKeeps == ASSUME IInv, StartPass PROVE IInv'
<1> USE DEF StartPass, env, status, Fresh
<1>1. Fresh => \A p \in Pool : seen[p].rev = templ[p]
  <2>1. Fresh => \A p \in Pool : seen[p] = Status(p)
    OBVIOUS
  <2> QED
    BY <2>1, StatusFields
<1>2. (Started' <=> Started) /\ \A p : AllRun(p)' <=> AllRun(p)
  BY DEF Started, AllRun
<1>3. PassInv'
  BY <1>1, <1>2 DEF IInv, PassInv, PoolSteps, PodSteps
<1>4. ApartInv'
  BY <1>1, <1>2 DEF IInv, ApartInv, UpgradeSteps, PoolSteps, PodSteps
<1> QED
  BY <1>3, <1>4 DEF IInv

LEMMA WriteTemplateKeeps == ASSUME IInv, WriteTemplate PROVE IInv'
<1> DEFINE q == NodePools[First(Unwritten)]
<1>1. q \in Pool /\ templ[q] # inst
  <2>1. Unwritten \in SUBSET Nat /\ Unwritten # {}
    BY PoolFacts DEF Unwritten, WriteTemplate
  <2>2. First(Unwritten) \in Unwritten
    BY <2>1, FirstIsLeast
  <2> QED
    BY <2>2, PoolFacts DEF Unwritten
<1>2. /\ templ' = [templ EXCEPT ![q] = inst] /\ pc = "templates"
      /\ pc' \in {"templates", "idle"} /\ (pc' # "idle" => inst' = inst)
      /\ UNCHANGED <<conf, want, version, phase, entries, seen, runs, edited>>
  BY DEF WriteTemplate, Answered, Goto, EndPass, env, status
<1> HIDE DEF q
<1>3. /\ templ'[q] = inst /\ \A p \in Pool \ {q} : templ'[p] = templ[p]
      /\ templ' \in [Pool -> Versions]
  BY <1>1, <1>2 DEF IInv, PassInv
<1>4. \A p \in Pool \ {q} : AllRun(p)' <=> AllRun(p)
  BY <1>2, <1>3 DEF AllRun
<1>5. Fresh => seen[q].rev # templ'[q]
  BY <1>1, <1>2, <1>3 DEF IInv, PassInv
<1>6. (Fresh' <=> Fresh) /\ (Started' <=> Started)
  BY <1>2 DEF Fresh, Started
<1>7. PassInv'
  <2>1. Fresh => \A p \in Pool : seen'[p].rev = templ'[p] /\ seen'[p].updated = Replicas[p] => AllRun(p)'
    BY <1>2, <1>3, <1>4, <1>5 DEF IInv, PassInv
  <2>2. Fresh /\ pc' = "templates" => \A p \in Pool : templ'[p] # inst' => seen'[p].rev = templ'[p]
    BY <1>2, <1>3 DEF IInv, PassInv
  <2> QED
    BY <1>2, <1>3, <1>6, <2>1, <2>2 DEF IInv, PassInv, PoolSteps, PodSteps
<1>8. ApartInv'
  <2>1. edited = "apart" => ~Started
    BY <1>1, <1>2 DEF IInv, ApartInv
  <2>2. edited = "apart" => \A p \in Pool : entries[p] # "Upgraded"
    BY <2>1 DEF Started
  <2> QED
    BY <1>2, <1>6, <2>1, <2>2 DEF IInv, ApartInv, UpgradeSteps, PoolSteps, PodSteps
<1> QED
  BY <1>7, <1>8 DEF IInv
LEMMA InSyncKeeps == ASSUME IInv, InSync PROVE IInv'
<1>1. /\ pc = "ready" /\ inst = version /\ pc' \in {"restart", "idle"}
      /\ UNCHANGED <<conf, want, version, entries, templ, seen, runs, edited>>
      /\ (inst' = inst \/ pc' = "idle")
      /\ phase' = phase \/ (phase' = "RUNNING" /\ phase = "UPGRADING")
  BY DEF InSync, Answered, Goto, EndPass, env
<1>2. edited = "apart" => phase' = phase
  BY <1>1 DEF IInv, ApartInv
<1>3. (Started' <=> Started) /\ (Fresh' <=> Fresh) /\ \A p : AllRun(p)' <=> AllRun(p)
  BY <1>1 DEF Started, Fresh, AllRun
<1>4. PassInv'
  BY <1>1, <1>3 DEF IInv, PassInv, PoolSteps, PodSteps
<1>5. ApartInv'
  BY <1>1, <1>2, <1>3 DEF IInv, ApartInv, UpgradeSteps, PoolSteps, PodSteps
<1> QED
  BY <1>4, <1>5 DEF IInv

LEMMA BeginKeeps == ASSUME IInv, Begin PROVE IInv'
<1>1. /\ pc = "ready" /\ inst # version /\ ValidateUpgrade(version, inst)
      /\ phase' = "UPGRADING" /\ pc' \in {"clean", "find", "idle"}
      /\ UNCHANGED <<conf, want, version, entries, templ, seen, runs, edited>>
      /\ (inst' = inst \/ pc' = "idle")
  BY DEF Begin, Answered, Goto, EndPass, env
<1>2. (Started' <=> Started) /\ (Fresh' <=> Fresh) /\ \A p : AllRun(p)' <=> AllRun(p)
  BY <1>1 DEF Started, Fresh, AllRun
<1>3. PassInv'
  BY <1>1, <1>2 DEF IInv, PassInv, PoolSteps, PodSteps
<1>4. ApartInv'
  <2>1. edited = "apart" => inst = want
    BY <1>1 DEF IInv, ApartInv
  <2>2. ValidateUpgrade(version, want)' <=> ValidateUpgrade(version, want)
    BY <1>1 DEF ValidateUpgrade, LessThan
  <2>3. pc' \notin {"reactivate", "mark"}
    BY <1>1
  <2>4. edited = "apart" => want' # version' /\ ValidateUpgrade(version, want)'
    BY <1>1, <2>1, <2>2
  <2>5. edited = "apart" => /\ pc' # "idle" => inst' = want'
                            /\ Started' => \A p \in Pool : templ'[p] = want'
                            /\ Fresh' => \A p \in Pool : entries'[p] = "Upgraded" => AllRun(p)'
    BY <1>1, <1>2, <2>1 DEF IInv, ApartInv
  <2>6. edited = "apart" /\ Fresh' /\ Started' => \A p \in Pool : seen'[p].rev = templ'[p]
    BY <1>1, <1>2 DEF IInv, ApartInv
  <2> QED
    BY <1>1, <2>3, <2>4, <2>5, <2>6 DEF ApartInv
<1> QED
  BY <1>3, <1>4 DEF IInv

\* Steps at the end of a pass that give one pool its next entry.
LEMMA EntryKeeps ==
    ASSUME IInv, NEW e \in {"Upgrading", "Upgraded"}, entries' = [entries EXCEPT ![Current] = e],
           pc \in UpgradeSteps, pc' = "idle",
           UNCHANGED <<conf, want, version, phase, templ, seen, runs, edited>>,
           Fresh /\ edited = "apart" /\ e = "Upgraded" => AllRun(Current)
    PROVE  IInv'
<1>1. pc \notin {"idle", "templates"}
  BY DEF UpgradeSteps, PoolSteps, PodSteps
<1>2. (Fresh' <=> Fresh) /\ \A p : AllRun(p)' <=> AllRun(p)
  BY DEF Fresh, AllRun
<1>3. PassInv'
  BY <1>2 DEF IInv, PassInv, PoolSteps, PodSteps
<1>4. \A p \in Pool : entries'[p] = "Upgraded" => entries[p] = "Upgraded" \/ (p = Current /\ e = "Upgraded")
  BY DEF IInv, PassInv
<1>5. ApartInv'
  <2>1. edited = "apart" => phase = "UPGRADING" /\ inst = want /\ \A p \in Pool : templ[p] = inst
    BY <1>1 DEF IInv, PassInv, ApartInv
  <2>2. ValidateUpgrade(version, want)' <=> ValidateUpgrade(version, want)
    BY DEF ValidateUpgrade, LessThan
  <2> QED
    BY <1>2, <1>4, <2>1, <2>2 DEF IInv, ApartInv, UpgradeSteps, PoolSteps, PodSteps
<1> QED
  BY <1>3, <1>5 DEF IInv

LEMMA FinishUpgradeKeeps == ASSUME IInv, FinishUpgrade PROVE IInv'
<1>1. /\ pc = "find" /\ pc' \in {"restart", "idle"} /\ (inst' = inst \/ pc' = "idle")
      /\ version' = want /\ phase' = "RUNNING" /\ entries' = [p \in Pool |-> "none"]
      /\ UNCHANGED <<conf, want, templ, seen, runs, edited>>
  BY DEF FinishUpgrade, Last, Goto, EndPass, env
<1>2. ~Started' /\ (Fresh' <=> Fresh) /\ \A p : AllRun(p)' <=> AllRun(p)
  BY <1>1 DEF Started, Fresh, AllRun
<1>3. PassInv'
  BY <1>1, <1>2 DEF IInv, PassInv, PoolSteps, PodSteps
<1>4. ApartInv'
  BY <1>1, <1>2 DEF IInv, ApartInv, UpgradeSteps, PoolSteps, PodSteps
<1> QED
  BY <1>3, <1>4 DEF IInv

\* A new version that comes while the cluster is settled finds no upgrade in progress.
LEMMA EditVersionKeeps == ASSUME IInv, NEW v \in Versions, EditVersion(v) PROVE IInv'
<1>1. /\ want' = v /\ UNCHANGED <<conf, version, phase, entries, templ, seen, runs, pc, inst, pod>>
      /\ edited' = "apart" => edited = "apart" /\ phase = "RUNNING" /\ pc = "idle"
  BY DEF EditVersion, Settled, status, worker
<1>2. Open' = Open /\ Current' = Current
  BY <1>1 DEF Open, Current, FindNextNodePoolForUpgrade, Precedes
<1>3. (Started' <=> Started) /\ (Fresh' <=> Fresh) /\ \A p : AllRun(p)' <=> AllRun(p)
  BY <1>1 DEF Started, Fresh, AllRun
<1>4. PassInv'
  BY <1>1, <1>2, <1>3 DEF IInv, PassInv
<1>5. ApartInv'
  BY <1>1, <1>3 DEF IInv, ApartInv, UpgradeSteps, PoolSteps, PodSteps
<1> QED
  BY <1>4, <1>5 DEF IInv

LEMMA ObserveStatusKeeps == ASSUME IInv, NEW q \in Pool, ObserveStatus(q) PROVE IInv'
<1>1. /\ seen' = [seen EXCEPT ![q] = Status(q)]
      /\ UNCHANGED <<conf, want, version, phase, entries, templ, runs, edited, pc, inst, pod>>
  BY DEF ObserveStatus, status, worker
<1>2. /\ seen'[q].rev = templ[q] /\ seen'[q].updated = Count(q)
      /\ \A p \in Pool \ {q} : seen'[p] = seen[p]
      /\ DOMAIN seen' = Pool
  <2>1. seen'[q] = Status(q)
    BY <1>1 DEF IInv, PassInv
  <2> QED
    BY <1>1, <2>1, StatusFields DEF IInv, PassInv
<1>3. Open' = Open /\ Current' = Current
  BY <1>1 DEF Open, Current, FindNextNodePoolForUpgrade, Precedes
<1>4. (Started' <=> Started) /\ (Fresh' <=> Fresh) /\ \A p : AllRun(p)' <=> AllRun(p)
  BY <1>1 DEF Started, Fresh, AllRun
<1>5. Fresh => \A p \in Pool : seen'[p].rev = templ[p] /\ seen'[p].updated = Replicas[p] => AllRun(p)
  BY <1>2, CountIsAll DEF IInv, PassInv
<1>6. PassInv'
  BY <1>1, <1>2, <1>3, <1>4, <1>5 DEF IInv, PassInv
<1>7. ApartInv'
  BY <1>1, <1>2, <1>3, <1>4 DEF IInv, ApartInv
<1> QED
  BY <1>6, <1>7 DEF IInv

\* A pod that starts runs the version of the template.
LEMMA PodStartsKeeps == ASSUME IInv, NEW n \in Node, PodStarts(n) PROVE IInv'
<1>1. /\ runs' = [runs EXCEPT ![n] = templ[n[1]]]
      /\ UNCHANGED <<conf, want, version, phase, entries, templ, seen, edited, pc, inst, pod>>
  BY DEF PodStarts, status, worker
<1>2. Open' = Open /\ Current' = Current
  BY <1>1 DEF Open, Current, FindNextNodePoolForUpgrade, Precedes
<1>3. (Started' <=> Started) /\ (Fresh' <=> Fresh)
  BY <1>1 DEF Started, Fresh
<1>4. ASSUME NEW p \in Pool, AllRun(p) PROVE AllRun(p)'
  BY <1>1, <1>4, NodeFacts DEF AllRun, IInv, PassInv
<1>5. runs' \in [Node -> Versions]
  BY <1>1, NodeFacts DEF Node, IInv, PassInv
<1>6. PassInv'
  BY <1>1, <1>2, <1>3, <1>4, <1>5 DEF IInv, PassInv
<1>7. pc \in PoolSteps => Current \in Pool
  BY CurrentPool DEF IInv, PassInv
<1>8. ApartInv'
  BY <1>1, <1>2, <1>3, <1>4, <1>7 DEF IInv, ApartInv, PoolSteps
<1> QED
  BY <1>6, <1>8 DEF IInv
LEMMA UpgradeStep == IInv /\ [Next]_vars => IInv'
<1> SUFFICES ASSUME IInv, [Next]_vars PROVE IInv'
  OBVIOUS
<1> USE DEF Answered, EndPass, Goto, Last, env, status, worker
<1>a. pc \in PoolSteps => Current \in Pool /\ Open # {} /\ entries[Current] = "Upgrading"
  BY CurrentPool DEF IInv, PassInv
<1>b. pc \notin {"idle", "templates"} => \A p \in Pool : templ[p] = inst
  BY DEF IInv, PassInv
<1>c. pc \in PodSteps => pod[1] = Current
  BY DEF IInv, PassInv
<1>d. Fresh /\ edited = "apart" /\ pc \in {"reactivate", "mark"} => AllRun(Current)
  BY DEF IInv, ApartInv
<1> USE DEF PodSteps, PoolSteps, UpgradeSteps
<1>1. CASE StartPass BY <1>1, StartPassKeeps
<1>2. CASE WriteTemplate BY <1>2, WriteTemplateKeeps
<1>3. CASE NodePoolsReady
  <2>1. \A p \in Pool : templ[p] = inst
    BY <1>3 DEF NodePoolsReady, Unwritten, Pool
  <2> QED
    BY <1>3, <2>1, WorkerMoves DEF NodePoolsReady
<1>4. CASE InSync BY <1>4, InSyncKeeps
<1>5. CASE Refuse BY <1>5, WorkerMoves DEF Refuse
<1>6. CASE Begin BY <1>6, BeginKeeps
<1>7. CASE CleanStaleExclusionList
  <2>1. /\ pc = "clean" /\ pc' \in {"find", "idle"} /\ (inst' = inst \/ pc' = "idle")
        /\ UNCHANGED <<conf, want, version, phase, entries, templ, seen, runs, edited>>
    BY <1>7 DEF CleanStaleExclusionList
  <2> QED
    BY <2>1, <1>b, WorkerMoves
<1>8. CASE StartPool
  BY <1>8, EntryKeeps DEF StartPool, Current
<1>9. CASE FinishUpgrade BY <1>9, FinishUpgradeKeeps
<1>10. CASE WorkOnPool
  <2>1. /\ pc = "find" /\ pc' \in {"health", "idle"} /\ (inst' = inst \/ pc' = "idle")
        /\ Open # {} /\ entries[Current] = "Upgrading"
        /\ UNCHANGED <<conf, want, version, phase, entries, templ, seen, runs, edited>>
    BY <1>10 DEF WorkOnPool
  <2> QED
    BY <2>1, <1>b, WorkerMoves
<1>11. CASE CheckHealth
  <2>1. /\ pc = "health"
        /\ GoOn \/ EndPass
        /\ UNCHANGED <<conf, want, version, phase, entries, templ, seen, runs, edited>>
    BY <1>11 DEF CheckHealth, NotReady
  <2>2. /\ pc' \in {"reactivate", "prepare", "idle"} /\ (inst' = inst \/ pc' = "idle")
        /\ pc' = "prepare" => pod'[1] = Current
        /\ pc' = "reactivate" => seen[Current].updated = Replicas[Current]
    BY <2>1 DEF GoOn, WorkingPod
  <2>3. Fresh /\ edited = "apart" /\ pc' = "reactivate" => AllRun(Current)
    <3>1. Current \in Pool /\ Started
      BY <1>a, <2>1 DEF Started
    <3>2. Fresh /\ edited = "apart" => seen[Current].rev = templ[Current]
      BY <2>1, <3>1 DEF IInv, ApartInv
    <3> QED
      BY <2>2, <3>1, <3>2 DEF IInv, PassInv
  <2> QED
    BY <1>a, <1>b, <2>1, <2>2, <2>3, WorkerMoves
<1>12. CASE ReactivateShardAllocation
  <2>1. /\ pc = "reactivate" /\ pc' \in {"mark", "idle"} /\ (inst' = inst \/ pc' = "idle")
        /\ UNCHANGED <<conf, want, version, phase, entries, templ, seen, runs, edited>>
    BY <1>12 DEF ReactivateShardAllocation
  <2> QED
    BY <1>a, <1>b, <1>d, <2>1, WorkerMoves
<1>13. CASE MarkUpgraded
  BY <1>13, <1>d, EntryKeeps DEF MarkUpgraded
<1>14. CASE PreparePodForDelete \/ CheckDrained \/ DeletePod \/ IncludeNode
  <2>1. /\ pc \in PodSteps /\ pc' \in {"drained", "delete", "include", "idle"}
        /\ (inst' = inst /\ pod' = pod) \/ pc' = "idle"
        /\ UNCHANGED <<conf, want, version, phase, entries, templ, seen, runs, edited>>
    BY <1>14 DEF PreparePodForDelete, CheckDrained, DeletePod, IncludeNode
  <2> QED
    BY <1>a, <1>b, <1>c, <2>1, WorkerMoves
<1>15. CASE RollingRestart \/ PassFails
  <2>1. /\ pc' = "idle"
        /\ UNCHANGED <<conf, want, version, phase, entries, templ, seen, runs, edited>>
    BY <1>15 DEF RollingRestart, RestartIdle, RestartWaits, RestartPod, PassFails
  <2> QED
    BY <2>1, WorkerMoves
<1>16. ASSUME NEW v \in Versions, EditVersion(v) PROVE IInv'
  BY <1>16, EditVersionKeeps
<1>17. ASSUME NEW p \in Pool, ObserveStatus(p) PROVE IInv'
  BY <1>17, ObserveStatusKeeps
<1>18. ASSUME NEW n \in Node, PodStarts(n) PROVE IInv'
  BY <1>18, PodStartsKeeps
<1>19. CASE UNCHANGED vars \/ (\E n \in Node : PodFails(n)) \/ (\E s \in Shards : Allocate(s) \/ Rebalance(s))
  <2>1. UNCHANGED <<conf, want, version, phase, entries, templ, seen, runs, edited, pc, inst, pod>>
    BY <1>19 DEF PodFails, Allocate, AllocateReplica, ReplicaStarts, BeginMove, EndMove, Rebalance, vars
  <2> QED
    BY <1>a, <1>b, <1>c, <1>d, <2>1, WorkerMoves
<1> QED
  BY <1>1, <1>2, <1>3, <1>4, <1>5, <1>6, <1>7, <1>8, <1>9, <1>10, <1>11, <1>12, <1>13, <1>14, <1>15, <1>16,
     <1>17, <1>18, <1>19 DEF Next, Work, Reconcile, DoNodePoolUpgrade

LEMMA UpgradeInit == Init => IInv
<1> SUFFICES ASSUME Init PROVE IInv
  OBVIOUS
<1>1. ~Started /\ \A p \in Pool : AllRun(p)
  BY NodeFacts DEF Init, Started, AllRun
<1>2. PassInv
  BY <1>1, NodeFacts DEF Init, PassInv, PoolSteps, PodSteps
<1>3. ApartInv
  BY <1>1 DEF Init, ApartInv, UpgradeSteps, PoolSteps, PodSteps
<1> QED
  BY <1>2, <1>3 DEF IInv

LEMMA UpgradeInvariant == Spec => []IInv
BY UpgradeInit, UpgradeStep, PTL DEF Spec

\* The upgrade takes a master down only when every data node without that role runs the new
\* version: findNextNodePoolForUpgrade takes their pools first, and a pool is done only when the
\* status of its StatefulSet, which is current, counts all its pods.
THEOREM UpgradeTakesMastersLast == Spec => MastersAreLast
<1> DEFINE Masters == pc = "delete" /\ pc' # pc /\ up' # up /\ pod[1] \in MasterPools /\ conf.lagging = {} /\ edited = "apart" =>
                          \A n \in DataNode : n[1] \notin MasterPools => runs[n] = inst
<1>1. ASSUME IInv PROVE Masters
  <2> SUFFICES ASSUME pc = "delete", pod[1] \in MasterPools, Fresh, edited = "apart",
                      NEW n \in DataNode, n[1] \notin MasterPools
               PROVE  runs[n] = inst
    BY DEF Fresh
  <2>1. Open # {} /\ pod[1] = Current /\ \A p \in Pool : templ[p] = inst
    BY <1>1 DEF IInv, PassInv, PoolSteps, PodSteps
  <2>2. PICK p \in DataPools : n \in NodesOf(p)
    BY DEF DataNode
  <2>3. p \in Pool /\ n[1] = p
    BY <2>2, UpgradeAssumption DEF NodesOf
  <2>4. Group(p) < Group(Current)
    <3>1. Group(p) = 1
      BY <2>3 DEF Group
    <3>2. Group(Current) = 2 \/ Group(Current) = 3
      BY <2>1 DEF Group
    <3>3. 1 < 2 /\ 1 < 3
      OBVIOUS
    <3> QED
      BY <3>1, <3>2, <3>3, Zenon
  <2>5. entries[p] = "Upgraded"
    BY <1>1, <2>1, <2>3, <2>4, CurrentPool DEF IInv, PassInv
  <2>6. AllRun(p)
    BY <1>1, <2>3, <2>5 DEF IInv, ApartInv
  <2>7. runs[n] = templ[p]
    BY <2>2, <2>6, Zenon DEF AllRun
  <2> QED
    BY <2>1, <2>3, <2>7, Zenon
<1>2. IInv /\ [Next]_vars => [Masters]_vars
  BY <1>1
<1> QED
  BY <1>2, UpgradeInvariant, PTL DEF Spec, MastersAreLast

\* The version is recorded when every pod runs it, and is then neither a downgrade nor a jump over
\* a major version: the entries of all pools say so, and they belong to one valid upgrade.
THEOREM UpgradeRecordsWhatRuns == Spec => VersionIsRun
<1> DEFINE Recorded == version' # version =>
               /\ edited = "apart" => ~LessThan(version', version) /\ version'.major <= version.major + 1
               /\ conf.lagging = {} /\ edited = "apart" => \A n \in Node : runs[n] = version'
<1>1. ASSUME IInv, Next PROVE Recorded
  <2> SUFFICES ASSUME version' # version PROVE Recorded
    OBVIOUS
  <2>1. FinishUpgrade
    BY <1>1 DEF Next, Work, Reconcile, DoNodePoolUpgrade, RollingRestart, StartPass, WriteTemplate, NodePoolsReady,
       InSync, Refuse, Begin, CleanStaleExclusionList, StartPool, WorkOnPool, CheckHealth, ReactivateShardAllocation,
       MarkUpgraded, PreparePodForDelete, CheckDrained, DeletePod, IncludeNode, RestartIdle, RestartWaits,
       RestartPod, PassFails, EditVersion, ObserveStatus, PodStarts, PodFails, Allocate,
       AllocateReplica, ReplicaStarts, BeginMove, EndMove, Rebalance, status
  <2>2. pc = "find" /\ Open = {} /\ version' = want
    BY <2>1 DEF FinishUpgrade
  <2>3. edited = "apart" => ValidateUpgrade(version, want)
    BY <1>1, <2>2 DEF IInv, ApartInv, UpgradeSteps
  <2>4. edited = "apart" => ~LessThan(want, version) /\ want.major <= version.major + 1
    <3>1. want.major \in Nat /\ version.major \in Nat
      BY <1>1, UpgradeAssumption DEF IInv, PassInv
    <3> QED
      BY <2>3, <3>1 DEF ValidateUpgrade
  <2>5. \A p \in Pool : entries[p] = "Upgraded"
    BY <2>2 DEF Open, Pool
  <2>6. ASSUME Fresh, edited = "apart", NEW n \in Node PROVE runs[n] = want
    <3>1. PICK p \in Pool : n \in NodesOf(p)
      BY DEF Node
    <3>2. AllRun(p) /\ templ[p] = want
      BY <1>1, <2>2, <2>5, <2>6 DEF IInv, PassInv, ApartInv
    <3>3. runs[n] = templ[p]
      BY <3>1, <3>2, Zenon DEF AllRun
    <3> QED
      BY <3>2, <3>3
  <2> QED
    BY <2>2, <2>4, <2>6 DEF Fresh
<1>2. IInv /\ [Next]_vars => [Recorded]_vars
  BY <1>1 DEF vars
<1> QED
  BY <1>2, UpgradeInvariant, PTL DEF Spec, VersionIsRun
-----------------------------------------------------------------------------
(* No shard loses its last copy *)

\* Versions are totally ordered.
LEMMA VersionOrder ==
    ASSUME NEW v \in Versions, NEW w \in Versions
    PROVE  /\ ~LessThan(v, v)
           /\ ~LessThan(w, v) /\ w # v => LessThan(v, w)
<1>1. v \in [major : Nat, minor : Nat, pre : BOOLEAN] /\ w \in [major : Nat, minor : Nat, pre : BOOLEAN]
  BY UpgradeAssumption
<1>2. v.major = w.major /\ v.minor = w.minor /\ v.pre = w.pre => v = w
  BY <1>1
<1>3. ~LessThan(v, v)
  BY <1>1 DEF LessThan
<1>4. ASSUME ~LessThan(w, v), w # v PROVE LessThan(v, w)
  <2>1. v.major \in Nat /\ w.major \in Nat /\ v.minor \in Nat /\ w.minor \in Nat
    BY <1>1
  <2>2. v.pre \in BOOLEAN /\ w.pre \in BOOLEAN
    BY <1>1
  <2>3. CASE v.major = w.major /\ v.minor = w.minor
    <3>1. v.pre # w.pre
      BY <1>2, <1>4, <2>3
    <3>2. ~(w.pre /\ ~v.pre)
      BY <1>4, <2>3 DEF LessThan
    <3>3. v.pre /\ ~w.pre
      BY <2>2, <3>1, <3>2
    <3> QED
      BY <2>3, <3>3 DEF LessThan
  <2>4. CASE ~(v.major = w.major /\ v.minor = w.minor)
    BY <1>4, <2>1, <2>4 DEF LessThan
  <2> QED
    BY <2>3, <2>4
<1> QED
  BY <1>3, <1>4

\* While one upgrade is made, the version asked for is the later one of two.
LEMMA TwoVersions ==
    ASSUME IInv, VersionsInv, Calm, pc \in UpgradeSteps, NEW m \in Node, NEW n \in Node
    PROVE  /\ LessThan(runs[m], runs[n]) => runs[n] = want
           /\ runs[n] = want /\ ~LessThan(runs[m], runs[n]) => runs[m] = want
<1>1. want \in Versions /\ version \in Versions
  BY DEF IInv, PassInv
<1>2. want # version /\ ~LessThan(want, version)
  BY DEF IInv, ApartInv, Calm, ValidateUpgrade
<1>3. LessThan(version, want) /\ ~LessThan(version, version)
  BY <1>1, <1>2, VersionOrder
<1>4. runs[m] \in {version, want} /\ runs[n] \in {version, want}
  BY DEF VersionsInv
<1> QED
  BY <1>2, <1>3, <1>4

\* Steps that leave the versions alone.
LEMMA SameVersions ==
    ASSUME VersionsInv, UNCHANGED <<conf, want, version, templ, seen, runs, edited>>,
           pc' # "idle" => pc # "idle", pc' = "restart" => pc = "restart"
    PROVE  VersionsInv'
BY DEF VersionsInv, Calm, Fresh

LEMMA VersionsStep == IInv /\ VersionsInv /\ [Next]_vars => VersionsInv'
<1> SUFFICES ASSUME IInv, VersionsInv, [Next]_vars PROVE VersionsInv'
  OBVIOUS
<1> USE DEF Answered, EndPass, Goto, Last, env, status, worker
<1>1. CASE StartPass
  <2>1. Fresh => \A p \in Pool : seen[p].rev = templ[p]
    BY <1>1, StatusFields DEF StartPass, Fresh
  <2> QED
    BY <1>1, <2>1 DEF StartPass, VersionsInv, Calm, Fresh
<1>2. CASE WriteTemplate
  <2> DEFINE q == NodePools[First(Unwritten)]
  <2>1. q \in Pool /\ templ[q] # inst
    <3>1. Unwritten \in SUBSET Nat /\ Unwritten # {}
      BY <1>2, PoolFacts DEF Unwritten, WriteTemplate
    <3>2. First(Unwritten) \in Unwritten
      BY <3>1, FirstIsLeast
    <3> QED
      BY <3>2, PoolFacts DEF Unwritten
  <2>2. /\ templ' = [templ EXCEPT ![q] = inst] /\ pc = "templates" /\ pc' \in {"templates", "idle"}
        /\ UNCHANGED <<conf, want, version, seen, runs, edited>>
    BY <1>2 DEF WriteTemplate
  <2> HIDE DEF q
  <2>3. Calm => inst = want
    BY <2>2 DEF IInv, ApartInv, Calm
  <2>4. templ'[q] = inst /\ \A p \in Pool \ {q} : templ'[p] = templ[p]
    BY <2>1, <2>2 DEF IInv, PassInv
  <2> QED
    BY <2>1, <2>2, <2>3, <2>4 DEF VersionsInv, Calm, Fresh
<1>3. CASE NodePoolsReady BY <1>3, SameVersions DEF NodePoolsReady
<1>4. CASE InSync
  <2>1. /\ pc = "ready" /\ inst = version
        /\ UNCHANGED <<conf, want, version, templ, seen, runs, edited>>
    BY <1>4 DEF InSync
  <2>2. Calm => inst = want
    BY <2>1 DEF IInv, ApartInv, Calm
  <2> QED
    BY <2>1, <2>2 DEF VersionsInv, Calm, Fresh
<1>5. CASE Refuse \/ Begin BY <1>5, SameVersions DEF Refuse, Begin
<1>6. CASE CleanStaleExclusionList BY <1>6, SameVersions DEF CleanStaleExclusionList
<1>7. CASE StartPool \/ MarkUpgraded BY <1>7, SameVersions DEF StartPool, MarkUpgraded
<1>8. CASE FinishUpgrade
  <2>1. /\ pc = "find" /\ Open = {} /\ version' = want
        /\ UNCHANGED <<conf, want, templ, seen, runs, edited>>
    BY <1>8 DEF FinishUpgrade
  <2>2. Started /\ \A p \in Pool : entries[p] = "Upgraded"
    BY <2>1, PoolFacts DEF Open, Pool, Started
  <2>3. Calm => \A p \in Pool : templ[p] = want /\ seen[p].rev = want /\ AllRun(p)
    BY <2>1, <2>2 DEF IInv, ApartInv, Calm
  <2>4. ASSUME Calm, NEW n \in Node PROVE runs[n] = want
    <3>1. PICK p \in Pool : n \in NodesOf(p)
      BY DEF Node
    <3> QED
      BY <2>3, <2>4, <3>1, Zenon DEF AllRun
  <2> QED
    BY <2>1, <2>3, <2>4 DEF VersionsInv, Calm, Fresh
<1>9. CASE WorkOnPool BY <1>9, SameVersions DEF WorkOnPool
<1>10. CASE CheckHealth BY <1>10, SameVersions DEF CheckHealth, NotReady, GoOn
<1>11. CASE ReactivateShardAllocation BY <1>11, SameVersions DEF ReactivateShardAllocation
<1>12. CASE PreparePodForDelete BY <1>12, SameVersions DEF PreparePodForDelete
<1>13. CASE CheckDrained \/ DeletePod BY <1>13, SameVersions DEF CheckDrained, DeletePod
<1>14. CASE IncludeNode \/ PassFails BY <1>14, SameVersions DEF IncludeNode, PassFails
<1>15. CASE RollingRestart
  BY <1>15, SameVersions DEF RollingRestart, RestartIdle, RestartWaits, RestartPod
<1>16. ASSUME NEW v \in Versions, EditVersion(v) PROVE VersionsInv'
  <2>1. /\ want' = v /\ UNCHANGED <<conf, version, templ, seen, runs, pc>>
        /\ edited' = "apart" => edited = "apart" /\ want = version /\ pc = "idle"
    BY <1>16 DEF EditVersion, Settled
  <2> QED
    BY <2>1 DEF VersionsInv, Calm, Fresh
<1>17. ASSUME NEW q \in Pool, ObserveStatus(q) PROVE VersionsInv'
  <2>1. /\ seen' = [seen EXCEPT ![q] = Status(q)]
        /\ UNCHANGED <<conf, want, version, templ, runs, edited, pc>>
    BY <1>17 DEF ObserveStatus
  <2>2. seen'[q].rev = templ[q] /\ \A p \in Pool \ {q} : seen'[p] = seen[p]
    BY <2>1, StatusFields DEF IInv, PassInv
  <2> QED
    BY <2>1, <2>2 DEF VersionsInv, Calm, Fresh
<1>18. ASSUME NEW n \in Node, PodStarts(n) PROVE VersionsInv'
  <2>1. /\ runs' = [runs EXCEPT ![n] = templ[n[1]]]
        /\ UNCHANGED <<conf, want, version, templ, seen, edited, pc>>
    BY <1>18 DEF PodStarts
  <2>2. n[1] \in Pool
    BY NodeFacts DEF Node
  <2> QED
    BY <2>1, <2>2 DEF VersionsInv, Calm, Fresh, IInv, PassInv
<1>19. CASE UNCHANGED vars \/ (\E n \in Node : PodFails(n)) \/ (\E s \in Shards : Allocate(s) \/ Rebalance(s))
  <2>1. UNCHANGED <<conf, want, version, templ, seen, runs, edited, pc>>
    BY <1>19 DEF PodFails, Allocate, AllocateReplica, ReplicaStarts, BeginMove, EndMove, Rebalance, vars
  <2> QED
    BY <2>1, SameVersions
<1> QED
  BY <1>1, <1>2, <1>3, <1>4, <1>5, <1>6, <1>7, <1>8, <1>9, <1>10, <1>11, <1>12, <1>13, <1>14, <1>15, <1>16,
     <1>17, <1>18, <1>19 DEF Next, Work, Reconcile, DoNodePoolUpgrade

\* Steps that leave the copies alone.
LEMMA SameCopies ==
    ASSUME CopiesInv, DeleteInv, UNCHANGED <<conf, want, up, runs, shards, edited>>,
           pc' \in TakeDown => pc \in TakeDown /\ pod' = pod
    PROVE  CopiesInv' /\ DeleteInv'
BY DEF CopiesInv, DeleteInv, Calm, Fresh, Red, Replicated

LEMMA DataNodes == DataNode \subseteq Node /\ NoPod \notin DataNode
BY UpgradeAssumption DEF DataNode, Node

\* The pass goes on to a pod of the old version only if replicas are missing at most of shards
\* that are on nodes of the new one.
LEMMA HealthIsEnough == ASSUME IInv, VersionsInv, CopiesInv, DeleteInv, CheckHealth PROVE CopiesInv' /\ DeleteInv'
<1>1. pc = "health" /\ UNCHANGED <<conf, want, up, runs, seen, shards, edited>>
  BY DEF CheckHealth, env
<1>2. CASE pc' \notin TakeDown
  BY <1>1, <1>2, SameCopies
<1>3. CASE pc' \in TakeDown
  <2>1. SafeToRestart /\ Older # {} /\ up[WorkingPod] /\ pc' = "prepare" /\ pod' = WorkingPod
    BY <1>3 DEF CheckHealth, NotReady, GoOn, Goto, EndPass, TakeDown
  <2>2. Current \in Pool /\ Started /\ Replicas[Current] \in Nat
    BY <1>1, CurrentPool, PoolFacts DEF IInv, PassInv, PoolSteps, Started
  <2>3. First(Older) \in Older
    <3>1. Older \in SUBSET Nat
      BY <2>2 DEF Older
    <3> QED
      BY <2>1, <3>1, FirstIsLeast
  <2>4. WorkingPod \in Node /\ runs[WorkingPod] # seen[Current].rev
    <3>1. WorkingPod \in NodesOf(Current)
      BY <2>3 DEF WorkingPod, Older, NodesOf
    <3> QED
      BY <2>1, <2>2, <2>3, <3>1, NodeFacts DEF WorkingPod, Older
  <2>5. Calm => seen[Current].rev = want
    BY <1>1, <2>2 DEF Calm, IInv, ApartInv
  <2>6. ASSUME Calm, ~conf.podsMayFail, NEW s \in Shards, ~Replicated(s) PROVE runs[shards[s].primary] = want
    <3>1. CheckClusterRestartOnYellow
      BY <2>1, <2>6 DEF SafeToRestart, Green
    <3>2. DetectShardStuckVersionMismatch(s)
      BY <2>6, <3>1 DEF CheckClusterRestartOnYellow, Replicated
    <3>3. PICK n \in DataNode : LessThan(runs[n], runs[shards[s].primary])
      BY <3>2 DEF DetectShardStuckVersionMismatch, TooOld
    <3>4. shards[s].primary \in Node /\ n \in Node
      BY DataNodes DEF CopiesInv, Place
    <3> QED
      BY <1>1, <2>6, <3>3, <3>4, TwoVersions DEF UpgradeSteps, PoolSteps
  <2>7. DeleteInv'
    BY <1>1, <2>1, <2>4, <2>5, <2>6 DEF DeleteInv, Calm, Fresh, Red, Replicated
  <2> QED
    BY <1>1, <2>7 DEF CopiesInv
<1> QED
  BY <1>2, <1>3

\* OpenSearch moves a copy before it gives the old one up, and a primary only to a node that is not
\* older.
LEMMA AllocationKeeps ==
    ASSUME IInv, VersionsInv, CopiesInv, DeleteInv, NEW s \in Shards, Allocate(s) \/ Rebalance(s)
    PROVE  CopiesInv' /\ DeleteInv'
<1> DEFINE c == shards[s]
           d == shards'[s]
           Kept == /\ shards' \in [Shards -> Place] /\ d \in Place
                   /\ d.replica # d.primary /\ (d.replica # NoPod => up[d.replica])
                   /\ d.primary # c.primary => up[d.primary] /\ ~LessThan(runs[d.primary], runs[c.primary])
                   /\ c.replica # NoPod /\ c.moving # "new" => d.replica # NoPod /\ d.moving # "new"
<1>1. UNCHANGED <<conf, want, version, up, runs, edited, pc, inst, pod>> /\ \A t \in Shards \ {s} : shards'[t] = shards[t]
  BY DEF Allocate, AllocateReplica, ReplicaStarts, BeginMove, EndMove, Rebalance, env, status, worker, CopiesInv
<1>2. c \in Place /\ c.replica # c.primary /\ (c.replica # NoPod => up[c.replica])
  BY DEF CopiesInv
<1>3. Kept
  <2> USE <1>2, DataNodes DEF CopiesInv, Place, MayTake, TooOld
  <2>1. CASE AllocateReplica(s) BY <2>1 DEF AllocateReplica
  <2>2. CASE ReplicaStarts(s) BY <2>2 DEF ReplicaStarts
  <2>3. CASE BeginMove(s) BY <2>3 DEF BeginMove
  <2>4. CASE EndMove(s)
    <3>1. CASE shards' = [shards EXCEPT ![s].moving = "none"]
      BY <3>1
    <3>2. ASSUME NEW n \in DataNode, MayTake(s, n), shards' = [shards EXCEPT ![s].primary = n, ![s].moving = "none"]
          PROVE  Kept
      BY <3>2
    <3>3. ASSUME NEW n \in DataNode, MayTake(s, n), shards' = [shards EXCEPT ![s].replica = n, ![s].moving = "none"]
          PROVE  Kept
      BY <3>3
    <3> QED
      BY <2>4, <3>1, <3>2, <3>3 DEF EndMove
  <2>5. CASE Rebalance(s) BY <2>5 DEF Rebalance
  <2> QED
    BY <2>1, <2>2, <2>3, <2>4, <2>5 DEF Allocate
<1> HIDE DEF c, d
<1>4. CopiesInv'
  BY <1>1, <1>3 DEF CopiesInv, d
<1>5. DeleteInv'
  <2> SUFFICES ASSUME Calm, ~conf.podsMayFail
               PROVE  ~Red' /\ (pc \in TakeDown => \A t \in Shards : Replicated(t)' \/ runs[shards'[t].primary] = want)
    BY <1>1 DEF DeleteInv, Calm, Fresh
  <2>1. ~Red'
    BY <1>1, <1>3 DEF DeleteInv, Red, c, d
  <2>2. ASSUME pc \in TakeDown, NEW t \in Shards, ~Replicated(t)' PROVE runs[shards'[t].primary] = want
    <3>1. ~Replicated(t)
      BY <1>1, <1>3, <2>2 DEF Replicated, c, d
    <3>2. runs[shards[t].primary] = want
      BY <2>2, <3>1 DEF DeleteInv
    <3>3. CASE t # s \/ d.primary = c.primary
      BY <1>1, <3>2, <3>3 DEF c, d
    <3>4. CASE t = s /\ d.primary # c.primary
      <4>1. c.primary \in Node /\ d.primary \in Node
        BY <1>2, <1>3, DataNodes DEF Place
      <4>2. runs[c.primary] = want /\ ~LessThan(runs[d.primary], runs[c.primary])
        BY <1>3, <3>2, <3>4 DEF c
      <4> QED
        BY <2>2, <3>4, <4>1, <4>2, TwoVersions DEF d, TakeDown, UpgradeSteps, PoolSteps, PodSteps
    <3> QED
      BY <3>3, <3>4
  <2> QED
    BY <2>1, <2>2
<1> QED
  BY <1>4, <1>5

\* A node that goes down leaves the copies of other nodes where they are, or makes them primaries.
LEMMA LostKeepsCopies ==
    ASSUME CopiesInv, NEW n, up' = [up EXCEPT ![n] = FALSE], shards' = Lost(n)
    PROVE  CopiesInv'
<1>1. up' \in [Node -> BOOLEAN] /\ \A m \in Node : m # n => up'[m] = up[m]
  BY DEF CopiesInv
<1>2. ASSUME NEW s \in Shards
      PROVE  /\ shards'[s] \in Place /\ shards'[s].replica # shards'[s].primary
             /\ shards'[s].replica # NoPod => up'[shards'[s].replica]
  <2> DEFINE c == shards[s]
  <2>1. /\ c \in Place /\ c.replica # c.primary /\ (c.replica # NoPod => up[c.replica])
        /\ c.primary \in Node /\ (c.replica # NoPod => c.replica \in Node) /\ c.primary # NoPod
    BY DataNodes DEF CopiesInv, Place
  <2>2. CASE c.replica = n
    BY <2>1, <2>2 DEF Lost, Place
  <2>3. CASE c.replica # n /\ c.primary # n
    <3>1. shards'[s] = c
      BY <2>3 DEF Lost
    <3> QED
      BY <1>1, <2>1, <2>3, <3>1
  <2>4. CASE c.replica # n /\ c.primary = n
    <3>1. shards'[s] = [primary |-> IF Replicated(s) THEN c.replica ELSE n, replica |-> NoPod, moving |-> "none"]
      BY <2>4 DEF Lost
    <3> QED
      BY <2>1, <2>4, <3>1 DEF Place, Replicated
  <2> QED
    BY <2>2, <2>3, <2>4
<1>3. shards' \in [Shards -> Place]
  BY <1>2 DEF Lost
<1> QED
  BY <1>1, <1>2, <1>3 DEF CopiesInv

\* The only steps that take a pod down, when pods do not fail on their own, leave every shard a copy.
LEMMA DeletionKeeps == ASSUME IInv, VersionsInv, CopiesInv, DeleteInv, DeletePod PROVE CopiesInv' /\ DeleteInv'
<1>1. /\ pc = "delete" /\ pc' \notin TakeDown /\ up' = [up EXCEPT ![pod] = FALSE] /\ shards' = Lost(pod)
      /\ UNCHANGED <<conf, want, runs, edited>>
  BY DEF DeletePod, Answered, Last, Goto, EndPass, TakeDown
<1>2. CopiesInv'
  BY <1>1, LostKeepsCopies
<1>3. DeleteInv'
  <2> SUFFICES ASSUME Calm, ~conf.podsMayFail, NEW s \in Shards PROVE up'[shards'[s].primary]
    BY <1>1 DEF DeleteInv, Calm, Fresh, Red
  <2>1. /\ runs[pod] # want /\ (Replicated(s) \/ runs[shards[s].primary] = want) /\ up[shards[s].primary]
    BY <1>1 DEF DeleteInv, TakeDown, Red
  <2>2. shards[s] \in Place /\ shards[s].primary \in Node /\ shards[s].replica # shards[s].primary
    BY DataNodes DEF CopiesInv, Place
  <2>3. CASE shards[s].primary # pod
    <3>1. shards'[s].primary = shards[s].primary
      BY <1>1, <2>2, <2>3 DEF Lost, Place
    <3> QED
      BY <1>1, <2>1, <2>2, <2>3, <3>1 DEF CopiesInv
  <2>4. CASE shards[s].primary = pod
    <3>1. Replicated(s)
      BY <2>1, <2>4
    <3>2. shards'[s].primary = shards[s].replica /\ up[shards[s].replica] /\ shards[s].replica \in Node
      BY <1>1, <2>2, <2>4, <3>1, DataNodes DEF Lost, Replicated, CopiesInv, Place
    <3> QED
      BY <1>1, <2>2, <2>4, <3>2 DEF CopiesInv
  <2> QED
    BY <2>3, <2>4
<1> QED
  BY <1>2, <1>3

\* There is nothing to restart while one upgrade is made at a time.
LEMMA RestartKeeps == ASSUME IInv, VersionsInv, CopiesInv, DeleteInv, RestartPod PROVE CopiesInv' /\ DeleteInv'
<1>1. /\ pc = "restart" /\ Outdated # {} /\ up' = [up EXCEPT ![Candidate] = FALSE] /\ shards' = Lost(Candidate)
      /\ UNCHANGED <<conf, edited>>
  BY DEF RestartPod
<1>2. CopiesInv'
  BY <1>1, LostKeepsCopies
<1>3. ~Calm
  <2> SUFFICES ASSUME Calm, NEW n \in Node PROVE runs[n] = seen[n[1]].rev
    BY <1>1 DEF Outdated
  <2>1. n[1] \in Pool
    BY NodeFacts DEF Node
  <2> QED
    BY <1>1, <2>1 DEF VersionsInv
<1> QED
  BY <1>1, <1>2, <1>3 DEF DeleteInv, Calm, Fresh

LEMMA ShardsStep == IInv /\ VersionsInv /\ CopiesInv /\ DeleteInv /\ [Next]_vars => CopiesInv' /\ DeleteInv'
<1> SUFFICES ASSUME IInv, VersionsInv, CopiesInv, DeleteInv, [Next]_vars PROVE CopiesInv' /\ DeleteInv'
  OBVIOUS
<1> USE DEF Answered, EndPass, Goto, Last, env, status, cluster, worker
<1>1. CASE CheckHealth BY <1>1, HealthIsEnough
<1>2. CASE DeletePod BY <1>2, DeletionKeeps
<1>3. CASE RestartPod BY <1>3, RestartKeeps
<1>4. CASE StartPass \/ NodePoolsReady BY <1>4, SameCopies DEF StartPass, NodePoolsReady, TakeDown
<1>5. CASE WriteTemplate BY <1>5, SameCopies DEF WriteTemplate, TakeDown
<1>6. CASE InSync \/ Refuse BY <1>6, SameCopies DEF InSync, Refuse, TakeDown
<1>7. CASE Begin BY <1>7, SameCopies DEF Begin, TakeDown
<1>8. CASE CleanStaleExclusionList BY <1>8, SameCopies DEF CleanStaleExclusionList, TakeDown
<1>9. CASE StartPool \/ FinishUpgrade BY <1>9, SameCopies DEF StartPool, FinishUpgrade, TakeDown
<1>10. CASE WorkOnPool BY <1>10, SameCopies DEF WorkOnPool, TakeDown
<1>11. CASE ReactivateShardAllocation BY <1>11, SameCopies DEF ReactivateShardAllocation, TakeDown
<1>12. CASE MarkUpgraded BY <1>12, SameCopies DEF MarkUpgraded, TakeDown
<1>13. CASE PreparePodForDelete BY <1>13, SameCopies DEF PreparePodForDelete, TakeDown
<1>14. CASE CheckDrained BY <1>14, SameCopies DEF CheckDrained, TakeDown
<1>15. CASE IncludeNode \/ PassFails BY <1>15, SameCopies DEF IncludeNode, PassFails, TakeDown
<1>16. CASE RestartIdle \/ RestartWaits BY <1>16, SameCopies DEF RestartIdle, RestartWaits, TakeDown
<1>17. ASSUME NEW v \in Versions, EditVersion(v) PROVE CopiesInv' /\ DeleteInv'
  <2>1. /\ UNCHANGED <<conf, up, runs, shards, pc, pod>>
        /\ edited' = "apart" => edited = "apart" /\ pc = "idle"
    BY <1>17 DEF EditVersion
  <2> QED
    BY <2>1 DEF CopiesInv, DeleteInv, Calm, Fresh, Red, TakeDown
<1>18. ASSUME NEW p \in Pool, ObserveStatus(p) PROVE CopiesInv' /\ DeleteInv'
  BY <1>18, SameCopies DEF ObserveStatus
<1>19. ASSUME NEW n \in Node, PodStarts(n) PROVE CopiesInv' /\ DeleteInv'
  <2>1. /\ ~up[n] /\ up' = [up EXCEPT ![n] = TRUE] /\ runs' = [runs EXCEPT ![n] = templ[n[1]]]
        /\ UNCHANGED <<conf, want, shards, edited, pc, pod>>
    BY <1>19 DEF PodStarts
  <2>2. /\ up' \in [Node -> BOOLEAN] /\ \A m \in Node : up[m] => up'[m] /\ runs'[m] = runs[m]
    BY <2>1 DEF CopiesInv, IInv, PassInv
  <2>3. \A s \in Shards : shards[s].primary \in Node /\ (shards[s].replica # NoPod => shards[s].replica \in Node)
    BY DataNodes DEF CopiesInv, Place
  <2>4. CopiesInv'
    BY <2>1, <2>2, <2>3 DEF CopiesInv
  <2>5. DeleteInv'
    BY <2>1, <2>2, <2>3 DEF DeleteInv, Calm, Fresh, Red, Replicated
  <2> QED
    BY <2>4, <2>5
<1>20. ASSUME NEW n \in Node, PodFails(n) PROVE CopiesInv' /\ DeleteInv'
  <2>1. conf.podsMayFail /\ conf' = conf /\ up' = [up EXCEPT ![n] = FALSE] /\ shards' = Lost(n)
    BY <1>20 DEF PodFails
  <2> QED
    BY <2>1, LostKeepsCopies DEF DeleteInv
<1>21. ASSUME NEW s \in Shards, Allocate(s) \/ Rebalance(s) PROVE CopiesInv' /\ DeleteInv'
  BY <1>21, AllocationKeeps
<1>22. CASE UNCHANGED vars BY <1>22, SameCopies DEF vars
<1> QED
  BY <1>1, <1>2, <1>3, <1>4, <1>5, <1>6, <1>7, <1>8, <1>9, <1>10, <1>11, <1>12, <1>13, <1>14, <1>15, <1>16,
     <1>17, <1>18, <1>19, <1>20, <1>21, <1>22 DEF Next, Work, Reconcile, DoNodePoolUpgrade, RollingRestart

\* While the upgrade runs, every shard keeps its primary, for any shards, nodes and placements and
\* with or without draining: the check of the health lets a pod go only if each of its shards has a
\* replica, or its primary on a node of the new version, and what OpenSearch moves until the pod is
\* deleted does not change that.
THEOREM UpgradeKeepsShards == Spec => []ShardsStayAvailable
<1>1. Init => IInv /\ VersionsInv /\ CopiesInv /\ DeleteInv
  <2> SUFFICES ASSUME Init PROVE VersionsInv /\ CopiesInv /\ DeleteInv
    BY UpgradeInit
  <2>1. \A s \in Shards : /\ shards[s] \in Place /\ shards[s].replica # shards[s].primary
                         /\ shards[s].primary \in Node /\ shards[s].replica \in Node
    BY UpgradeAssumption, DataNodes DEF Init, Place
  <2>2. shards \in [Shards -> Place]
    BY UpgradeAssumption DEF Init
  <2> QED
    BY <2>1, <2>2 DEF Init, VersionsInv, CopiesInv, DeleteInv, Red, TakeDown
<1>2. DeleteInv => ShardsStayAvailable
  BY DEF DeleteInv, ShardsStayAvailable, Calm, Fresh
<1> QED
  BY <1>1, <1>2, UpgradeStep, VersionsStep, ShardsStep, PTL DEF Spec
=============================================================================
