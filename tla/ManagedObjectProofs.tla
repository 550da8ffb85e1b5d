------------------------- MODULE ManagedObjectProofs -------------------------
(***************************************************************************)
(* The reconcilers of roles, tenants, users, templates and policies leave  *)
(* what others made alone, and use a name inside OpenSearch as             *)
(* ObjectOwnership says.                                                   *)
(*                                                                         *)
(* The properties are about the calls that write, and at each of them the  *)
(* pass acts on what it saw some steps earlier.  IInv carries these facts  *)
(* along: the steps follow one another as the program of the kind says     *)
(* (Linked), the resource cannot go away under a pass and the copy in      *)
(* worker.inst agrees with it in what matters (ResourceInv), where there   *)
(* is no cluster there are no objects (ClusterInv), each step knows what   *)
(* the steps before it have found out (StepInv), and an object that the    *)
(* operator made belongs to the resource that is there, which still has    *)
(* its finalizer (OwnerInv).                                               *)
(***************************************************************************)
EXTENDS ManagedObject, TLAPS

CrFields == {"uid", "name", "content", "deleting", "finalizer", "existing", "managed", "recordedName", "state"}
WorkerFields == {"rest", "inst", "cluster", "name", "doc", "exists", "seen", "secret", "result"}
ObjectFields == {"maker", "content", "secret"}
BoundFields == {"resources", "clusters", "edits", "outages", "others", "faults"}

(* The kinds whose names ObjectOwnership is about, and those that look first
   whether an object is there. *)
Own == {"Role", "Tenant", "ActionGroup", "User"}
Looking == {"Role", "Tenant", "ActionGroup"} \cup Templates

(* The step s of a pass of kind k may be followed by the step t. *)
Follows(k, s, t) ==
    \/ s = "fetchCluster" /\ t = "bindCluster"
    \/ s = "bindCluster" /\ t = "waitRunning"
    \/ s = "waitRunning" /\ t = "lookExisting" /\ k \in Looking
    \/ s = "waitRunning" /\ t = "readSecret" /\ k = "User"
    \/ s = "waitRunning" /\ t = "build" /\ k \in Policies
    \/ s = "lookExisting" /\ t = "recordExisting"
    \/ s = "recordExisting" /\ t \in {"checkName", "compare"}
    \/ s = "checkName" /\ t = "compare"
    \/ s = "readSecret" /\ t = "annotateSecret"
    \/ s = "annotateSecret" /\ t = "compare"
    \/ s = "compare" /\ t = "put"
    \/ s = "build" /\ t = "get"
    \/ s = "get" /\ t = "create"
    \/ s = "create" /\ t \in {"apply", "markOwn"}
    \/ s = "apply" /\ t = "markOwn"
    \/ s = "checkOwner" /\ t = "update"
    \/ s = "ifOwned" /\ t = "fetchForDelete"
    \/ s = "fetchForDelete" /\ t = "lookForDelete"
    \/ s = "fetchForDelete" /\ t = "remove" /\ k # "User"
    \/ s = "lookForDelete" /\ t = "matchUID" /\ k = "User"
    \/ s = "lookForDelete" /\ t = "remove" /\ k # "User"
    \/ s = "matchUID" /\ t = "remove"
    \/ s = "remove" /\ t = "release"

Linked(k, q) == q \in Seq(Steps) /\ \A i \in 1..Len(q) : i + 1 <= Len(q) => Follows(k, q[i], q[i + 1])

Here(S) == worker.rest # <<>> /\ Head(worker.rest) \in S

ShapeInv ==
    /\ kind \in Kinds
    /\ DOMAIN cr = CrFields /\ cr.uid \in Nat /\ cr.existing \in {"unknown", "yes", "no"}
    /\ DOMAIN worker = WorkerFields /\ Linked(kind, worker.rest)
    /\ DOMAIN server = Names /\ \A n \in Names : DOMAIN server[n] = ObjectFields
    /\ DOMAIN bounds = BoundFields /\ bounds.resources \in Nat /\ bounds.clusters \in Nat \ {0}
    /\ DOMAIN cluster = {"uid", "running", "deleting"}

(* The resource does not go away under a pass, and the pass knows what of its
   status matters. *)
ResourceInv ==
    /\ cr # NoCR => cr.uid # 0
    /\ (~renamed /\ cr.uid # 0) => cr.name = Name
    /\ renamed => kind \notin Own
    /\ worker.rest # <<>> =>
           /\ cr.uid # 0 /\ cr.finalizer = TRUE /\ worker.inst.uid = cr.uid
           /\ ~renamed => worker.inst.name = Name
           /\ Head(worker.rest) # "status" => /\ worker.inst.existing = cr.existing
                                              /\ worker.inst.managed = cr.managed

(* Where there is no cluster there are no objects. *)
ClusterInv == cluster.uid = 0 => cluster.deleting = FALSE /\ \A n \in Names : server[n] = Absent

(* What the pass has established before its next step. *)
LookSteps == {"lookExisting", "recordExisting", "checkName"}
SecretSteps == {"readSecret", "annotateSecret"}
PolicySteps == {"build", "get", "create", "apply", "markOwn", "checkOwner", "update"}
StepsWithName == LookSteps \cup SecretSteps \cup PolicySteps \cup {"compare", "put", "lookForDelete", "matchUID", "remove"}
StepInv ==
    /\ Here(LookSteps) => kind \in Looking
    /\ Here(SecretSteps \cup {"matchUID"}) => kind = "User"
    /\ Here(PolicySteps) => kind \in Policies
    /\ Here({"ifOwned"}) => kind # "User"
    /\ Here({"checkName", "compare", "put", "fetchForDelete", "lookForDelete", "remove"}) /\ kind # "User" =>
           worker.inst.existing = "no"
    /\ Here({"update"}) => worker.inst.existing = "no"
    /\ ~renamed =>
           /\ Here(StepsWithName) => worker.name = Name
           /\ (Here({"recordExisting"}) /\ worker.inst.existing = "unknown" /\ ~worker.exists) => server[Name].maker # 0
           /\ Here({"put", "create", "apply", "markOwn", "update", "remove"}) => server[Name].maker # 0

MadeByOperator == server[Name].maker \notin {-1, Late, 0}

(* The status says whose object it is. *)
OwnerInv ==
    /\ (~renamed /\ cr.existing = "no") => server[Name].maker # 0
    /\ (kind \in Own /\ ~cluster.deleting) =>
           /\ MadeByOperator => /\ server[Name].maker = cr.uid /\ cr.uid # 0 /\ cr.finalizer = TRUE
                                /\ kind # "User" => cr.existing = "no"
           /\ Here({"release"}) => ~MadeByOperator

IInv == ShapeInv /\ ResourceInv /\ ClusterInv /\ StepInv /\ OwnerInv

----------------------------------------------------------------------------
LEMMA NameIsOne == Name \in Names
BY ObjectAssumption DEF Name

(* Between passes nothing is claimed of the steps; and what a pass has
   established stays as long as the object it looked at does. *)
LEMMA NoSteps == ASSUME worker.rest = <<>> PROVE StepInv
BY DEF StepInv, Here

LEMMA StepsKept ==
    ASSUME StepInv, UNCHANGED <<kind, worker>>, ~renamed' => ~renamed,
           worker.rest # <<>> /\ server[Name].maker # 0 => server'[Name].maker # 0
    PROVE  StepInv'
<1>1. \A S : Here(S)' <=> Here(S)
  BY DEF Here
<1>2. \A S : Here(S) => worker.rest # <<>>
  BY DEF Here
<1> QED
  BY <1>1, <1>2 DEF StepInv

LEMMA SameSteps ==
    ASSUME ClusterInv, StepInv, UNCHANGED <<kind, worker, cluster, server>>, ~renamed' => ~renamed
    PROVE  ClusterInv' /\ StepInv'
<1>1. StepInv'
  BY StepsKept
<1>2. ClusterInv'
  BY DEF ClusterInv
<1> QED
  BY <1>1, <1>2

LEMMA SeqFacts ==
    ASSUME NEW q \in Seq(Steps), q # <<>>
    PROVE  /\ Len(q) \in Nat /\ Len(q) > 0 /\ Head(q) = q[1]
           /\ Tail(q) \in Seq(Steps) /\ Len(Tail(q)) = Len(q) - 1
           /\ \A i \in 1..Len(Tail(q)) : Tail(q)[i] = q[i + 1]
OBVIOUS

LEMMA ConcatFacts ==
    ASSUME NEW q \in Seq(Steps), NEW r \in Seq(Steps)
    PROVE  /\ q \o r \in Seq(Steps) /\ Len(q \o r) = Len(q) + Len(r)
           /\ \A i \in 1..Len(q) + Len(r) : (q \o r)[i] = IF i <= Len(q) THEN q[i] ELSE r[i - Len(q)]
OBVIOUS

LEMMA TailLinked ==
    ASSUME NEW k, NEW q, Linked(k, q), q # <<>>
    PROVE  /\ Linked(k, Tail(q))
           /\ Tail(q) # <<>> => Follows(k, Head(q), Head(Tail(q)))
<1>1. q \in Seq(Steps) /\ Len(q) \in Nat /\ Len(q) > 0
  BY SeqFacts DEF Linked
<1>2. /\ Tail(q) \in Seq(Steps) /\ Len(Tail(q)) = Len(q) - 1
      /\ \A i \in 1..Len(Tail(q)) : Tail(q)[i] = q[i + 1]
  BY <1>1, SeqFacts
<1>3. ASSUME NEW i \in 1..Len(Tail(q)), i + 1 <= Len(Tail(q)) PROVE Follows(k, Tail(q)[i], Tail(q)[i + 1])
  <2>1. i + 1 \in 1..Len(q) /\ (i + 1) + 1 <= Len(q) /\ i + 1 \in 1..Len(Tail(q))
    BY <1>1, <1>2, <1>3
  <2>2. Follows(k, q[i + 1], q[(i + 1) + 1])
    BY <2>1 DEF Linked
  <2> QED
    BY <1>2, <2>1, <2>2
<1>4. ASSUME Tail(q) # <<>> PROVE Follows(k, Head(q), Head(Tail(q)))
  <2>1. Len(Tail(q)) > 0 /\ Head(Tail(q)) = Tail(q)[1] /\ Head(q) = q[1]
    BY <1>1, <1>2, <1>4, SeqFacts
  <2>2. 1 \in 1..Len(q) /\ 1 + 1 <= Len(q) /\ Tail(q)[1] = q[1 + 1]
    BY <1>1, <1>2, <2>1
  <2>3. Follows(k, q[1], q[1 + 1])
    BY <2>2 DEF Linked
  <2> QED
    BY <2>1, <2>2, <2>3
<1> QED
  BY <1>2, <1>3, <1>4 DEF Linked

LEMMA OneStepLinked == ASSUME NEW k, NEW s \in Steps PROVE Linked(k, <<s>>)
BY DEF Linked

LEMMA NoStepLinked == \A k : Linked(k, <<>>)
BY DEF Linked

LEMMA TwoLinked ==
    ASSUME NEW k, NEW a \in Steps, NEW b \in Steps, Follows(k, a, b)
    PROVE  Linked(k, <<a, b>>)
<1>1. <<a, b>> \in Seq(Steps) /\ Len(<<a, b>>) = 2 /\ <<a, b>>[1] = a /\ <<a, b>>[2] = b
  OBVIOUS
<1>2. \A i \in 1..2 : i + 1 <= 2 => i = 1
  OBVIOUS
<1> QED
  BY <1>1, <1>2 DEF Linked

LEMMA FourLinked ==
    ASSUME NEW k, NEW a \in Steps, NEW b \in Steps, NEW c \in Steps, NEW d \in Steps,
           Follows(k, a, b), Follows(k, b, c), Follows(k, c, d)
    PROVE  Linked(k, <<a, b, c, d>>)
<1> DEFINE q == <<a, b, c, d>>
<1>1. q \in Seq(Steps) /\ Len(q) = 4 /\ q[1] = a /\ q[2] = b /\ q[3] = c /\ q[4] = d
  OBVIOUS
<1>2. \A i \in 1..4 : i + 1 <= 4 => i \in {1, 2, 3}
  OBVIOUS
<1> HIDE DEF q
<1>3. Linked(k, q)
  BY <1>1, <1>2 DEF Linked
<1> QED
  BY <1>3 DEF q

LEMMA FiveLinked ==
    ASSUME NEW k, NEW a \in Steps, NEW b \in Steps, NEW c \in Steps, NEW d \in Steps, NEW e \in Steps,
           Follows(k, a, b), Follows(k, b, c), Follows(k, c, d), Follows(k, d, e)
    PROVE  Linked(k, <<a, b, c, d, e>>)
<1> DEFINE q == <<a, b, c, d, e>>
<1>1. q \in Seq(Steps) /\ Len(q) = 5 /\ q[1] = a /\ q[2] = b /\ q[3] = c /\ q[4] = d /\ q[5] = e
  OBVIOUS
<1>2. \A i \in 1..5 : i + 1 <= 5 => i \in {1, 2, 3, 4}
  OBVIOUS
<1> HIDE DEF q
<1>3. Linked(k, q)
  BY <1>1, <1>2 DEF Linked
<1> QED
  BY <1>3 DEF q

(* A pass that reaches its cluster first. *)
LEMMA ReachLinked ==
    ASSUME NEW k, NEW q, Linked(k, q), q # <<>>, Follows(k, "waitRunning", Head(q))
    PROVE  Linked(k, Reach \o q) /\ Reach \o q # <<>> /\ Head(Reach \o q) = "fetchCluster"
<1> DEFINE r == Reach \o q
<1>1. q \in Seq(Steps) /\ Len(q) \in Nat /\ Len(q) > 0 /\ Head(q) = q[1]
  BY SeqFacts DEF Linked
<1>2. /\ Reach \in Seq(Steps) /\ Len(Reach) = 3
      /\ Reach[1] = "fetchCluster" /\ Reach[2] = "bindCluster" /\ Reach[3] = "waitRunning"
  BY DEF Reach, Steps
<1>3. /\ r \in Seq(Steps) /\ Len(r) = 3 + Len(q) /\ r[1] = "fetchCluster" /\ r[2] = "bindCluster" /\ r[3] = "waitRunning"
      /\ \A i \in 1..Len(q) : r[i + 3] = q[i]
  <2>1. /\ r \in Seq(Steps) /\ Len(r) = 3 + Len(q)
        /\ \A i \in 1..3 + Len(q) : r[i] = IF i <= 3 THEN Reach[i] ELSE q[i - 3]
    <3>1. Reach \in Seq(Steps) /\ q \in Seq(Steps)
      BY <1>1, <1>2
    <3>2. /\ r \in Seq(Steps) /\ Len(r) = Len(Reach) + Len(q)
          /\ \A i \in 1..Len(Reach) + Len(q) : r[i] = IF i <= Len(Reach) THEN Reach[i] ELSE q[i - Len(Reach)]
      BY <3>1, ConcatFacts, Zenon
    <3> QED
      BY <1>2, <3>2
  <2> HIDE DEF r
  <2>2. r[1] = Reach[1] /\ r[2] = Reach[2] /\ r[3] = Reach[3]
    BY <1>1, <2>1
  <2>3. \A i \in 1..Len(q) : r[i + 3] = q[i]
    <3> SUFFICES ASSUME NEW i \in 1..Len(q) PROVE r[i + 3] = q[i]
      OBVIOUS
    <3>1. i + 3 \in 1..3 + Len(q) /\ ~(i + 3 <= 3) /\ (i + 3) - 3 = i
      BY <1>1
    <3> QED
      BY <2>1, <3>1
  <2> QED
    BY <1>2, <2>1, <2>2, <2>3
<1>4. r # <<>> /\ Head(r) = "fetchCluster"
  BY <1>1, <1>3
<1> HIDE DEF r
<1>5. ASSUME NEW i \in 1..Len(r), i + 1 <= Len(r) PROVE Follows(k, r[i], r[i + 1])
  <2>1. CASE i \in {1, 2}
    BY <1>3, <2>1 DEF Follows
  <2>2. CASE i = 3
    <3>1. r[i] = "waitRunning" /\ r[i + 1] = Head(q)
      BY <1>1, <1>3, <2>2
    <3> QED
      BY <3>1
  <2>3. CASE i > 3
    <3>1. i - 3 \in 1..Len(q) /\ (i - 3) + 1 <= Len(q) /\ (i - 3) + 1 \in 1..Len(q)
      BY <1>1, <1>3, <1>5, <2>3
    <3>2. r[(i - 3) + 3] = q[i - 3] /\ r[((i - 3) + 1) + 3] = q[(i - 3) + 1]
      BY <1>3, <3>1, Zenon
    <3>4. (i - 3) + 3 = i /\ ((i - 3) + 1) + 3 = i + 1
      BY <1>1, <1>3
    <3>3. Follows(k, q[i - 3], q[(i - 3) + 1])
      BY <3>1 DEF Linked
    <3> QED
      BY <3>2, <3>3, <3>4
  <2> QED
    BY <2>1, <2>2, <2>3
<1> QED
  BY <1>3, <1>4, <1>5 DEF Linked, r

(* The program of a pass. *)
LEMMA ProgramLinked ==
    ASSUME kind \in Kinds
    PROVE  /\ Linked(kind, Controller) /\ Controller # <<>>
           /\ Head(Controller) = IF ~cr.deleting THEN "fetchCluster" ELSE IF kind = "User" THEN "fetchForDelete" ELSE "ifOwned"
<1> DEFINE R1 == <<"lookExisting", "recordExisting", "compare", "put">>
           R2 == <<"lookExisting", "recordExisting", "checkName", "compare", "put">>
           R3 == <<"readSecret", "annotateSecret", "compare", "put">>
           R4 == <<"build", "get", "create", "apply", "markOwn">>
           R5 == <<"build", "get", "create", "markOwn">>
           D1 == <<"ifOwned", "fetchForDelete", "lookForDelete", "remove", "release">>
           D2 == <<"fetchForDelete", "lookForDelete", "matchUID", "remove", "release">>
           D3 == <<"ifOwned", "fetchForDelete", "remove", "release">>
<1>1. /\ Linked(kind, R1) /\ Linked(kind, R2) /\ Linked(kind, R3) /\ Linked(kind, R4) /\ Linked(kind, R5)
      /\ kind # "User" => Linked(kind, D1) /\ Linked(kind, D3)
      /\ kind = "User" => Linked(kind, D2)
  <2>1. Linked(kind, R1) /\ Linked(kind, R3) /\ (kind # "User" => Linked(kind, D3))
    BY FourLinked DEF Follows, Steps
  <2>2. Linked(kind, R2) /\ Linked(kind, R4)
    BY FiveLinked DEF Follows, Steps
  <2>3. Linked(kind, R5)
    BY FourLinked DEF Follows, Steps
  <2>4. (kind # "User" => Linked(kind, D1)) /\ (kind = "User" => Linked(kind, D2))
    BY FiveLinked DEF Follows, Steps
  <2> QED
    BY <2>1, <2>2, <2>3, <2>4
<1>2. /\ R1 # <<>> /\ R2 # <<>> /\ R3 # <<>> /\ R4 # <<>> /\ R5 # <<>> /\ D1 # <<>> /\ D2 # <<>> /\ D3 # <<>>
      /\ Head(R1) = "lookExisting" /\ Head(R2) = "lookExisting" /\ Head(R3) = "readSecret" /\ Head(R4) = "build"
      /\ Head(R5) = "build" /\ Head(D1) = "ifOwned" /\ Head(D2) = "fetchForDelete" /\ Head(D3) = "ifOwned"
  OBVIOUS
<1> DEFINE Starts(q) == Linked(kind, Reach \o q) /\ Reach \o q # <<>> /\ Head(Reach \o q) = "fetchCluster"
<1>3. CASE kind \in {"Role", "Tenant", "ActionGroup"}
  <2>1. Controller = IF cr.deleting THEN D1 ELSE Reach \o R1
    BY <1>3 DEF Controller, RoleController, TenantController, ActionGroupController, RoleDelete, TenantDelete,
                ActionGroupDelete, RoleReconcile, TenantReconcile, ActionGroupReconcile
  <2>2. Starts(R1)
    BY <1>1, <1>2, <1>3, ReachLinked, Zenon DEF Follows, Looking
  <2> QED
    BY <1>1, <1>2, <1>3, <2>1, <2>2
<1>4. CASE kind \in Templates
  <2>1. Controller = IF cr.deleting THEN D1 ELSE Reach \o R2
    BY <1>4 DEF Controller, IndexTemplateController, ComponentTemplateController, RoleDelete, IndexTemplateDelete,
                ComponentTemplateDelete, Templates, IndexTemplateReconcile, ComponentTemplateReconcile
  <2>2. Starts(R2)
    BY <1>1, <1>2, <1>4, ReachLinked, Zenon DEF Follows, Looking
  <2> QED
    BY <1>1, <1>2, <1>4, <2>1, <2>2 DEF Templates
<1>5. CASE kind = "User"
  <2>1. Controller = IF cr.deleting THEN D2 ELSE Reach \o R3
    BY <1>5 DEF Controller, UserController, UserDelete, UserReconcile
  <2>2. Starts(R3)
    BY <1>1, <1>2, <1>5, ReachLinked, Zenon DEF Follows
  <2> QED
    BY <1>1, <1>2, <1>5, <2>1, <2>2
<1>6. CASE kind \in Policies
  <2>1. Controller = IF cr.deleting THEN D3 ELSE Reach \o (IF kind = "ISMPolicy" THEN R4 ELSE R5)
    BY <1>6 DEF Controller, ISMPolicyController, SnapshotPolicyController, ISMPolicyDelete, SnapshotPolicyDelete,
                Policies, ISMPolicyReconcile, SnapshotPolicyReconcile
  <2>2. Starts(R4) /\ Starts(R5)
    BY <1>1, <1>2, <1>6, ReachLinked, Zenon DEF Follows
  <2> QED
    BY <1>1, <1>2, <1>6, <2>1, <2>2 DEF Policies
<1> QED
  BY <1>3, <1>4, <1>5, <1>6 DEF Kinds

----------------------------------------------------------------------------
(* What a step of a pass may change in the resource and in the counters. *)
BoundsKept == DOMAIN bounds' = BoundFields /\ bounds'.resources \in Nat /\ bounds'.clusters \in Nat \ {0}
CrKept ==
    /\ DOMAIN cr' = CrFields /\ cr'.uid = cr.uid /\ cr'.name = cr.name /\ cr'.finalizer = cr.finalizer
    /\ \/ cr'.existing = cr.existing
       \/ cr'.existing = "no" /\ (~renamed => server[Name].maker # 0)
       \/ cr'.existing = "yes" /\ (kind \in Own => kind # "User" /\ cr.existing = "unknown")

LEMMA Bounded ==
    ASSUME ShapeInv, Fault \/ NoFault \/ \E what \in BoundFields : Event(what)
    PROVE  BoundsKept
BY DEF ShapeInv, BoundsKept, Fault, NoFault, Event, BoundFields

LEMMA FinishFields ==
    ASSUME DOMAIN worker = WorkerFields, NEW r
    PROVE  /\ DOMAIN Finish(worker, r) = WorkerFields /\ Finish(worker, r).rest = <<"status">>
           /\ Finish(worker, r).inst = worker.inst /\ Finish(worker, r).cluster = worker.cluster
BY DEF Finish, WorkerFields

LEMMA ProceedFields ==
    ASSUME DOMAIN worker = WorkerFields
    PROVE  /\ DOMAIN Proceed(worker) = WorkerFields /\ Proceed(worker).rest = Tail(worker.rest)
           /\ Proceed(worker).inst = worker.inst /\ Proceed(worker).cluster = worker.cluster
           /\ Proceed(worker).name = worker.name /\ Proceed(worker).exists = worker.exists
BY DEF Proceed, WorkerFields

LEMMA IdleFields ==
    DOMAIN Idle = WorkerFields /\ Idle.rest = <<>> /\ Idle.cluster.uid = 0 /\ Idle.inst = NoCR
BY DEF Idle, WorkerFields, NoCluster

(* A step of a pass that leaves OpenSearch alone. *)
LEMMA Moves ==
    ASSUME IInv, worker.rest # <<>>, UNCHANGED <<kind, cluster, server, renamed>>, CrKept, BoundsKept,
           DOMAIN worker' = WorkerFields, Linked(kind, worker'.rest),
           worker'.rest # <<>> =>
               /\ worker'.inst.uid = cr'.uid
               /\ ~renamed => worker'.inst.name = Name
               /\ Head(worker'.rest) # "status" => worker'.inst.existing = cr'.existing /\ worker'.inst.managed = cr'.managed,
           StepInv',
           (Here({"release"})' /\ kind \in Own /\ ~cluster.deleting) => ~MadeByOperator
    PROVE  IInv'
<1>1. ShapeInv'
  BY DEF IInv, ShapeInv, CrKept, BoundsKept
<1>2. ResourceInv'
  BY DEF IInv, ResourceInv, CrKept
<1>3. ClusterInv'
  BY DEF IInv, ClusterInv
<1>4. OwnerInv'
  <2>1. (~renamed' /\ cr'.existing = "no") => server'[Name].maker # 0
    BY DEF IInv, OwnerInv, CrKept
  <2>2. MadeByOperator' <=> MadeByOperator
    BY DEF MadeByOperator
  <2>3. ASSUME kind \in Own, ~cluster.deleting, MadeByOperator
        PROVE  /\ server'[Name].maker = cr'.uid /\ cr'.uid # 0 /\ cr'.finalizer = TRUE
               /\ kind # "User" => cr'.existing = "no"
    BY <2>3 DEF IInv, OwnerInv, CrKept
  <2> QED
    BY <2>1, <2>2, <2>3, Zenon DEF OwnerInv
<1> QED
  BY <1>1, <1>2, <1>3, <1>4 DEF IInv

(* The pass ends. *)
LEMMA Stops ==
    ASSUME IInv, worker.rest # <<>>, UNCHANGED <<kind, cluster, server, renamed>>, CrKept, BoundsKept,
           \/ worker' = Idle
           \/ \E r : worker' = Finish(worker, r) \/ (worker' = [Finish(worker, r) EXCEPT !.inst = cr'])
    PROVE  IInv'
<1>1. /\ DOMAIN worker' = WorkerFields
      /\ \/ worker'.rest = <<>> /\ worker'.cluster.uid = 0
         \/ worker'.rest = <<"status">> /\ worker'.cluster = worker.cluster /\ worker'.inst \in {worker.inst, cr'}
  <2>1. CASE worker' = Idle
    BY <2>1, IdleFields
  <2>2. ASSUME NEW r, worker' = Finish(worker, r) \/ worker' = [Finish(worker, r) EXCEPT !.inst = cr']
        PROVE  DOMAIN worker' = WorkerFields /\ worker'.rest = <<"status">> /\ worker'.cluster = worker.cluster
               /\ worker'.inst \in {worker.inst, cr'}
    BY <2>2, FinishFields DEF IInv, ShapeInv, WorkerFields
  <2> QED
    BY <2>1, <2>2
<1>2. "status" \in Steps
  BY DEF Steps
<1>3. Linked(kind, worker'.rest) /\ (worker'.rest # <<>> => Head(worker'.rest) = "status")
  <2>1. Linked(kind, <<"status">>) /\ Linked(kind, <<>>)
    BY <1>2, OneStepLinked, NoStepLinked
  <2>2. Head(<<"status">>) = "status"
    OBVIOUS
  <2> QED
    BY <1>1, <2>1, <2>2
<1>4. StepInv' /\ ~Here({"release"})'
  BY <1>3 DEF StepInv, Here, LookSteps, SecretSteps, PolicySteps, StepsWithName
<1>6. worker'.rest # <<>> =>
               /\ worker'.inst.uid = cr'.uid
               /\ ~renamed => worker'.inst.name = Name
               /\ Head(worker'.rest) # "status" => worker'.inst.existing = cr'.existing /\ worker'.inst.managed = cr'.managed
  BY <1>1, <1>3 DEF IInv, ResourceInv, CrKept
<1> QED
  BY <1>1, <1>3, <1>4, <1>6, Moves

(* The next step of the pass is at hand, as step s has prepared it. *)
LEMMA NextStep ==
    ASSUME ShapeInv, NEW s, At(s)
    PROVE  /\ worker.rest # <<>> /\ Head(worker.rest) = s /\ Linked(kind, Tail(worker.rest))
           /\ Tail(worker.rest) # <<>> => Follows(kind, s, Head(Tail(worker.rest)))
BY TailLinked, Zenon DEF At, ShapeInv

LEMMA Goes ==
    ASSUME IInv, NEW s, At(s), s # "status", UNCHANGED <<kind, cluster, server, renamed, cr>>, BoundsKept,
           DOMAIN worker' = WorkerFields, worker'.rest = Tail(worker.rest), worker'.inst = worker.inst,
           StepInv', (Here({"release"})' /\ kind \in Own /\ ~cluster.deleting) => ~MadeByOperator
    PROVE  IInv'
<1>1. /\ worker.rest # <<>> /\ Head(worker.rest) = s /\ Linked(kind, worker'.rest)
  BY NextStep DEF IInv
<1>2. CrKept
  BY DEF CrKept, IInv, ShapeInv
<1>3. worker'.rest # <<>> =>
               /\ worker'.inst.uid = cr'.uid
               /\ ~renamed => worker'.inst.name = Name
               /\ Head(worker'.rest) # "status" => worker'.inst.existing = cr'.existing /\ worker'.inst.managed = cr'.managed
  BY <1>1 DEF IInv, ResourceInv
<1> QED
  BY <1>1, <1>2, <1>3, Moves

LEMMA ReleaseFields ==
    ASSUME DOMAIN worker = WorkerFields
    PROVE  /\ DOMAIN Release(worker) = WorkerFields /\ Release(worker).rest = <<"release">>
           /\ Release(worker).inst = worker.inst /\ Release(worker).cluster = worker.cluster
BY DEF Release, WorkerFields

(* The pass of a deleted resource has nothing more to delete. *)
LEMMA Releases ==
    ASSUME IInv, NEW s, At(s), s # "status", UNCHANGED <<kind, cluster, server, renamed, cr>>, BoundsKept,
           worker' = Release(worker),
           (kind \in Own /\ ~cluster.deleting) => ~MadeByOperator
    PROVE  IInv'
<1>1. /\ DOMAIN worker' = WorkerFields /\ worker'.rest = <<"release">>
      /\ worker'.inst = worker.inst /\ worker'.cluster = worker.cluster
  BY ReleaseFields DEF IInv, ShapeInv
<1>2. Linked(kind, worker'.rest) /\ Head(worker'.rest) = "release"
  BY <1>1, OneStepLinked DEF Steps
<1>3. StepInv'
  BY <1>2 DEF StepInv, Here, LookSteps, SecretSteps, PolicySteps, StepsWithName
<1>4. CrKept
  BY DEF CrKept, IInv, ShapeInv
<1>6. /\ worker'.inst.uid = cr'.uid
      /\ ~renamed => worker'.inst.name = Name
      /\ worker'.inst.existing = cr'.existing /\ worker'.inst.managed = cr'.managed
  BY <1>1 DEF IInv, ResourceInv, At
<1> QED
  BY <1>1, <1>2, <1>3, <1>4, <1>6, Moves DEF At

----------------------------------------------------------------------------
(* The steps that only look. *)

Quiet == UNCHANGED <<kind, cluster, server, renamed, cr>>

LEMMA QuietStops ==
    ASSUME IInv, NEW s, At(s), Quiet, BoundsKept, worker' = Idle \/ \E r : worker' = Finish(worker, r)
    PROVE  IInv'
<1>1. CrKept /\ worker.rest # <<>>
  BY DEF CrKept, IInv, ShapeInv, Quiet, At
<1> QED
  BY <1>1, Stops DEF Quiet

LEMMA QuietGoes ==
    ASSUME IInv, NEW s, At(s), Quiet, BoundsKept, s # "status",
           DOMAIN worker' = WorkerFields, worker'.rest = Tail(worker.rest), worker'.inst = worker.inst,
           \A t : Follows(kind, s, t) /\ worker'.rest # <<>> /\ Head(worker'.rest) = t =>
               StepInv' /\ ((t = "release" /\ kind \in Own /\ ~cluster.deleting) => ~MadeByOperator)
    PROVE  IInv'
<1>1. worker'.rest # <<>> => Follows(kind, s, Head(worker'.rest))
  BY NextStep DEF IInv
<1>2. StepInv' /\ ((Here({"release"})' /\ kind \in Own /\ ~cluster.deleting) => ~MadeByOperator)
  <2>1. CASE worker'.rest = <<>>
    BY <2>1, Zenon DEF StepInv, Here
  <2>2. CASE worker'.rest # <<>>
    BY <1>1, <2>2 DEF Here
  <2> QED
    BY <2>1, <2>2
<1> QED
  BY <1>2, Goes DEF Quiet

LEMMA FetchStep == ASSUME IInv, FetchCluster PROVE IInv'
<1>1. At("fetchCluster") /\ Quiet /\ BoundsKept
  BY Bounded, Zenon DEF FetchCluster, Others, Quiet, IInv
<1>2. CASE \E r : worker' = Finish(worker, r)
  BY <1>1, <1>2, QuietStops
<1>3. CASE cluster.uid # 0 /\ worker' = [Proceed(worker) EXCEPT !.cluster = cluster]
  <2>1. /\ DOMAIN worker' = WorkerFields /\ worker'.rest = Tail(worker.rest) /\ worker'.inst = worker.inst
        /\ worker'.cluster = cluster
    BY <1>3, ProceedFields DEF IInv, ShapeInv, WorkerFields
  <2>2. ASSUME NEW t, Follows(kind, "fetchCluster", t), worker'.rest # <<>>, Head(worker'.rest) = t
        PROVE  StepInv' /\ t # "release"
    <3>1. t = "bindCluster"
      BY <2>2 DEF Follows
    <3> QED
      BY <1>3, <2>1, <2>2, <3>1 DEF StepInv, Here, LookSteps, SecretSteps, PolicySteps, StepsWithName
  <2> QED
    BY <1>1, <2>1, <2>2, QuietGoes
<1> QED
  BY <1>2, <1>3, Zenon DEF FetchCluster, Fails

LEMMA WaitStep == ASSUME IInv, WaitRunning PROVE IInv'
<1>1. At("waitRunning") /\ Quiet /\ BoundsKept
  BY Bounded, Zenon DEF WaitRunning, Others, Quiet, IInv
<1>2. CASE \E r : worker' = Finish(worker, r)
  BY <1>1, <1>2, QuietStops
<1>3. CASE worker' = [Proceed(worker) EXCEPT !.name = worker.inst.name]
  <2>1. /\ DOMAIN worker' = WorkerFields /\ worker'.rest = Tail(worker.rest) /\ worker'.inst = worker.inst
        /\ worker'.cluster = worker.cluster /\ worker'.name = worker.inst.name
    BY <1>3, ProceedFields DEF IInv, ShapeInv, WorkerFields
  <2>2. ~renamed => worker.inst.name = Name
    BY <1>1 DEF IInv, At, ResourceInv
  <2>3. ASSUME NEW t, Follows(kind, "waitRunning", t), worker'.rest # <<>>, Head(worker'.rest) = t
        PROVE  StepInv' /\ t # "release"
    <3>1. (t = "lookExisting" /\ kind \in Looking) \/ (t = "readSecret" /\ kind = "User") \/ (t = "build" /\ kind \in Policies)
      BY <2>3 DEF Follows
    <3> QED
      BY <1>1, <2>1, <2>2, <2>3, <3>1
      DEF StepInv, Here, LookSteps, SecretSteps, PolicySteps, StepsWithName, Quiet
  <2> QED
    BY <1>1, <2>1, <2>3, QuietGoes
<1> QED
  BY <1>2, <1>3, Zenon DEF WaitRunning, Fails

(* The facts about a step that do not change from one to the next. *)
Carried ==
    /\ DOMAIN worker' = WorkerFields /\ worker'.rest = Tail(worker.rest) /\ worker'.inst = worker.inst
    /\ worker'.cluster = worker.cluster /\ worker'.name = worker.name

LEMMA QuietCarries ==
    ASSUME IInv, NEW s, At(s), Quiet, BoundsKept, s # "status", Carried,
           \A t : Follows(kind, s, t) /\ worker'.rest # <<>> /\ Head(worker'.rest) = t =>
               StepInv' /\ ((t = "release" /\ kind \in Own /\ ~cluster.deleting) => ~MadeByOperator)
    PROVE  IInv'
BY QuietGoes DEF Carried

LEMMA SecretReadStep == ASSUME IInv, ReadSecret PROVE IInv'
<1>1. At("readSecret") /\ Quiet /\ BoundsKept
  BY Bounded, Zenon DEF ReadSecret, Others, Quiet, IInv
<1>2. CASE worker' = Idle \/ \E r : worker' = Finish(worker, r)
  BY <1>1, <1>2, QuietStops
<1>3. CASE worker' = [Proceed(worker) EXCEPT !.secret = secret]
  <2>1. Carried
    BY <1>3, ProceedFields DEF IInv, ShapeInv, WorkerFields, Carried
  <2>2. (~renamed => worker.name = Name) /\ kind = "User"
    BY <1>1 DEF IInv, StepInv, Here, At, StepsWithName, LookSteps, SecretSteps, PolicySteps, ResourceInv, OwnerInv, Looking,
                      Policies, Templates
  <2>3. ASSUME NEW t, Follows(kind, "readSecret", t), worker'.rest # <<>>, Head(worker'.rest) = t
        PROVE  StepInv' /\ t # "release"
    <3>1. t = "annotateSecret"
      BY <2>3 DEF Follows
    <3> QED
      BY <1>1, <1>3, <2>1, <2>2, <2>3, <3>1
      DEF StepInv, Here, LookSteps, SecretSteps, PolicySteps, StepsWithName, Quiet, Carried
  <2> QED
    BY <1>1, <2>1, <2>3, QuietCarries
<1> QED
  BY <1>2, <1>3, Zenon DEF ReadSecret, Fails, DeleteFails

LEMMA AnnotateStep == ASSUME IInv, AnnotateSecret PROVE IInv'
<1>1. At("annotateSecret") /\ Quiet /\ BoundsKept
  BY Bounded, Zenon DEF AnnotateSecret, Others, Quiet, IInv
<1>2. CASE worker' = Idle \/ \E r : worker' = Finish(worker, r)
  BY <1>1, <1>2, QuietStops
<1>3. CASE worker' = [Proceed(worker) EXCEPT !.secret = [worker.secret EXCEPT !.annotated = TRUE]]
  <2>1. Carried
    BY <1>3, ProceedFields DEF IInv, ShapeInv, WorkerFields, Carried
  <2>2. (~renamed => worker.name = Name) /\ kind = "User"
    BY <1>1 DEF IInv, StepInv, Here, At, StepsWithName, LookSteps, SecretSteps, PolicySteps, ResourceInv, OwnerInv, Looking,
                      Policies, Templates
  <2>3. ASSUME NEW t, Follows(kind, "annotateSecret", t), worker'.rest # <<>>, Head(worker'.rest) = t
        PROVE  StepInv' /\ t # "release"
    <3>1. t = "compare"
      BY <2>3 DEF Follows
    <3> QED
      BY <1>1, <1>3, <2>1, <2>2, <2>3, <3>1
      DEF StepInv, Here, LookSteps, SecretSteps, PolicySteps, StepsWithName, Quiet, Carried
  <2> QED
    BY <1>1, <2>1, <2>3, QuietCarries
<1> QED
  BY <1>2, <1>3, Zenon DEF AnnotateSecret, Fails, DeleteFails

LEMMA CheckNameStep == ASSUME IInv, CheckName PROVE IInv'
<1>1. At("checkName") /\ Quiet /\ BoundsKept
  BY Bounded DEF CheckName, Others, Quiet, IInv
<1>2. CASE worker' = Idle \/ \E r : worker' = Finish(worker, r)
  BY <1>1, <1>2, QuietStops
<1>3. CASE worker' = Proceed(worker)
  <2>1. Carried
    BY <1>3, ProceedFields DEF IInv, ShapeInv, WorkerFields, Carried
  <2>2. (~renamed => worker.name = Name) /\ kind \in Looking /\ worker.inst.existing = "no"
    BY <1>1 DEF IInv, StepInv, Here, At, StepsWithName, LookSteps, SecretSteps, PolicySteps, ResourceInv, OwnerInv, Looking,
                      Policies, Templates
  <2>3. ASSUME NEW t, Follows(kind, "checkName", t), worker'.rest # <<>>, Head(worker'.rest) = t
        PROVE  StepInv' /\ t # "release"
    <3>1. t = "compare"
      BY <2>3 DEF Follows
    <3> QED
      BY <1>1, <1>3, <2>1, <2>2, <2>3, <3>1
      DEF StepInv, Here, LookSteps, SecretSteps, PolicySteps, StepsWithName, Quiet, Carried
  <2> QED
    BY <1>1, <2>1, <2>3, QuietCarries
<1> QED
  BY <1>2, <1>3 DEF CheckName, Fails, DeleteFails

LEMMA BuildStep == ASSUME IInv, Build PROVE IInv'
<1>1. At("build") /\ Quiet /\ BoundsKept
  BY Bounded DEF Build, Others, Quiet, IInv
<1>2. CASE worker' = Idle \/ \E r : worker' = Finish(worker, r)
  BY <1>1, <1>2, QuietStops
<1>3. CASE worker' = [Proceed(worker) EXCEPT !.doc = worker.inst.content]
  <2>1. Carried
    BY <1>3, ProceedFields DEF IInv, ShapeInv, WorkerFields, Carried
  <2>2. (~renamed => worker.name = Name) /\ kind \in Policies
    BY <1>1 DEF IInv, StepInv, Here, At, StepsWithName, LookSteps, SecretSteps, PolicySteps, ResourceInv, OwnerInv, Looking,
                      Policies, Templates
  <2>3. ASSUME NEW t, Follows(kind, "build", t), worker'.rest # <<>>, Head(worker'.rest) = t
        PROVE  StepInv' /\ t # "release"
    <3>1. t = "get"
      BY <2>3 DEF Follows
    <3> QED
      BY <1>1, <1>3, <2>1, <2>2, <2>3, <3>1
      DEF StepInv, Here, LookSteps, SecretSteps, PolicySteps, StepsWithName, Quiet, Carried
  <2> QED
    BY <1>1, <2>1, <2>3, QuietCarries
<1> QED
  BY <1>2, <1>3, Zenon DEF Build, Fails, DeleteFails

LEMMA ApplyStep == ASSUME IInv, ApplyToIndices PROVE IInv'
<1>1. At("apply") /\ Quiet /\ BoundsKept
  BY Bounded, Zenon DEF ApplyToIndices, Others, Quiet, IInv
<1>2. CASE worker' = Idle \/ \E r : worker' = Finish(worker, r)
  BY <1>1, <1>2, QuietStops
<1>3. CASE worker' = Proceed(worker)
  <2>1. Carried
    BY <1>3, ProceedFields DEF IInv, ShapeInv, WorkerFields, Carried
  <2>2. (~renamed => worker.name = Name) /\ kind \in Policies /\ (~renamed => server[Name].maker # 0)
    BY <1>1 DEF IInv, StepInv, Here, At, StepsWithName, LookSteps, SecretSteps, PolicySteps, ResourceInv, OwnerInv, Looking,
                      Policies, Templates
  <2>3. ASSUME NEW t, Follows(kind, "apply", t), worker'.rest # <<>>, Head(worker'.rest) = t
        PROVE  StepInv' /\ t # "release"
    <3>1. t = "markOwn"
      BY <2>3 DEF Follows
    <3> QED
      BY <1>1, <1>3, <2>1, <2>2, <2>3, <3>1
      DEF StepInv, Here, LookSteps, SecretSteps, PolicySteps, StepsWithName, Quiet, Carried
  <2> QED
    BY <1>1, <2>1, <2>3, QuietCarries
<1> QED
  BY <1>2, <1>3, Zenon DEF ApplyToIndices, Fails, DeleteFails

LEMMA AbsentMaker == Absent.maker = -1
BY DEF Absent

LEMMA LookStep == ASSUME IInv, LookExisting PROVE IInv'
<1>1. At("lookExisting") /\ Quiet /\ BoundsKept
  BY Bounded, Zenon DEF LookExisting, Others, Quiet, IInv
<1>2. CASE \E r : worker' = Finish(worker, r)
  BY <1>1, <1>2, QuietStops
<1>3. CASE \/ worker.inst.existing # "unknown" /\ worker' = Proceed(worker)
           \/ worker' = [Proceed(worker) EXCEPT !.exists = (server[worker.name] # Absent)]
  <2>1. Carried /\ (worker.inst.existing = "unknown" => (worker'.exists <=> server[worker.name] # Absent))
    BY <1>3, ProceedFields, Zenon DEF IInv, ShapeInv, WorkerFields, Carried
  <2>2. /\ (~renamed => worker.name = Name)
        /\ kind \in Looking
    BY <1>1 DEF IInv, StepInv, Here, At, StepsWithName, LookSteps, SecretSteps, PolicySteps, ResourceInv,
                OwnerInv, Looking, Policies, Templates
  <2>3. ASSUME NEW t, Follows(kind, "lookExisting", t), worker'.rest # <<>>, Head(worker'.rest) = t
        PROVE  StepInv' /\ t # "release"
    <3>1. t = "recordExisting"
      BY <2>3 DEF Follows
    <3>2. (~renamed /\ worker'.inst.existing = "unknown" /\ ~worker'.exists) => server[Name].maker # 0
      BY <2>1, <2>2, AbsentMaker DEF Carried
    <3> QED
      BY <1>1, <2>1, <2>2, <2>3, <3>1, <3>2 DEF StepInv, Here, LookSteps, SecretSteps, PolicySteps, StepsWithName, Quiet, Carried
  <2> QED
    BY <1>1, <2>1, <2>3, QuietCarries
<1> QED
  BY <1>2, <1>3, Zenon DEF LookExisting, Fails

LEMMA CompareStep == ASSUME IInv, Compare PROVE IInv'
<1>1. At("compare") /\ Quiet /\ BoundsKept
  BY Bounded, Zenon DEF Compare, Others, Quiet, IInv
<1>2. CASE \E r : worker' = Finish(worker, r)
  BY <1>1, <1>2, QuietStops
<1>3. CASE /\ worker' = Proceed(worker)
           /\ ~(kind = "User" /\ server[worker.name] # Absent /\ server[worker.name].maker # worker.inst.uid)
  <2>1. Carried
    BY <1>3, ProceedFields DEF IInv, ShapeInv, Carried
  <2>2. /\ (~renamed => worker.name = Name)
        /\ kind # "User" => worker.inst.existing = "no"
        /\ worker.inst.uid = cr.uid /\ cr.uid # 0 /\ worker.inst.existing = cr.existing
        /\ (~renamed /\ cr.existing = "no") => server[Name].maker # 0
    BY <1>1 DEF IInv, StepInv, Here, At, StepsWithName, LookSteps, SecretSteps, PolicySteps, ResourceInv,
                OwnerInv, Looking, Policies, Templates
  <2>3. ~renamed => server[Name].maker # 0
    BY <1>3, <2>2, AbsentMaker
  <2>4. ASSUME NEW t, Follows(kind, "compare", t), worker'.rest # <<>>, Head(worker'.rest) = t
        PROVE  StepInv' /\ t # "release"
    <3>1. t = "put"
      BY <2>4 DEF Follows
    <3> QED
      BY <1>1, <2>1, <2>2, <2>3, <2>4, <3>1 DEF StepInv, Here, LookSteps, SecretSteps, PolicySteps, StepsWithName, Quiet, Carried
  <2> QED
    BY <1>1, <2>1, <2>4, QuietCarries
<1> QED
  BY <1>2, <1>3, Zenon DEF Compare, Fails

LEMMA GetStep == ASSUME IInv, GetPolicy PROVE IInv'
<1>1. At("get") /\ Quiet /\ BoundsKept
  BY Bounded, Zenon DEF GetPolicy, Others, Quiet, IInv
<1>2. CASE \E r : worker' = Finish(worker, r)
  BY <1>1, <1>2, QuietStops
<1>3. /\ (~renamed => worker.name = Name)
      /\ kind \in Policies
  BY <1>1 DEF IInv, StepInv, Here, At, StepsWithName, LookSteps, SecretSteps, PolicySteps, ResourceInv,
                OwnerInv, Looking, Policies, Templates
<1>4. CASE server[worker.name] = Absent /\ worker' = Proceed(worker)
  <2>1. Carried
    BY <1>4, ProceedFields DEF IInv, ShapeInv, Carried
  <2>2. ASSUME NEW t, Follows(kind, "get", t), worker'.rest # <<>>, Head(worker'.rest) = t
        PROVE  StepInv' /\ t # "release"
    <3>1. t = "create"
      BY <2>2 DEF Follows
    <3>2. ~renamed => server[Name].maker # 0
      BY <1>3, <1>4, AbsentMaker
    <3> QED
      BY <1>1, <1>3, <2>1, <2>2, <3>1, <3>2 DEF StepInv, Here, LookSteps, SecretSteps, PolicySteps, StepsWithName, Quiet, Carried
  <2> QED
    BY <1>1, <2>1, <2>2, QuietCarries
<1>5. CASE worker' = [worker EXCEPT !.rest = <<"checkOwner", "update">>, !.seen = server[worker.name]]
  <2>1. /\ DOMAIN worker' = WorkerFields /\ worker'.rest = <<"checkOwner", "update">> /\ worker'.inst = worker.inst
        /\ worker'.cluster = worker.cluster /\ worker'.name = worker.name
    BY <1>5 DEF IInv, ShapeInv, WorkerFields
  <2>2. Linked(kind, <<"checkOwner", "update">>)
    BY TwoLinked DEF Steps, Follows
  <2>3. Head(worker'.rest) = "checkOwner"
    BY <2>1
  <2>4. StepInv' /\ ~Here({"release"})'
    BY <1>1, <1>3, <2>1, <2>3 DEF StepInv, Here, LookSteps, SecretSteps, PolicySteps, StepsWithName, Quiet
  <2>5. CrKept /\ worker.rest # <<>>
    BY <1>1 DEF CrKept, IInv, ShapeInv, Quiet, At
  <2>7. /\ worker'.inst.uid = cr'.uid
        /\ ~renamed => worker'.inst.name = Name
        /\ worker'.inst.existing = cr'.existing /\ worker'.inst.managed = cr'.managed
    BY <1>1, <2>1 DEF IInv, ResourceInv, At, Quiet
  <2> QED
    BY <1>1, <2>1, <2>2, <2>4, <2>5, <2>7, Moves DEF Quiet
<1> QED
  BY <1>2, <1>4, <1>5, Zenon DEF GetPolicy, Fails

LEMMA IfOwnedStep == ASSUME IInv, IfOwned PROVE IInv'
<1>1. At("ifOwned") /\ Quiet /\ BoundsKept
  BY Bounded DEF IfOwned, Others, Quiet, IInv
<1>2. /\ kind # "User" /\ worker.inst.existing = cr.existing
      /\ (kind \in Own /\ ~cluster.deleting /\ MadeByOperator) => cr.existing = "no"
  BY <1>1 DEF IInv, StepInv, Here, At, StepsWithName, LookSteps, SecretSteps, PolicySteps, ResourceInv,
                OwnerInv, Looking, Policies, Templates
<1>3. CASE worker.inst.existing = "no" /\ worker' = Proceed(worker)
  <2>1. Carried
    BY <1>3, ProceedFields DEF IInv, ShapeInv, Carried
  <2>2. ASSUME NEW t, Follows(kind, "ifOwned", t), worker'.rest # <<>>, Head(worker'.rest) = t
        PROVE  StepInv' /\ t # "release"
    <3>1. t = "fetchForDelete"
      BY <2>2 DEF Follows
    <3> QED
      BY <1>1, <1>3, <2>1, <2>2, <3>1 DEF StepInv, Here, LookSteps, SecretSteps, PolicySteps, StepsWithName, Quiet, Carried
  <2> QED
    BY <1>1, <2>1, <2>2, QuietCarries
<1>4. CASE worker.inst.existing # "no" /\ worker' = Release(worker)
  BY <1>1, <1>2, <1>4, Releases DEF Quiet
<1> QED
  BY <1>3, <1>4 DEF IfOwned

LEMMA FetchForDeleteStep == ASSUME IInv, FetchForDelete PROVE IInv'
<1>1. At("fetchForDelete") /\ Quiet /\ BoundsKept
  BY Bounded DEF FetchForDelete, Others, Quiet, IInv
<1>2. CASE worker' = Idle
  BY <1>1, <1>2, QuietStops
<1>3. CASE (cluster.uid = 0 \/ cluster.deleting) /\ worker' = Release(worker)
  <2>1. cluster.uid = 0 => ~MadeByOperator
    BY NameIsOne, AbsentMaker DEF IInv, ClusterInv, MadeByOperator
  <2> QED
    BY <1>1, <1>3, <2>1, Releases DEF Quiet
<1>4. CASE worker' = [Proceed(worker) EXCEPT !.cluster = cluster, !.name = worker.inst.name]
  <2>1. /\ DOMAIN worker' = WorkerFields /\ worker'.rest = Tail(worker.rest) /\ worker'.inst = worker.inst
        /\ worker'.cluster = cluster /\ worker'.name = worker.inst.name
    BY <1>4, ProceedFields DEF IInv, ShapeInv, WorkerFields
  <2>2. /\ ~renamed => worker.inst.name = Name
        /\ kind # "User" => worker.inst.existing = "no"
        /\ worker.inst.existing = cr.existing
        /\ (~renamed /\ cr.existing = "no") => server[Name].maker # 0
    BY <1>1 DEF IInv, StepInv, Here, At, StepsWithName, LookSteps, SecretSteps, PolicySteps, ResourceInv,
                OwnerInv, Looking, Policies, Templates
  <2>3. ASSUME NEW t, Follows(kind, "fetchForDelete", t), worker'.rest # <<>>, Head(worker'.rest) = t
        PROVE  StepInv' /\ t # "release"
    <3>1. t = "lookForDelete" \/ (t = "remove" /\ kind # "User")
      BY <2>3 DEF Follows
    <3> QED
      BY <1>1, <2>1, <2>2, <2>3, <3>1 DEF StepInv, Here, LookSteps, SecretSteps, PolicySteps, StepsWithName, Quiet
  <2> QED
    BY <1>1, <2>1, <2>3, QuietGoes
<1> QED
  BY <1>2, <1>3, <1>4 DEF FetchForDelete, DeleteFails

LEMMA LookForDeleteStep == ASSUME IInv, LookForDelete PROVE IInv'
<1>1. At("lookForDelete") /\ Quiet /\ BoundsKept
  BY Bounded DEF LookForDelete, Others, Quiet, IInv
<1>2. CASE worker' = Idle
  BY <1>1, <1>2, QuietStops
<1>3. /\ ~renamed => worker.name = Name
      /\ kind \in Own => ~renamed
      /\ kind # "User" => worker.inst.existing = "no"
      /\ worker.inst.existing = cr.existing
      /\ (~renamed /\ cr.existing = "no") => server[Name].maker # 0
  BY <1>1 DEF IInv, StepInv, Here, At, StepsWithName, LookSteps, SecretSteps, PolicySteps, ResourceInv,
                OwnerInv, Looking, Policies, Templates
<1>4. CASE server[worker.name] = Absent /\ worker' = Release(worker)
  <2>1. kind \in Own => ~MadeByOperator
    BY <1>3, <1>4, AbsentMaker DEF MadeByOperator
  <2> QED
    BY <1>1, <1>4, <2>1, Releases DEF Quiet
<1>5. CASE worker' = Proceed(worker)
  <2>1. Carried
    BY <1>5, ProceedFields DEF IInv, ShapeInv, Carried
  <2>2. ASSUME NEW t, Follows(kind, "lookForDelete", t), worker'.rest # <<>>, Head(worker'.rest) = t
        PROVE  StepInv' /\ t # "release"
    <3>1. (t = "matchUID" /\ kind = "User") \/ (t = "remove" /\ kind # "User")
      BY <2>2 DEF Follows
    <3> QED
      BY <1>1, <1>3, <2>1, <2>2, <3>1 DEF StepInv, Here, LookSteps, SecretSteps, PolicySteps, StepsWithName, Quiet, Carried
  <2> QED
    BY <1>1, <2>1, <2>2, QuietCarries
<1> QED
  BY <1>2, <1>4, <1>5 DEF LookForDelete, DeleteFails

LEMMA MatchStep == ASSUME IInv, MatchUID PROVE IInv'
<1>1. At("matchUID") /\ Quiet /\ BoundsKept
  BY Bounded DEF MatchUID, Others, Quiet, IInv
<1>2. CASE worker' = Idle
  BY <1>1, <1>2, QuietStops
<1>3. /\ ~renamed => worker.name = Name
      /\ kind \in Own => ~renamed
      /\ kind = "User"
      /\ worker.inst.uid = cr.uid /\ cr.uid # 0
      /\ (kind \in Own /\ ~cluster.deleting /\ MadeByOperator) => server[Name].maker = cr.uid
  BY <1>1 DEF IInv, StepInv, Here, At, StepsWithName, LookSteps, SecretSteps, PolicySteps, ResourceInv,
                OwnerInv, Looking, Policies, Templates
<1>4. CASE server[worker.name].maker # worker.inst.uid /\ worker' = Release(worker)
  BY <1>1, <1>3, <1>4, Releases DEF Quiet
<1>5. CASE server[worker.name].maker = worker.inst.uid /\ worker' = Proceed(worker)
  <2>1. Carried
    BY <1>5, ProceedFields DEF IInv, ShapeInv, Carried
  <2>2. ASSUME NEW t, Follows(kind, "matchUID", t), worker'.rest # <<>>, Head(worker'.rest) = t
        PROVE  StepInv' /\ t # "release"
    <3>1. t = "remove"
      BY <2>2 DEF Follows
    <3>2. ~renamed => server[Name].maker # 0
      BY <1>3, <1>5
    <3> QED
      BY <1>1, <1>3, <2>1, <2>2, <3>1, <3>2 DEF StepInv, Here, LookSteps, SecretSteps, PolicySteps, StepsWithName, Quiet, Carried
  <2> QED
    BY <1>1, <2>1, <2>2, QuietCarries
<1> QED
  BY <1>2, <1>4, <1>5 DEF MatchUID, DeleteFails

----------------------------------------------------------------------------
(* The steps that write the status. *)

Unmoved == UNCHANGED <<kind, cluster, server, renamed>>

(* Some of the status is written, and the pass goes on or ends. *)
LEMMA StatusFields ==
    ASSUME ShapeInv, NEW v
    PROVE  /\ LET c == [cr EXCEPT !.managed = v]
              IN  /\ DOMAIN c = CrFields /\ c.uid = cr.uid /\ c.name = cr.name /\ c.finalizer = cr.finalizer
                  /\ c.existing = cr.existing /\ c.managed = v
           /\ LET c == [cr EXCEPT !.existing = v]
              IN  /\ DOMAIN c = CrFields /\ c.uid = cr.uid /\ c.name = cr.name /\ c.finalizer = cr.finalizer
                  /\ c.existing = v /\ c.managed = cr.managed
BY DEF ShapeInv, CrFields

LEMMA StatusStops ==
    ASSUME IInv, NEW s, At(s), Unmoved, BoundsKept, cr' = cr \/ CrKept,
           \E r : worker' = Finish(worker, r) \/ (worker' = [Finish(worker, r) EXCEPT !.inst = cr'])
    PROVE  IInv'
<1>1. CrKept /\ worker.rest # <<>>
  BY DEF CrKept, IInv, ShapeInv, At
<1> QED
  BY <1>1, Stops DEF Unmoved

LEMMA StatusGoes ==
    ASSUME IInv, NEW s, At(s), Unmoved, BoundsKept, CrKept, worker' = [Proceed(worker) EXCEPT !.inst = cr'],
           \A t : Follows(kind, s, t) /\ worker'.rest # <<>> /\ Head(worker'.rest) = t => StepInv' /\ t # "release"
    PROVE  IInv'
<1>1. /\ DOMAIN worker' = WorkerFields /\ worker'.rest = Tail(worker.rest) /\ worker'.inst = cr'
      /\ worker'.cluster = worker.cluster
  BY ProceedFields DEF IInv, ShapeInv, WorkerFields
<1>2. /\ worker.rest # <<>> /\ Linked(kind, worker'.rest)
      /\ worker'.rest # <<>> => Follows(kind, s, Head(worker'.rest))
  BY <1>1, NextStep, Zenon DEF IInv
<1>3. StepInv' /\ ~Here({"release"})'
  <2>1. CASE worker'.rest = <<>>
    BY <2>1 DEF StepInv, Here
  <2>2. CASE worker'.rest # <<>>
    BY <1>2, <2>2 DEF Here
  <2> QED
    BY <2>1, <2>2
<1>5. ~renamed => worker'.inst.name = Name
  BY <1>1, <1>2 DEF IInv, ResourceInv, CrKept
<1> QED
  BY <1>1, <1>2, <1>3, <1>5, Moves DEF Unmoved

LEMMA BindStep == ASSUME IInv, BindCluster PROVE IInv'
<1> DEFINE new == [cr EXCEPT !.managed = worker.cluster.uid]
<1>1. At("bindCluster") /\ Unmoved /\ BoundsKept
  BY Bounded DEF BindCluster, Others, Unmoved, IInv, UpdateStatus
<1>3. ASSUME cr' = new PROVE CrKept
  BY <1>3, StatusFields DEF CrKept, IInv
<1>4. CASE cr' \in {cr, new} /\ \E r : worker' = Finish(worker, r)
  BY <1>1, <1>3, <1>4, StatusStops
<1>5. CASE cr' = new /\ worker' = [Proceed(worker) EXCEPT !.inst = new]
  <2>2. ASSUME NEW t, Follows(kind, "bindCluster", t), worker'.rest # <<>>, Head(worker'.rest) = t
        PROVE  StepInv' /\ t # "release"
    <3>1. t = "waitRunning"
      BY <2>2 DEF Follows
    <3> QED
      BY <2>2, <3>1 DEF StepInv, Here, LookSteps, SecretSteps, PolicySteps, StepsWithName
  <2> QED
    BY <1>1, <1>3, <1>5, <2>2, StatusGoes
<1>6. CASE cr' = cr /\ worker.inst.managed \in {0, worker.cluster.uid} /\ worker.inst.managed # 0 /\ worker' = Proceed(worker)
  <2>1. Carried /\ Quiet
    BY <1>1, <1>6, ProceedFields DEF IInv, ShapeInv, Carried, Quiet, Unmoved
  <2>2. ASSUME NEW t, Follows(kind, "bindCluster", t), worker'.rest # <<>>, Head(worker'.rest) = t
        PROVE  StepInv' /\ t # "release"
    <3>1. t = "waitRunning"
      BY <2>2 DEF Follows
    <3> QED
      BY <2>2, <3>1 DEF StepInv, Here, LookSteps, SecretSteps, PolicySteps, StepsWithName
  <2> QED
    BY <1>1, <2>1, <2>2, QuietCarries
<1> QED
  <2>1. CASE worker.inst.managed \notin {0, worker.cluster.uid}
    BY <1>4, <2>1 DEF BindCluster
  <2>2. CASE worker.inst.managed \in {0, worker.cluster.uid} /\ (worker.inst.managed = 0 \/ kind \in Policies)
    <3>1. UpdateStatus(new, Proceed(worker))
      BY <2>2 DEF BindCluster
    <3> QED
      BY <1>4, <1>5, <3>1 DEF UpdateStatus, Fails
  <2>3. CASE worker.inst.managed \in {0, worker.cluster.uid} /\ worker.inst.managed # 0 /\ kind \notin Policies
    BY <1>6, <2>3 DEF BindCluster
  <2> QED
    BY <2>1, <2>2, <2>3

LEMMA RecordStep == ASSUME IInv, RecordExisting PROVE IInv'
<1> DEFINE new == [cr EXCEPT !.existing = IF worker.exists THEN "yes" ELSE "no"]
<1>1. At("recordExisting") /\ Unmoved /\ BoundsKept
  BY Bounded DEF RecordExisting, Others, Unmoved, IInv, UpdateStatus
<1>2. /\ kind \in Looking /\ kind # "User" /\ worker.inst.existing = cr.existing /\ (~renamed => worker.name = Name)
      /\ (~renamed /\ worker.inst.existing = "unknown" /\ ~worker.exists) => server[Name].maker # 0
  BY <1>1 DEF IInv, StepInv, Here, At, StepsWithName, LookSteps, SecretSteps, PolicySteps, ResourceInv,
                OwnerInv, Looking, Policies, Templates
<1>3. ASSUME cr' = new, worker.inst.existing = "unknown"
      PROVE  CrKept /\ (~worker.exists => cr'.existing = "no")
  BY <1>2, <1>3, StatusFields DEF CrKept, IInv
<1>4. CASE worker.inst.existing = "unknown" /\ cr' = new /\
           \E r : worker' = Finish(worker, r) \/ worker' = [Finish(worker, r) EXCEPT !.inst = new]
  BY <1>1, <1>3, <1>4, StatusStops
<1>5. CASE cr' = cr /\ \E r : worker' = Finish(worker, r)
  BY <1>1, <1>5, StatusStops
<1>6. CASE worker.inst.existing = "unknown" /\ ~worker.exists /\ cr' = new /\ worker' = [Proceed(worker) EXCEPT !.inst = new]
  <2>1. worker'.inst.existing = "no" /\ worker'.name = worker.name
    BY <1>3, <1>6, ProceedFields, Zenon DEF IInv, ShapeInv, WorkerFields
  <2>2. ASSUME NEW t, Follows(kind, "recordExisting", t), worker'.rest # <<>>, Head(worker'.rest) = t
        PROVE  StepInv' /\ t # "release"
    <3>1. t \in {"checkName", "compare"}
      BY <2>2 DEF Follows
    <3> QED
      BY <1>1, <1>2, <2>1, <2>2, <3>1, Zenon DEF StepInv, Here, LookSteps, SecretSteps, PolicySteps, StepsWithName, Unmoved
  <2> QED
    BY <1>1, <1>3, <1>6, <2>2, StatusGoes
<1>7. CASE cr' = cr /\ worker.inst.existing \notin {"unknown", "yes"} /\ worker' = Proceed(worker)
  <2>1. Carried /\ Quiet /\ worker.inst.existing = "no"
    BY <1>1, <1>2, <1>7, ProceedFields DEF IInv, ShapeInv, Carried, Quiet, Unmoved
  <2>2. ASSUME NEW t, Follows(kind, "recordExisting", t), worker'.rest # <<>>, Head(worker'.rest) = t
        PROVE  StepInv' /\ t # "release"
    <3>1. t \in {"checkName", "compare"}
      BY <2>2 DEF Follows
    <3> QED
      BY <1>1, <1>2, <2>1, <2>2, <3>1, Zenon DEF StepInv, Here, LookSteps, SecretSteps, PolicySteps, StepsWithName, Carried, Unmoved
  <2> QED
    BY <1>1, <2>1, <2>2, QuietCarries
<1> QED
  <2>1. CASE worker.inst.existing = "unknown"
    <3>1. UpdateStatus(new, IF worker.exists THEN Finish(worker, Ignored) ELSE Proceed(worker))
      BY <2>1 DEF RecordExisting
    <3> QED
      BY <1>4, <1>5, <1>6, <2>1, <3>1 DEF UpdateStatus, Fails
  <2>2. CASE worker.inst.existing # "unknown"
    BY <1>5, <1>7, <2>2 DEF RecordExisting
  <2> QED
    BY <2>1, <2>2

LEMMA MarkStep == ASSUME IInv, MarkOwn PROVE IInv'
<1> DEFINE new == [cr EXCEPT !.existing = "no"]
<1>1. At("markOwn") /\ Unmoved /\ BoundsKept
  BY Bounded DEF MarkOwn, Others, Unmoved, IInv, UpdateStatus
<1>2. ~renamed => server[Name].maker # 0
  BY <1>1 DEF IInv, StepInv, Here, At
<1>3. cr' = new => CrKept
  BY <1>2, StatusFields DEF CrKept, IInv
<1>4. cr' \in {cr, new} /\ \E r : worker' = Finish(worker, r) \/ (worker' = [Finish(worker, r) EXCEPT !.inst = cr'])
  BY DEF MarkOwn, UpdateStatus, Fails
<1> QED
  BY <1>1, <1>3, <1>4, StatusStops

LEMMA CheckOwnerStep == ASSUME IInv, CheckOwner PROVE IInv'
<1> DEFINE new == [cr EXCEPT !.existing = "yes"]
<1>1. At("checkOwner") /\ Unmoved /\ BoundsKept
  BY Bounded DEF CheckOwner, Others, Unmoved, IInv, UpdateStatus
<1>2. /\ (~renamed => worker.name = Name)
      /\ kind \in Policies /\ kind \notin Own /\ worker.inst.existing = cr.existing
      /\ (~renamed /\ cr.existing = "no") => server[Name].maker # 0
  BY <1>1 DEF IInv, StepInv, Here, At, StepsWithName, LookSteps, SecretSteps, PolicySteps, ResourceInv,
                OwnerInv, Looking, Policies, Templates, Own
<1>3. cr' = new => CrKept
  BY <1>2, StatusFields DEF CrKept, IInv
<1>4. CASE cr' \in {cr, new} /\ \E r : worker' = Finish(worker, r) \/ (worker' = [Finish(worker, r) EXCEPT !.inst = cr'])
  BY <1>1, <1>3, <1>4, StatusStops
<1>5. CASE cr' = cr /\ worker.inst.existing = "no" /\ worker' = Proceed(worker)
  <2>1. Carried /\ Quiet
    BY <1>1, <1>5, ProceedFields DEF IInv, ShapeInv, Carried, Quiet, Unmoved
  <2>2. ASSUME NEW t, Follows(kind, "checkOwner", t), worker'.rest # <<>>, Head(worker'.rest) = t
        PROVE  StepInv' /\ t # "release"
    <3>1. t = "update"
      BY <2>2 DEF Follows
    <3> QED
      BY <1>1, <1>2, <1>5, <2>1, <2>2, <3>1
      DEF StepInv, Here, LookSteps, SecretSteps, PolicySteps, StepsWithName, Carried, Unmoved
  <2> QED
    BY <1>1, <2>1, <2>2, QuietCarries
<1> QED
  <2>1. CASE worker.inst.existing # "no"
    <3>1. UpdateStatus(new, Finish(worker, Requeue(30)))
      BY <2>1 DEF CheckOwner
    <3> QED
      BY <1>4, <3>1 DEF UpdateStatus, Fails
  <2>2. CASE worker.inst.existing = "no"
    BY <1>4, <1>5, <2>2 DEF CheckOwner
  <2> QED
    BY <2>1, <2>2

LEMMA DeferredStep == ASSUME IInv, DeferredStatus PROVE IInv'
<1>1. At("status") /\ Unmoved /\ BoundsKept /\ worker' = Idle /\ worker.rest # <<>>
  BY Bounded DEF DeferredStatus, Others, Unmoved, IInv, At
<1>2. CrKept
  BY Zenon DEF DeferredStatus, CrKept, IInv, ShapeInv, CrFields
<1> QED
  BY <1>1, <1>2, Stops DEF Unmoved

(* Nothing is in progress any more, and the resource is as it was or gone. *)
LEMMA Rests ==
    ASSUME IInv, Unmoved, BoundsKept, worker' = Idle,
           \/ cr' = cr
           \/ cr' = NoCR /\ ((kind \in Own /\ ~cluster.deleting) => ~MadeByOperator)
    PROVE  IInv'
<1>1. /\ DOMAIN worker' = WorkerFields /\ worker'.rest = <<>> /\ worker'.cluster.uid = 0
      /\ Linked(kind, worker'.rest) /\ \A S : ~Here(S)'
  BY IdleFields, NoStepLinked DEF Here
<1>2. /\ DOMAIN NoCR = CrFields /\ NoCR.uid = 0 /\ NoCR.existing = "unknown"
  BY Zenon DEF NoCR, CrFields
<1>3. ShapeInv' /\ ResourceInv'
  <2>1. ShapeInv'
    BY <1>1, <1>2 DEF IInv, ShapeInv, Unmoved, BoundsKept
  <2>2. ResourceInv'
    BY <1>1, <1>2, Zenon DEF IInv, ResourceInv, Unmoved, BoundsKept
  <2> QED
    BY <2>1, <2>2
<1>4. ClusterInv' /\ StepInv'
  BY <1>1 DEF IInv, ClusterInv, StepInv, Unmoved
<1>5. OwnerInv'
  BY <1>1, <1>2 DEF IInv, OwnerInv, Unmoved, MadeByOperator
<1> QED
  BY <1>3, <1>4, <1>5 DEF IInv

LEMMA FinalizerStep == ASSUME IInv, RemoveFinalizer PROVE IInv'
<1>1. At("release") /\ Unmoved /\ BoundsKept /\ worker' = Idle /\ cr' \in {cr, NoCR}
  BY Bounded DEF RemoveFinalizer, Others, Unmoved, IInv
<1>2. (kind \in Own /\ ~cluster.deleting) => ~MadeByOperator
  BY <1>1 DEF IInv, OwnerInv, Here, At
<1> QED
  BY <1>1, <1>2, Rests

LEMMA CrashStep == ASSUME IInv, OperatorCrash PROVE IInv'
<1>1. Unmoved /\ BoundsKept /\ worker' = Idle /\ cr' = cr
  BY Bounded DEF OperatorCrash, Others, Unmoved, IInv
<1> QED
  BY <1>1, Rests

(* A pass begins, with the resource as it is now. *)
LEMMA StartStep == ASSUME IInv, StartReconcile \/ StartDelete PROVE IInv'
<1>1. Unmoved /\ BoundsKept /\ worker = Idle /\ cr.uid # 0
  BY Bounded DEF StartReconcile, StartDelete, Others, Unmoved, IInv
<1>2. /\ DOMAIN cr' = CrFields /\ cr'.uid = cr.uid /\ cr'.name = cr.name /\ cr'.finalizer = TRUE
      /\ cr'.existing = cr.existing /\ cr'.managed = cr.managed
  <2>1. CASE cr' = [cr EXCEPT !.finalizer = TRUE]
    BY <2>1 DEF IInv, ShapeInv, CrFields
  <2>2. CASE cr' = cr /\ cr.finalizer
    BY <2>2 DEF IInv, ShapeInv
  <2> QED
    BY <2>1, <2>2, Zenon DEF StartReconcile, StartDelete
<1>3. ASSUME worker' = Idle PROVE IInv'
  <2>1. /\ DOMAIN worker' = WorkerFields /\ worker'.rest = <<>> /\ worker'.cluster.uid = 0
        /\ Linked(kind, worker'.rest) /\ \A S : ~Here(S)'
    BY <1>3, IdleFields, NoStepLinked DEF Here
  <2>2. ShapeInv' /\ ResourceInv'
    BY <1>1, <1>2, <2>1 DEF IInv, ShapeInv, ResourceInv, Unmoved, BoundsKept
  <2>3. ClusterInv' /\ StepInv'
    BY <1>1, <2>1 DEF IInv, ClusterInv, StepInv, Unmoved
  <2>4. OwnerInv'
    BY <1>1, <1>2, <2>1 DEF IInv, OwnerInv, Unmoved, MadeByOperator
  <2> QED
    BY <2>2, <2>3, <2>4 DEF IInv
<1>4. ASSUME worker' = [Idle EXCEPT !.rest = Controller, !.inst = cr']
      PROVE  IInv'
  <2>1. /\ DOMAIN worker' = WorkerFields /\ worker'.rest = Controller /\ worker'.inst = cr'
        /\ worker'.cluster.uid = 0
    BY <1>4 DEF Idle, WorkerFields, NoCluster
  <2>2. /\ Linked(kind, worker'.rest) /\ worker'.rest # <<>>
        /\ Head(worker'.rest) = "fetchCluster" \/ (Head(worker'.rest) = "fetchForDelete" /\ kind = "User")
           \/ (Head(worker'.rest) = "ifOwned" /\ kind # "User")
    BY <2>1, ProgramLinked DEF IInv, ShapeInv
  <2>3. ShapeInv' /\ ResourceInv'
    BY <1>1, <1>2, <2>1, <2>2 DEF IInv, ShapeInv, ResourceInv, Unmoved, BoundsKept
  <2>4. ClusterInv'
    BY <1>1, <2>1 DEF IInv, ClusterInv, Unmoved
  <2>5. StepInv' /\ ~Here({"release"})'
    BY <1>1, <2>2 DEF StepInv, Here, LookSteps, SecretSteps, PolicySteps, StepsWithName, Unmoved
  <2>6. OwnerInv'
    BY <1>1, <1>2, <2>5 DEF IInv, OwnerInv, Unmoved, MadeByOperator
  <2> QED
    BY <2>3, <2>4, <2>5, <2>6 DEF IInv
<1> QED
  BY <1>1, <1>3, <1>4, Zenon DEF StartReconcile, StartDelete

----------------------------------------------------------------------------
(* The steps that write to OpenSearch. *)

(* The pass is over, or only its status is left to write. *)
LEMMA AtEnd ==
    ASSUME IInv, worker' = Idle \/ \E r : worker' = Finish(worker, r)
    PROVE  /\ DOMAIN worker' = WorkerFields /\ Linked(kind, worker'.rest) /\ StepInv' /\ ~Here({"release"})'
           /\ worker'.rest # <<>> => Head(worker'.rest) = "status" /\ worker'.inst = worker.inst
<1>1. /\ DOMAIN worker' = WorkerFields
      /\ \/ worker'.rest = <<>> /\ worker'.cluster.uid = 0
         \/ worker'.rest = <<"status">> /\ worker'.cluster = worker.cluster /\ worker'.inst = worker.inst
  BY IdleFields, FinishFields DEF IInv, ShapeInv
<1>2. Linked(kind, <<"status">>) /\ Linked(kind, <<>>) /\ Head(<<"status">>) = "status"
  BY OneStepLinked, NoStepLinked DEF Steps
<1>3. worker'.rest # <<>> => Head(worker'.rest) = "status"
  BY <1>1, <1>2
<1>4. StepInv' /\ ~Here({"release"})'
  BY <1>3 DEF StepInv, Here, LookSteps, SecretSteps, PolicySteps, StepsWithName
<1> QED
  BY <1>1, <1>2, <1>3, <1>4

(* The object d is written under the name of the resource: one of the operator, or none. *)
LEMMA Writes ==
    ASSUME IInv, NEW s, At(s), s # "status", UNCHANGED <<kind, cluster, renamed, cr>>, BoundsKept,
           cluster.uid # 0, ~renamed => worker.name = Name,
           NEW d, DOMAIN d = ObjectFields, server' = [server EXCEPT ![worker.name] = d],
           d.maker \in {-1, cr.uid},
           (d.maker # -1 /\ kind \in Own /\ kind # "User") => cr.existing = "no",
           DOMAIN worker' = WorkerFields, Linked(kind, worker'.rest), StepInv', Here({"release"})' => d.maker = -1,
           worker'.rest # <<>> => worker'.inst = worker.inst
    PROVE  IInv'
<1>1. /\ cr.uid # 0 /\ cr.uid \in Nat /\ cr.finalizer = TRUE /\ worker.inst.uid = cr.uid
      /\ ~renamed => worker.inst.name = Name
      /\ worker.inst.existing = cr.existing /\ worker.inst.managed = cr.managed
      /\ kind \in Own => ~renamed
  BY DEF IInv, ResourceInv, ShapeInv, At
<1>2. DOMAIN server' = Names /\ \A n \in Names : DOMAIN server'[n] = ObjectFields
  BY DEF IInv, ShapeInv
<1>3. ~renamed => server'[Name] = d
  BY NameIsOne DEF IInv, ShapeInv
<1>4. ShapeInv'
  BY <1>2 DEF IInv, ShapeInv, BoundsKept
<1>5. ResourceInv'
  BY <1>1 DEF IInv, ResourceInv
<1>6. ClusterInv'
  BY DEF IInv, ClusterInv
<1>7. OwnerInv'
  BY <1>1, <1>3 DEF OwnerInv, MadeByOperator, Late
<1> QED
  BY <1>4, <1>5, <1>6, <1>7 DEF IInv

LEMMA PutStep == ASSUME IInv, Put PROVE IInv'
<1>1. At("put") /\ BoundsKept /\ UNCHANGED <<kind, cluster, renamed, cr>>
  BY Bounded DEF Put, Others, IInv
<1>2. \E r : worker' = Finish(worker, r)
  BY DEF Put
<1>3. /\ ~renamed => worker.name = Name
      /\ kind # "User" => cr.existing = "no"
      /\ worker.inst.uid = cr.uid
  BY <1>1 DEF IInv, StepInv, Here, At, StepsWithName, ResourceInv
<1>4. CASE UNCHANGED server
  BY <1>1, <1>2, <1>4, QuietStops DEF Quiet
<1>5. CASE Reachable /\ server' = [server EXCEPT ![worker.name] = Document]
  <2>1. DOMAIN Document = ObjectFields /\ Document.maker = cr.uid
    BY <1>3 DEF Document, ObjectFields
  <2> QED
    BY <1>1, <1>2, <1>3, <1>5, <2>1, AtEnd, Writes, Zenon DEF Reachable
<1> QED
  BY <1>4, <1>5 DEF Put

LEMMA CreatePolicyStep == ASSUME IInv, CreatePolicy PROVE IInv'
<1>1. At("create") /\ BoundsKept /\ UNCHANGED <<kind, cluster, renamed, cr>>
  BY Bounded, Zenon DEF CreatePolicy, Others, IInv
<1>2. /\ (~renamed => worker.name = Name)
      /\ kind \in Policies /\ kind \notin Own /\ worker.inst.uid = cr.uid /\ cr.uid # 0
  BY <1>1 DEF IInv, StepInv, Here, At, StepsWithName, PolicySteps, ResourceInv, Policies, Own
<1>3. CASE UNCHANGED server /\ \E r : worker' = Finish(worker, r)
  BY <1>1, <1>3, QuietStops DEF Quiet
<1>4. ASSUME Reachable, server' = [server EXCEPT ![worker.name] = PolicyDocument]
      PROVE  IInv'
  <2>1. DOMAIN PolicyDocument = ObjectFields /\ PolicyDocument.maker = cr.uid
    BY <1>2 DEF PolicyDocument, ObjectFields
  <2>2. CASE \E r : worker' = Finish(worker, r)
    BY <1>1, <1>2, <1>4, <2>1, <2>2, AtEnd, Writes, Zenon DEF Reachable
  <2>3. CASE worker' = Proceed(worker)
    <3>1. Carried /\ Linked(kind, worker'.rest)
      BY <1>1, <2>3, ProceedFields, NextStep DEF IInv, ShapeInv, Carried
    <3>2. worker'.rest # <<>> => Head(worker'.rest) \in {"apply", "markOwn"}
      BY <1>1, <3>1, NextStep DEF IInv, Carried, Follows
    <3>3. ~renamed => server'[Name].maker # 0
      BY <1>2, <1>4, <2>1, NameIsOne DEF IInv, ShapeInv
    <3>4. StepInv' /\ ~Here({"release"})'
      BY <1>1, <1>2, <3>1, <3>2, <3>3
      DEF StepInv, Here, LookSteps, SecretSteps, PolicySteps, StepsWithName, Carried
    <3> QED
      BY <1>1, <1>2, <1>4, <2>1, <3>1, <3>4, Writes, Zenon DEF Reachable, Carried
  <2> QED
    BY <1>4, <2>2, <2>3, Zenon DEF CreatePolicy, Fails
<1> QED
  BY <1>3, <1>4, Zenon DEF CreatePolicy, Fails

LEMMA UpdatePolicyStep == ASSUME IInv, UpdatePolicy PROVE IInv'
<1>1. At("update") /\ BoundsKept /\ UNCHANGED <<kind, cluster, renamed, cr>>
  BY Bounded, Zenon DEF UpdatePolicy, Others, IInv
<1>2. \E r : worker' = Finish(worker, r)
  BY Zenon DEF UpdatePolicy, Fails
<1>3. /\ ~renamed => worker.name = Name
      /\ kind \in Policies /\ kind \notin Own /\ worker.inst.uid = cr.uid
  BY <1>1 DEF IInv, StepInv, Here, At, StepsWithName, PolicySteps, ResourceInv, Policies, Own
<1>4. CASE UNCHANGED server
  BY <1>1, <1>2, <1>4, QuietStops DEF Quiet
<1>5. CASE Reachable /\ server' = [server EXCEPT ![worker.name] = PolicyDocument]
  <2>1. DOMAIN PolicyDocument = ObjectFields /\ PolicyDocument.maker = cr.uid
    BY <1>3 DEF PolicyDocument, ObjectFields
  <2> QED
    BY <1>1, <1>2, <1>3, <1>5, <2>1, AtEnd, Writes, Zenon DEF Reachable
<1> QED
  BY <1>4, <1>5, Zenon DEF UpdatePolicy

LEMMA RemoveStep == ASSUME IInv, Remove PROVE IInv'
<1>1. At("remove") /\ BoundsKept /\ UNCHANGED <<kind, cluster, renamed, cr>>
  BY Bounded DEF Remove, Others, IInv
<1>2. /\ ~renamed => worker.name = Name
  BY <1>1 DEF IInv, StepInv, Here, At, StepsWithName
<1>3. CASE UNCHANGED server /\ worker' = Idle
  BY <1>1, <1>3, QuietStops DEF Quiet
<1>4. ASSUME Reachable, server' = [server EXCEPT ![worker.name] = Absent]
      PROVE  IInv'
  <2>1. DOMAIN Absent = ObjectFields /\ Absent.maker = -1
    BY DEF Absent, ObjectFields
  <2>2. CASE worker' = Idle
    BY <1>1, <1>2, <1>4, <2>1, <2>2, AtEnd, Writes, Zenon DEF Reachable
  <2>3. CASE worker' = Proceed(worker)
    <3>1. Carried /\ Linked(kind, worker'.rest)
      BY <1>1, <2>3, ProceedFields, NextStep DEF IInv, ShapeInv, Carried
    <3>2. worker'.rest # <<>> => Head(worker'.rest) = "release"
      BY <1>1, <3>1, NextStep DEF IInv, Carried, Follows
    <3>3. StepInv'
      BY <3>2 DEF StepInv, Here, LookSteps, SecretSteps, PolicySteps, StepsWithName
    <3> QED
      BY <1>1, <1>2, <1>4, <2>1, <3>1, <3>3, Writes, Zenon DEF Reachable, Carried
  <2> QED
    BY <1>4, <2>2, <2>3 DEF Remove, DeleteFails
<1> QED
  BY <1>3, <1>4 DEF Remove, DeleteFails

----------------------------------------------------------------------------
(* Users, the cluster, and others who use OpenSearch. *)

(* Cluster and objects change, not by the operator. *)
LEMMA Outside ==
    ASSUME IInv, UNCHANGED <<kind, cr, worker, renamed>>, BoundsKept,
           DOMAIN cluster' = {"uid", "running", "deleting"},
           DOMAIN server' = Names, \A n \in Names : DOMAIN server'[n] = ObjectFields,
           ClusterInv',
           (MadeByOperator' /\ ~cluster'.deleting) =>
               MadeByOperator /\ ~cluster.deleting /\ server'[Name].maker = server[Name].maker,
           server'[Name].maker = 0 => server[Name].maker = 0 \/ (cr.existing # "no" /\ worker.rest = <<>>)
    PROVE  IInv'
<1>1. ShapeInv' /\ ResourceInv'
  BY DEF IInv, ShapeInv, ResourceInv, BoundsKept
<1>2. StepInv'
  <2>1. worker.rest # <<>> /\ server[Name].maker # 0 => server'[Name].maker # 0
    BY Zenon
  <2> QED
    BY <2>1, StepsKept, Zenon DEF IInv
<1>3. OwnerInv'
  <2>1. Here({"release"})' <=> Here({"release"})
    BY DEF Here
  <2> QED
    BY <2>1 DEF IInv, OwnerInv
<1> QED
  BY <1>1, <1>2, <1>3 DEF IInv

LEMMA EventBounds == ASSUME ShapeInv, NEW what \in BoundFields, Event(what) PROVE BoundsKept
BY Bounded

LEMMA OthersObjectFields ==
    ASSUME NEW m PROVE DOMAIN OthersObject(m) = ObjectFields /\ OthersObject(m).maker = m
BY DEF OthersObject, ObjectFields

LEMMA AbsentFields == DOMAIN Absent = ObjectFields /\ Absent.maker = -1
BY DEF Absent, ObjectFields

(* Once the operator has looked, what others make is late. *)
LEMMA OthersAreLate ==
    ASSUME IInv
    PROVE  /\ OthersMaker \in {Late, 0}
           /\ OthersMaker = 0 => cr.existing # "no" /\ worker.rest = <<>>
BY IdleFields DEF OthersMaker, Late

LEMMA OthersCreateStep == ASSUME IInv, OthersCreate PROVE IInv'
<1>1. /\ UNCHANGED <<kind, cr, worker, renamed, cluster>> /\ BoundsKept /\ cluster.uid # 0
  BY EventBounds DEF OthersCreate, Others, IInv, BoundFields, Reachable
<1>2. PICK n \in UsedNames : server' = [server EXCEPT ![n] = OthersObject(OthersMaker)]
  BY Zenon DEF OthersCreate
<1>3. DOMAIN server' = Names /\ \A m \in Names : server'[m] \in {server[m], OthersObject(OthersMaker)}
  BY <1>2 DEF IInv, ShapeInv
<1>4. \A m \in Names : DOMAIN server'[m] = ObjectFields
  BY <1>3, OthersObjectFields DEF IInv, ShapeInv
<1>5. server'[Name].maker = server[Name].maker \/ server'[Name].maker = OthersMaker
  BY <1>3, OthersObjectFields, NameIsOne
<1>6. ClusterInv'
  BY <1>1 DEF IInv, ClusterInv
<1>7. MadeByOperator' => MadeByOperator /\ server'[Name].maker = server[Name].maker
  BY <1>5, OthersAreLate DEF MadeByOperator
<1>8. server'[Name].maker = 0 => server[Name].maker = 0 \/ (cr.existing # "no" /\ worker.rest = <<>>)
  BY <1>5, OthersAreLate
<1> QED
  BY <1>1, <1>3, <1>4, <1>6, <1>7, <1>8, Outside DEF IInv, ShapeInv

LEMMA OthersChangeStep == ASSUME IInv, OthersChange PROVE IInv'
<1>1. /\ UNCHANGED <<kind, cr, worker, renamed, cluster>> /\ BoundsKept /\ cluster.uid # 0
  BY EventBounds DEF OthersChange, Others, IInv, BoundFields, Reachable
<1>2. PICK n \in Names, c \in Contents : server' = [server EXCEPT ![n].content = c]
  BY Zenon DEF OthersChange
<1>3. /\ DOMAIN server' = Names
      /\ \A m \in Names : DOMAIN server'[m] = ObjectFields /\ server'[m].maker = server[m].maker
  BY <1>2 DEF IInv, ShapeInv, ObjectFields
<1>4. ClusterInv'
  BY <1>1 DEF IInv, ClusterInv
<1>5. MadeByOperator' <=> MadeByOperator
  BY <1>3, NameIsOne DEF MadeByOperator
<1> QED
  BY <1>1, <1>3, <1>4, <1>5, NameIsOne, Outside DEF IInv, ShapeInv

LEMMA OthersRemoveStep == ASSUME IInv, OthersRemove PROVE IInv'
<1>1. /\ UNCHANGED <<kind, cr, worker, renamed, cluster>> /\ BoundsKept /\ cluster.uid # 0
  BY EventBounds DEF OthersRemove, Others, IInv, BoundFields, Reachable
<1>2. PICK n \in Names : server' = [server EXCEPT ![n] = Absent]
  BY Zenon DEF OthersRemove
<1>3. /\ DOMAIN server' = Names
      /\ \A m \in Names : DOMAIN server'[m] = ObjectFields /\ server'[m].maker \in {server[m].maker, -1}
  BY <1>2, AbsentFields DEF IInv, ShapeInv
<1>4. ClusterInv'
  BY <1>1 DEF IInv, ClusterInv
<1>5. MadeByOperator' => MadeByOperator /\ server'[Name].maker = server[Name].maker
  BY <1>3, NameIsOne DEF MadeByOperator
<1>6. server'[Name].maker = 0 => server[Name].maker = 0
  BY <1>3, NameIsOne
<1> QED
  BY <1>1, <1>3, <1>4, <1>5, <1>6, Outside DEF IInv, ShapeInv

LEMMA ClusterStep ==
    ASSUME IInv, ClusterStops \/ ClusterStarts \/ ClusterDeleted PROVE IInv'
<1>1. /\ UNCHANGED <<kind, cr, worker, renamed, server>> /\ BoundsKept
  BY EventBounds, Bounded DEF ClusterStops, ClusterStarts, ClusterDeleted, IInv, BoundFields, NoFault
<1>2. /\ DOMAIN cluster' = {"uid", "running", "deleting"} /\ cluster'.uid = cluster.uid
      /\ cluster'.deleting = cluster.deleting \/ (cluster.uid # 0 /\ cluster'.deleting = TRUE)
  BY DEF ClusterStops, ClusterStarts, ClusterDeleted, IInv, ShapeInv
<1>3. ClusterInv'
  BY <1>1, <1>2 DEF IInv, ClusterInv
<1>4. MadeByOperator' <=> MadeByOperator
  BY <1>1 DEF MadeByOperator
<1> QED
  BY <1>1, <1>2, <1>3, <1>4, Outside DEF IInv, ShapeInv

LEMMA ClusterGoneStep == ASSUME IInv, ClusterGone PROVE IInv'
<1>1. /\ UNCHANGED <<kind, cr, worker, renamed>> /\ BoundsKept
  BY Bounded DEF ClusterGone, IInv, NoFault
<1>2. /\ DOMAIN cluster' = {"uid", "running", "deleting"} /\ cluster'.uid = 0 /\ cluster'.running = FALSE
      /\ cluster'.deleting = FALSE
  BY DEF ClusterGone, NoCluster
<1>3. /\ DOMAIN server' = Names /\ \A n \in Names : server'[n] = Absent
  BY DEF ClusterGone
<1>4. server'[Name].maker = -1 /\ \A n \in Names : DOMAIN server'[n] = ObjectFields
  BY <1>3, AbsentFields, NameIsOne
<1>5. ClusterInv'
  BY <1>2, <1>3 DEF ClusterInv
<1>6. ~MadeByOperator'
  BY <1>4 DEF MadeByOperator
<1> QED
  BY <1>1, <1>2, <1>3, <1>4, <1>5, <1>6, Outside

LEMMA ClusterCreatedStep == ASSUME IInv, ClusterCreated PROVE IInv'
<1>1. /\ UNCHANGED <<kind, cr, worker, renamed>> /\ BoundsKept
  BY Bounded DEF ClusterCreated, IInv, NoFault
<1>2. /\ DOMAIN cluster' = {"uid", "running", "deleting"} /\ cluster'.uid # 0 /\ cluster'.running = FALSE
  BY DEF ClusterCreated, IInv, ShapeInv
<1>3. /\ DOMAIN server' = Names /\ \A n \in Names : server'[n] \in {Absent, OthersObject(OthersMaker)}
  BY DEF ClusterCreated, WithOthers
<1>4. server'[Name].maker \in {-1, OthersMaker} /\ \A n \in Names : DOMAIN server'[n] = ObjectFields
  BY <1>3, AbsentFields, OthersObjectFields, NameIsOne
<1>5. ClusterInv'
  BY <1>2 DEF ClusterInv
<1>6. ~MadeByOperator'
  BY <1>4, OthersAreLate DEF MadeByOperator
<1>7. server'[Name].maker = 0 => cr.existing # "no" /\ worker.rest = <<>>
  BY <1>4, OthersAreLate
<1> QED
  BY <1>1, <1>2, <1>3, <1>4, <1>5, <1>6, <1>7, Outside

LEMMA CreateResourceStep == ASSUME IInv, CreateResource PROVE IInv'
<1>1. /\ UNCHANGED <<kind, cluster, server, worker, renamed>> /\ BoundsKept /\ cr = NoCR
  BY EventBounds DEF CreateResource, Others, IInv, BoundFields
<1>2. NoCR.uid = 0
  BY DEF NoCR
<1>3. worker.rest = <<>> /\ ((kind \in Own /\ ~cluster.deleting) => ~MadeByOperator)
  BY <1>1, <1>2 DEF IInv, ResourceInv, OwnerInv
<1>4. bounds'.resources \in Nat /\ bounds'.resources # 0
  BY DEF CreateResource, Event, IInv, ShapeInv, BoundFields
<1>5. /\ DOMAIN cr' = CrFields /\ cr'.uid = bounds'.resources /\ cr'.name = Name /\ cr'.existing = "unknown"
  BY Zenon DEF CreateResource, NoCR, CrFields
<1>6. ShapeInv' /\ ResourceInv'
  BY <1>1, <1>3, <1>4, <1>5 DEF IInv, ShapeInv, ResourceInv, BoundsKept
<1>7. ClusterInv' /\ StepInv'
  BY <1>1, <1>3 DEF IInv, ClusterInv, StepInv, Here
<1>8. OwnerInv'
  BY <1>1, <1>3, <1>5 DEF OwnerInv, MadeByOperator, Here
<1> QED
  BY <1>6, <1>7, <1>8 DEF IInv

(* A user, a role, a tenant or an action group keeps its name. *)
LEMMA EditResourceStep == ASSUME IInv, EditResource PROVE IInv'
<1>1. /\ UNCHANGED <<kind, cluster, server, worker>> /\ BoundsKept /\ cr # NoCR /\ cr.uid # 0
  BY EventBounds DEF EditResource, IInv, BoundFields, ResourceInv
<1>2. PICK new \in [content : Contents, name : UsedNames] :
         /\ cr' = [cr EXCEPT !.content = new.content, !.name = new.name]
         /\ renamed' = (renamed \/ new.name # cr.name)
  BY Zenon DEF EditResource
<1>3. /\ DOMAIN cr' = CrFields /\ cr'.uid = cr.uid /\ cr'.name = new.name /\ cr'.existing = cr.existing
      /\ cr'.managed = cr.managed /\ cr'.finalizer = cr.finalizer
  BY <1>2 DEF IInv, ShapeInv, CrFields
<1>4. ~renamed' => ~renamed /\ cr'.name = cr.name
  BY <1>2, <1>3, Zenon
<1>5. kind \in Own => UsedNames = {Name}
  BY DEF Own, UsedNames, Templates, Policies
<1>6. renamed' => kind \notin Own
  BY <1>1, <1>2, <1>5, Zenon DEF IInv, ResourceInv
<1>7. ShapeInv' /\ ResourceInv'
  BY <1>1, <1>3, <1>4, <1>6 DEF IInv, ShapeInv, ResourceInv, BoundsKept
<1>8. ClusterInv' /\ StepInv'
  BY <1>1, <1>4, SameSteps, Zenon DEF IInv
<1>9. OwnerInv'
  BY <1>1, <1>3, <1>4, Zenon DEF IInv, OwnerInv, MadeByOperator, Here
<1> QED
  BY <1>7, <1>8, <1>9 DEF IInv

LEMMA DeleteResourceStep == ASSUME IInv, DeleteResource PROVE IInv'
<1>1. /\ UNCHANGED <<kind, cluster, server, worker, renamed, bounds>> /\ cr # NoCR /\ cr.uid # 0
  BY DEF DeleteResource, Others, IInv, ResourceInv
<1>2. CASE cr.finalizer /\ cr' = [cr EXCEPT !.deleting = TRUE]
  <2>1. /\ DOMAIN cr' = CrFields /\ cr'.uid = cr.uid /\ cr'.name = cr.name /\ cr'.existing = cr.existing
        /\ cr'.managed = cr.managed /\ cr'.finalizer = cr.finalizer
    BY <1>2, Zenon DEF IInv, ShapeInv, CrFields
  <2>2. ShapeInv' /\ ResourceInv'
    BY <1>1, <2>1 DEF IInv, ShapeInv, ResourceInv
  <2>3. ClusterInv' /\ StepInv'
    BY <1>1, SameSteps, Zenon DEF IInv
  <2>4. OwnerInv'
    BY <1>1, <2>1 DEF IInv, OwnerInv, MadeByOperator, Here
  <2> QED
    BY <2>2, <2>3, <2>4 DEF IInv
<1>3. CASE ~cr.finalizer /\ cr' = NoCR
  <2>1. worker.rest = <<>> /\ ((kind \in Own /\ ~cluster.deleting) => ~MadeByOperator)
    BY <1>3 DEF IInv, ResourceInv, OwnerInv
  <2>2. /\ DOMAIN NoCR = CrFields /\ NoCR.uid = 0 /\ NoCR.existing = "unknown"
    BY DEF NoCR, CrFields
  <2>3. ShapeInv' /\ ResourceInv'
    <3>1. cr'.uid \in Nat
      BY <1>3, <2>2
    <3>2. ShapeInv'
      BY <1>1, <1>3, <2>2, <3>1, Zenon DEF IInv, ShapeInv
    <3>3. ResourceInv'
      BY <1>1, <1>3, <2>1, <2>2, Zenon DEF IInv, ResourceInv
    <3> QED
      BY <3>2, <3>3
  <2>4. ClusterInv' /\ StepInv'
    BY <1>1, SameSteps, Zenon DEF IInv
  <2>5. OwnerInv'
    BY <1>1, <1>3, <2>1, <2>2 DEF OwnerInv, MadeByOperator, Here
  <2> QED
    BY <2>3, <2>4, <2>5 DEF IInv
<1> QED
  BY <1>2, <1>3 DEF DeleteResource

LEMMA SameStep ==
    ASSUME IInv, UNCHANGED <<kind, cr, worker, renamed, cluster, server>>, BoundsKept
    PROVE  IInv'
<1>1. ShapeInv' /\ ResourceInv'
  BY DEF IInv, ShapeInv, ResourceInv, BoundsKept
<1>2. ClusterInv' /\ StepInv'
  BY SameSteps, Zenon DEF IInv
<1>3. OwnerInv'
  BY DEF IInv, OwnerInv, MadeByOperator, Here
<1> QED
  BY <1>1, <1>2, <1>3 DEF IInv

LEMMA EditSecretStep == ASSUME IInv, EditSecret PROVE IInv'
<1>1. UNCHANGED <<kind, cr, worker, renamed, cluster, server>> /\ BoundsKept
  BY EventBounds DEF EditSecret, IInv, BoundFields
<1> QED
  BY <1>1, SameStep

LEMMA InitIInv == Init => IInv
<1> SUFFICES ASSUME Init PROVE IInv
  OBVIOUS
<1>1. /\ kind \in Kinds /\ cr = NoCR /\ renamed = FALSE /\ worker = Idle
      /\ cluster = [uid |-> 1, running |-> FALSE, deleting |-> FALSE]
  BY DEF Init
<1>2. /\ DOMAIN cr = CrFields /\ cr.uid = 0 /\ cr.existing = "unknown"
  BY <1>1, Zenon DEF NoCR, CrFields
<1>3. /\ DOMAIN worker = WorkerFields /\ worker.rest = <<>> /\ worker.cluster.uid = 0
      /\ Linked(kind, worker.rest)
  BY <1>1, IdleFields, NoStepLinked
<1>4. /\ DOMAIN server = Names /\ \A n \in Names : server[n] \in {Absent, OthersObject(0)}
  BY DEF Init, WithOthers
<1>5. \A n \in Names : DOMAIN server[n] = ObjectFields /\ server[n].maker \in {-1, 0}
  BY <1>4, AbsentFields, OthersObjectFields
<1>6. DOMAIN bounds = BoundFields /\ bounds.resources \in Nat /\ bounds.clusters \in Nat \ {0}
  BY DEF Init, BoundFields
<1>7. ShapeInv /\ ResourceInv
  <2>1. cr.uid \in Nat /\ DOMAIN cluster = {"uid", "running", "deleting"}
    BY <1>1, <1>2
  <2>2. ShapeInv
    BY <1>1, <1>2, <1>3, <1>4, <1>5, <1>6, <2>1, Zenon DEF ShapeInv
  <2>3. ResourceInv
    BY <1>1, <1>2, <1>3, Zenon DEF ResourceInv
  <2> QED
    BY <2>2, <2>3
<1>8. ClusterInv /\ StepInv
  <2>1. ClusterInv
    BY <1>1, <1>3 DEF ClusterInv
  <2> QED
    BY <1>3, <2>1, NoSteps, Zenon
<1>9. OwnerInv
  BY <1>2, <1>3, <1>5, NameIsOne DEF OwnerInv, MadeByOperator, Here
<1> QED
  BY <1>7, <1>8, <1>9 DEF IInv

LEMMA NextIInv == IInv /\ [Next]_vars => IInv'
<1> SUFFICES ASSUME IInv, [Next]_vars PROVE IInv'
  OBVIOUS
<1>1. CASE StartReconcile \/ StartDelete
  BY <1>1, StartStep
<1>2. CASE ReconcileStep
  BY <1>2, FetchStep, BindStep, WaitStep, LookStep, RecordStep, CheckNameStep, SecretReadStep, AnnotateStep,
     CompareStep, PutStep, BuildStep, GetStep, CreatePolicyStep, ApplyStep, MarkStep, CheckOwnerStep,
     UpdatePolicyStep, DeferredStep DEF ReconcileStep
<1>3. CASE DeleteStep
  BY <1>3, IfOwnedStep, FetchForDeleteStep, LookForDeleteStep, MatchStep, RemoveStep, FinalizerStep DEF DeleteStep
<1>4. CASE OperatorCrash
  BY <1>4, CrashStep
<1>5. CASE Environment
  BY <1>5, CreateResourceStep, EditResourceStep, DeleteResourceStep, EditSecretStep, OthersCreateStep,
     OthersChangeStep, OthersRemoveStep, ClusterStep, ClusterGoneStep, ClusterCreatedStep DEF Environment
<1>6. CASE UNCHANGED vars
  <2>1. UNCHANGED <<kind, cr, worker, renamed, cluster, server>> /\ BoundsKept
    BY <1>6, Bounded DEF vars, IInv, NoFault
  <2> QED
    BY <2>1, SameStep
<1> QED
  BY <1>1, <1>2, <1>3, <1>4, <1>5, <1>6 DEF Next, Work

LEMMA AlwaysIInv == Spec => []IInv
BY InitIInv, NextIInv, PTL DEF Spec

----------------------------------------------------------------------------
(* What the operator writes, and where. *)

LEMMA OnlyWriters ==
    ASSUME Work \/ OperatorCrash
    PROVE  UNCHANGED server \/ Put \/ CreatePolicy \/ UpdatePolicy \/ Remove
<1>1. StartReconcile \/ StartDelete \/ OperatorCrash => UNCHANGED server
  BY DEF StartReconcile, StartDelete, OperatorCrash
<1>2. ReconcileStep => UNCHANGED server \/ Put \/ CreatePolicy \/ UpdatePolicy
  BY Zenon DEF ReconcileStep, FetchCluster, BindCluster, WaitRunning, LookExisting, RecordExisting, CheckName, ReadSecret,
         AnnotateSecret, Compare, Build, GetPolicy, ApplyToIndices, MarkOwn, CheckOwner, DeferredStatus
<1>3. DeleteStep => UNCHANGED server \/ Remove
  BY DEF DeleteStep, IfOwned, FetchForDelete, LookForDelete, MatchUID, RemoveFinalizer
<1> QED
  BY <1>1, <1>2, <1>3 DEF Work

LEMMA OthersLeaveTheWorker == Environment => UNCHANGED worker
BY Zenon DEF Environment, CreateResource, EditResource, DeleteResource, EditSecret, OthersCreate, OthersChange, OthersRemove,
       ClusterStops, ClusterStarts, ClusterDeleted, ClusterGone, ClusterCreated

LEMMA WriterFacts ==
    ASSUME IInv, Put \/ CreatePolicy \/ UpdatePolicy \/ Remove, server' # server
    PROVE  /\ \E d : server' = [server EXCEPT ![worker.name] = d]
           /\ ~renamed => worker.name = Name /\ server[Name].maker # 0
<1>1. /\ \E d : server' = [server EXCEPT ![worker.name] = d]
      /\ \E s \in {"put", "create", "update", "remove"} : At(s)
  BY Zenon DEF Put, CreatePolicy, UpdatePolicy, Remove
<1>2. /\ Here({"put", "create", "apply", "markOwn", "update", "remove"}) /\ Here(StepsWithName)
  BY <1>1 DEF Here, At, StepsWithName, PolicySteps
<1>3. ~renamed => worker.name = Name /\ server[Name].maker # 0
  BY <1>2 DEF IInv, StepInv
<1> QED
  BY <1>1, <1>3, Zenon

(* Reconcile and Delete never touch an object that others had made before the
   operator looked, whatever fails, restarts or is deleted in between, unless a
   user points the resource at another name. *)
THEOREM ForeignObjectsStay == Spec => NeverTouchesForeign
<1> DEFINE A == worker' # worker /\ ~renamed => \A n \in Names : server[n].maker = 0 => server'[n] = server[n]
<1>1. IInv /\ [Next]_vars => A
  <2> SUFFICES ASSUME IInv, [Next]_vars, worker' # worker, ~renamed, server' # server
               PROVE  \A n \in Names : server[n].maker = 0 => server'[n] = server[n]
    OBVIOUS
  <2>1. Put \/ CreatePolicy \/ UpdatePolicy \/ Remove
    BY OnlyWriters, OthersLeaveTheWorker DEF Next, vars
  <2>2. PICK d : server' = [server EXCEPT ![Name] = d]
    BY <2>1, WriterFacts
  <2>3. server[Name].maker # 0
    BY <2>1, WriterFacts
  <2> QED
    BY <2>2, <2>3 DEF IInv, ShapeInv
<1>2. Spec => [][A]_vars
  BY <1>1, AlwaysIInv, PTL DEF Spec
<1> QED
  BY <1>2 DEF NeverTouchesForeign

----------------------------------------------------------------------------
(* The refinement of ObjectOwnership. *)

Held == cr.uid # 0 /\ cr.name = Name /\ kind \notin Templates \cup Policies
Object == IF kind \in Templates \cup Policies \/ cluster.deleting THEN "none"
          ELSE CASE server[Name].maker \in {-1, Late} -> "none"
                 [] server[Name].maker = 0 -> "others"
                 [] OTHER -> "operator"

LEMMA OwnKinds == ASSUME kind \in Kinds PROVE kind \in Own <=> kind \notin Templates \cup Policies
BY DEF Kinds, Own, Templates, Policies

(* The abstract state, spelled out. *)
AbstractFacts ==
    /\ Held <=> kind \in Own /\ cr.uid # 0
    /\ Object \in {"none", "others", "operator"}
    /\ Object = "operator" <=> kind \in Own /\ ~cluster.deleting /\ MadeByOperator
    /\ Object = "others" <=> kind \in Own /\ ~cluster.deleting /\ server[Name].maker = 0

LEMMA HeldIs == ASSUME IInv PROVE Held <=> kind \in Own /\ cr.uid # 0
BY OwnKinds DEF IInv, ShapeInv, ResourceInv, Held

LEMMA ObjectIs ==
    ASSUME IInv
    PROVE  /\ Object \in {"none", "others", "operator"}
           /\ Object = "operator" <=> kind \in Own /\ ~cluster.deleting /\ MadeByOperator
           /\ Object = "others" <=> kind \in Own /\ ~cluster.deleting /\ server[Name].maker = 0
<1>1. kind \in Own <=> kind \notin Templates \cup Policies
  BY OwnKinds DEF IInv, ShapeInv
<1>2. CASE kind \notin Own \/ cluster.deleting
  BY <1>1, <1>2 DEF Object
<1>3. CASE kind \in Own /\ ~cluster.deleting
  <2>1. CASE server[Name].maker \in {-1, Late}
    BY <1>1, <1>3, <2>1 DEF Object, MadeByOperator, Late
  <2>2. CASE server[Name].maker = 0
    BY <1>1, <1>3, <2>2 DEF Object, MadeByOperator, Late
  <2>3. CASE server[Name].maker \notin {-1, Late, 0}
    BY <1>1, <1>3, <2>3 DEF Object, MadeByOperator, Late
  <2> QED
    BY <2>1, <2>2, <2>3
<1> QED
  BY <1>2, <1>3

LEMMA AbstractIs == IInv => AbstractFacts
BY HeldIs, ObjectIs DEF AbstractFacts

LEMMA AbstractIsNext == IInv' => AbstractFacts'
BY AbstractIs, PTL

(* What ObjectOwnership lets happen, in terms of the abstract state. *)
Allowed ==
    \/ Held' = Held /\ Object' = Object
    \/ ~Held /\ Held' /\ Object' = Object /\ worker' = worker
    \/ Held /\ Object # "operator" /\ ~Held' /\ Object' = Object
    \/ Held /\ Object # "others" /\ Object' = "operator" /\ worker' # worker /\ Held' = Held
    \/ Held /\ Object = "operator" /\ Object' = "none" /\ worker' # worker /\ Held' = Held
    \/ Object = "none" /\ Object' = "others" /\ Held' = Held /\ worker' = worker
    \/ Object' = "none" /\ Held' = Held /\ worker' = worker

LEMMA AllowedSteps == ASSUME Allowed PROVE [Ownership!Next]_(Ownership!vars)
<1>1. CASE Held' = Held /\ Object' = Object /\ worker' = worker
  BY <1>1 DEF Ownership!vars, Held, Object
<1>2. CASE Held' = Held /\ Object' = Object /\ worker' # worker
  <2>1. Ownership!Think
    BY <1>2 DEF Ownership!Think, Held, Object
  <2> QED
    BY <2>1 DEF Ownership!Next
<1>3. CASE ~Held /\ Held' /\ Object' = Object /\ worker' = worker
  <2>1. Ownership!Create
    BY <1>3 DEF Ownership!Create, Held, Object
  <2> QED
    BY <2>1 DEF Ownership!Next
<1>4. CASE Held /\ Object # "operator" /\ ~Held' /\ Object' = Object
  <2>1. Ownership!Forget
    BY <1>4 DEF Ownership!Forget, Held, Object
  <2> QED
    BY <2>1 DEF Ownership!Next
<1>5. CASE Held /\ Object # "others" /\ Object' = "operator" /\ worker' # worker /\ Held' = Held
  <2>1. Ownership!Put
    BY <1>5 DEF Ownership!Put, Held, Object
  <2> QED
    BY <2>1 DEF Ownership!Next
<1>6. CASE Held /\ Object = "operator" /\ Object' = "none" /\ worker' # worker /\ Held' = Held
  <2>1. Ownership!Remove
    BY <1>6 DEF Ownership!Remove, Held, Object
  <2> QED
    BY <2>1 DEF Ownership!Next
<1>7. CASE Object = "none" /\ Object' = "others" /\ Held' = Held /\ worker' = worker
  <2>1. Ownership!Appear
    BY <1>7 DEF Ownership!Appear, Held, Object
  <2> QED
    BY <2>1 DEF Ownership!Next
<1>8. CASE Object' = "none" /\ Held' = Held /\ worker' = worker
  <2>1. Ownership!Lose
    BY <1>8 DEF Ownership!Lose, Held, Object
  <2> QED
    BY <2>1 DEF Ownership!Next
<1> QED
  BY <1>1, <1>2, <1>3, <1>4, <1>5, <1>6, <1>7, <1>8 DEF Allowed

(* The steps of the operator that neither write to OpenSearch nor let the resource go. *)
LEMMA ThinkSteps ==
    ASSUME IInv, Work \/ OperatorCrash
    PROVE  \/ UNCHANGED <<kind, cluster, server>> /\ cr'.uid = cr.uid
           \/ Put \/ CreatePolicy \/ UpdatePolicy \/ Remove \/ RemoveFinalizer
<1>1. StartReconcile \/ StartDelete \/ OperatorCrash => UNCHANGED <<kind, cluster, server>> /\ cr'.uid = cr.uid
  BY DEF StartReconcile, StartDelete, OperatorCrash, Others, IInv, ShapeInv, CrFields
<1>2. FetchCluster \/ WaitRunning \/ LookExisting \/ CheckName \/ ReadSecret \/ AnnotateSecret \/ Compare \/ Build
      \/ GetPolicy \/ ApplyToIndices => UNCHANGED <<kind, cluster, server, cr>>
  BY Zenon DEF FetchCluster, WaitRunning, LookExisting, CheckName, ReadSecret, AnnotateSecret, Compare, Build, GetPolicy,
         ApplyToIndices, Others
<1>3. IfOwned \/ FetchForDelete \/ LookForDelete \/ MatchUID => UNCHANGED <<kind, cluster, server, cr>>
  BY DEF IfOwned, FetchForDelete, LookForDelete, MatchUID, Others
<1>4. BindCluster \/ RecordExisting \/ MarkOwn \/ CheckOwner \/ DeferredStatus => UNCHANGED <<kind, cluster, server>>
  BY DEF BindCluster, RecordExisting, MarkOwn, CheckOwner, DeferredStatus, Others
<1>5. BindCluster \/ RecordExisting \/ MarkOwn \/ CheckOwner \/ DeferredStatus => cr'.uid = cr.uid
  <2>1. \A v, w : UpdateStatus([cr EXCEPT !.managed = v], w) => cr'.uid = cr.uid
    BY DEF UpdateStatus, IInv, ShapeInv, CrFields
  <2>2. \A v, w : UpdateStatus([cr EXCEPT !.existing = v], w) => cr'.uid = cr.uid
    BY DEF UpdateStatus, IInv, ShapeInv, CrFields
  <2>3. BindCluster => cr'.uid = cr.uid
    BY <2>1 DEF BindCluster
  <2>4. RecordExisting \/ MarkOwn \/ CheckOwner => cr'.uid = cr.uid
    BY <2>2 DEF RecordExisting, MarkOwn, CheckOwner
  <2>5. DeferredStatus => cr'.uid = cr.uid
    BY Zenon DEF DeferredStatus, IInv, ShapeInv, CrFields
  <2> QED
    BY <2>3, <2>4, <2>5
<1> QED
  BY <1>1, <1>2, <1>3, <1>4, <1>5 DEF Work, ReconcileStep, DeleteStep

(* The operator writes to OpenSearch, or lets the resource go. *)
LEMMA WriteAllowed ==
    ASSUME IInv, IInv', Put \/ CreatePolicy \/ UpdatePolicy \/ Remove \/ RemoveFinalizer
    PROVE  Allowed
<1>1. kind' = kind /\ cluster' = cluster
  BY Zenon DEF Put, CreatePolicy, UpdatePolicy, Remove, RemoveFinalizer, Others
<1>2. CASE kind \notin Own
  <2>1. ~Held /\ ~Held' /\ Object = "none" /\ Object' = "none"
    BY <1>1, <1>2, HeldIs, ObjectIs, OwnKinds DEF IInv, ShapeInv, Held, Object
  <2> QED
    BY <2>1 DEF Allowed, Held
<1>3. CASE kind \in Own /\ RemoveFinalizer
  <2>1. cr.uid # 0 /\ server' = server /\ cr' \in {cr, NoCR} /\ NoCR.uid = 0
    BY <1>3, Zenon DEF RemoveFinalizer, At, IInv, ResourceInv, NoCR
  <2>2. Object' = Object
    BY <1>1, <2>1 DEF Object
  <2>3. Object # "operator"
    BY <1>3, ObjectIs, Zenon DEF RemoveFinalizer, At, Here, IInv, OwnerInv
  <2>4. Held /\ (Held' <=> cr'.uid # 0) /\ (cr' = cr => Held' = Held)
    BY <1>1, <1>3, <2>1, HeldIs DEF Held
  <2> QED
    BY <2>1, <2>2, <2>3, <2>4, Zenon DEF Allowed
<1>4. CASE kind \in Own /\ ~RemoveFinalizer
  <2>1. Put \/ Remove
    BY <1>4, Zenon DEF CreatePolicy, UpdatePolicy, IInv, StepInv, At, Here, PolicySteps, Own, Policies
  <2>2. cr.uid # 0 /\ cr' = cr /\ worker.name = Name /\ server[Name].maker # 0 /\ worker.inst.uid = cr.uid
    BY <1>4, <2>1 DEF Put, Remove, IInv, ResourceInv, StepInv, At, Here, StepsWithName
  <2>3. Held /\ Held' = Held
    BY <1>1, <1>4, <2>2, HeldIs DEF Held
  <2>4. CASE server' = server
    <3>1. Object' = Object
      BY <1>1, <2>4 DEF Object
    <3> QED
      BY <2>3, <3>1 DEF Allowed
  <2>5. CASE cluster.deleting
    <3>1. Object = "none" /\ Object' = "none"
      BY <1>1, <2>5 DEF Object
    <3> QED
      BY <2>3, <3>1 DEF Allowed
  <2>6. CASE ~cluster.deleting /\ server' # server /\ Put
    <3>1. server' = [server EXCEPT ![Name] = Document] /\ \E r : worker' = Finish(worker, r)
      BY <2>2, <2>6 DEF Put
    <3>2. server'[Name].maker = cr.uid
      BY <2>2, <3>1, NameIsOne, Zenon DEF Document, IInv, ShapeInv
    <3>3. cr.uid \in Nat
      BY DEF IInv, ShapeInv
    <3>4. MadeByOperator'
      BY <2>2, <3>2, <3>3 DEF MadeByOperator, Late
    <3>5. Object' = "operator"
      BY <1>1, <1>4, <2>6, <3>4, AbstractIsNext DEF AbstractFacts
    <3>6. Object # "others"
      BY <2>2, ObjectIs
    <3>7. worker' # worker
      <4>1. worker'.rest = <<"status">>
        BY <3>1, FinishFields DEF IInv, ShapeInv
      <4>2. Head(worker'.rest) = "status"
        BY <4>1
      <4> QED
        BY <2>6, <4>2 DEF Put, At
    <3> QED
      BY <2>3, <3>5, <3>6, <3>7 DEF Allowed
  <2>7. CASE ~cluster.deleting /\ server' # server /\ Remove
    <3>1. server' = [server EXCEPT ![Name] = Absent]
      BY <2>2, <2>7 DEF Remove
    <3>2. server'[Name].maker = -1
      BY <3>1, NameIsOne, AbsentFields DEF IInv, ShapeInv
    <3>3. Object' = "none"
      BY <3>2, AbstractIsNext DEF AbstractFacts, MadeByOperator
    <3>4. Object # "others"
      BY <2>2, ObjectIs
    <3>5. worker' # worker
      <4>1. worker.rest # <<>> /\ Head(worker.rest) = "remove" /\ (Tail(worker.rest) # <<>> => Head(Tail(worker.rest)) = "release")
        BY <2>7, NextStep DEF Remove, At, IInv, Follows
      <4>2. worker'.rest = <<>> \/ worker'.rest = Tail(worker.rest)
        BY <2>7, IdleFields, ProceedFields, Zenon DEF Remove, DeleteFails, IInv, ShapeInv
      <4> QED
        BY <4>1, <4>2, Zenon
    <3>6. Object \in {"none", "operator"}
      BY <3>4, ObjectIs
    <3> QED
      BY <2>3, <3>3, <3>5, <3>6 DEF Allowed
  <2> QED
    BY <2>1, <2>4, <2>5, <2>6, <2>7
<1> QED
  BY <1>2, <1>3, <1>4

(* What happens to the objects that is not the operator's doing. *)
LEMMA OutsideAllowed ==
    ASSUME IInv, IInv', Environment
    PROVE  Allowed
<1>1. kind' = kind /\ worker' = worker
  BY Zenon DEF Environment, CreateResource, EditResource, DeleteResource, EditSecret, OthersCreate, OthersChange, OthersRemove,
         ClusterStops, ClusterStarts, ClusterDeleted, ClusterGone, ClusterCreated, Others
<1>2. CASE cr'.uid = cr.uid /\ (Object' \in {Object, "none"} \/ (Object = "none" /\ Object' = "others"))
  <2>1. Held' = Held
    BY <1>1, <1>2, HeldIs, AbstractIsNext DEF AbstractFacts, Held
  <2> QED
    BY <1>1, <1>2, <2>1 DEF Allowed
<1>3. CASE CreateResource
  <2>1. cr.uid = 0 /\ server' = server /\ cluster' = cluster
    BY <1>3, Zenon DEF CreateResource, Others, NoCR
  <2>2. Object' = Object
    BY <1>1, <2>1 DEF Object
  <2>3. ~Held
    BY <2>1 DEF Held
  <2> QED
    BY <1>1, <2>2, <2>3 DEF Allowed, Held
<1>4. CASE DeleteResource
  <2>1. server' = server /\ cluster' = cluster /\ cr # NoCR
    BY <1>4 DEF DeleteResource, Others
  <2>2. Object' = Object
    BY <1>1, <2>1 DEF Object
  <2>3. CASE cr.finalizer
    BY <1>2, <1>4, <2>2, <2>3 DEF DeleteResource, IInv, ShapeInv, CrFields
  <2>4. CASE ~cr.finalizer
    <3>1. cr' = NoCR /\ NoCR.uid = 0
      BY <1>4, <2>4, Zenon DEF DeleteResource, NoCR
    <3>2. ~Held'
      BY <3>1 DEF Held
    <3>3. Object # "operator"
      BY <2>4, ObjectIs, Zenon DEF IInv, OwnerInv
    <3> QED
      BY <2>2, <3>2, <3>3 DEF Allowed, Held
  <2> QED
    BY <2>3, <2>4
<1>5. CASE EditResource \/ EditSecret \/ ClusterStops \/ ClusterStarts
  <2>1. server' = server /\ cr'.uid = cr.uid /\ cluster'.deleting = cluster.deleting
    BY <1>5, Zenon DEF EditResource, EditSecret, ClusterStops, ClusterStarts, IInv, ShapeInv, CrFields
  <2>2. Object' = Object
    BY <1>1, <2>1 DEF Object
  <2> QED
    BY <1>2, <2>1, <2>2
<1>6. CASE ClusterDeleted \/ ClusterGone \/ OthersRemove
  <2>1. cr' = cr /\ (cluster'.deleting \/ server'[Name].maker = -1 \/ (server'[Name] = server[Name] /\ cluster' = cluster))
    BY <1>6, NameIsOne, AbsentFields DEF ClusterDeleted, ClusterGone, OthersRemove, Others, IInv, ShapeInv
  <2>2. Object' \in {Object, "none"}
    <3>1. CASE cluster'.deleting \/ server'[Name].maker = -1
      BY <3>1, AbstractIsNext DEF AbstractFacts, MadeByOperator
    <3>2. CASE server'[Name] = server[Name] /\ cluster' = cluster
      BY <1>1, <3>2 DEF Object
    <3> QED
      BY <2>1, <3>1, <3>2
  <2> QED
    BY <1>2, <2>1, <2>2
<1>7. CASE OthersChange
  <2>1. cr' = cr /\ cluster' = cluster /\ server'[Name].maker = server[Name].maker
    BY <1>7, NameIsOne DEF OthersChange, Others, IInv, ShapeInv, ObjectFields
  <2>2. Object' = Object
    BY <1>1, <2>1 DEF Object
  <2> QED
    BY <1>2, <2>1, <2>2
<1>8. CASE OthersCreate \/ ClusterCreated
  <2>1. /\ cr' = cr
        /\ \/ server'[Name] = server[Name] /\ cluster' = cluster
           \/ server[Name] = Absent /\ server'[Name] \in {Absent, OthersObject(OthersMaker)}
    BY <1>8, NameIsOne, Zenon DEF OthersCreate, ClusterCreated, WithOthers, Others, IInv, ShapeInv, ClusterInv
  <2>2. CASE server'[Name] = server[Name] /\ cluster' = cluster
    <3>1. Object' = Object
      BY <1>1, <2>2 DEF Object
    <3> QED
      BY <1>2, <2>1, <3>1
  <2>3. CASE server[Name] = Absent /\ server'[Name] \in {Absent, OthersObject(OthersMaker)}
    <3>1. server[Name].maker = -1 /\ server'[Name].maker \in {-1, Late, 0}
      BY <2>3, AbsentFields, OthersObjectFields, OthersAreLate
    <3>2. Object = "none"
      BY <3>1, ObjectIs DEF MadeByOperator
    <3>3. Object' \in {"none", "others"}
      BY <3>1, AbstractIsNext DEF AbstractFacts, MadeByOperator
    <3> QED
      BY <1>2, <2>1, <3>2, <3>3
  <2> QED
    BY <2>1, <2>2, <2>3
<1> QED
  BY <1>3, <1>4, <1>5, <1>6, <1>7, <1>8 DEF Environment

LEMMA StepsAllowed == ASSUME IInv, IInv', [Next]_vars PROVE Allowed
<1>1. ASSUME UNCHANGED <<kind, cluster, server>>, cr'.uid = cr.uid PROVE Allowed
  <2>1. Object' = Object
    BY <1>1 DEF Object
  <2>2. Held' = Held
    BY <1>1, HeldIs, AbstractIsNext DEF AbstractFacts, Held
  <2> QED
    BY <2>1, <2>2 DEF Allowed
<1>2. CASE Work \/ OperatorCrash
  BY <1>1, <1>2, ThinkSteps, WriteAllowed
<1>3. CASE Environment
  BY <1>3, OutsideAllowed
<1>4. CASE UNCHANGED vars
  BY <1>1, <1>4 DEF vars
<1> QED
  BY <1>2, <1>3, <1>4 DEF Next

(* The objects of roles, tenants, action groups and users are used the way
   ObjectOwnership says: the operator takes a name only when it is free, deletes
   only what it made, and leaves nothing behind. *)
THEOREM ObjectsAreOwned == Spec => OwnsByTheRules
<1>1. Init => Ownership!Init
  <2> SUFFICES ASSUME Init PROVE Ownership!Init
    OBVIOUS
  <2>1. IInv
    BY InitIInv
  <2>2. cr.uid = 0
    BY Zenon DEF Init, NoCR
  <2>3. server[Name] \in {Absent, OthersObject(0)}
    BY NameIsOne DEF Init, WithOthers
  <2>4. server[Name].maker \in {-1, 0}
    BY <2>3, AbsentFields, OthersObjectFields
  <2>5. Object \in {"none", "others"}
    BY <2>1, <2>4, ObjectIs DEF MadeByOperator
  <2> QED
    BY <2>2, <2>5 DEF Ownership!Init, Object
<1>2. IInv /\ IInv' /\ [Next]_vars => [Ownership!Next]_(Ownership!vars)
  BY StepsAllowed, AllowedSteps
<1> QED
  BY <1>1, <1>2, AlwaysIInv, PTL DEF Spec, OwnsByTheRules, Ownership!Spec
==============================================================================
