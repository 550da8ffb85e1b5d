--------------------------- MODULE UserRoleBinding ---------------------------
(***************************************************************************)
(* OpensearchUserRoleBinding: bindings that grant roles to subjects (users *)
(* and backend roles) through the role mappings of OpenSearch, which they  *)
(* share with each other and with whoever edits mappings by other means    *)
(* (pkg/reconcilers/userrolebinding.go, its controller and webhook).       *)
(*                                                                         *)
(* A mapping is the set of its subjects; an empty one does not exist.      *)
(* Users, backend roles and hosts are all subjects: the code treats the    *)
(* lists alike.  The roles of a binding are visited in any order.          *)
(***************************************************************************)
EXTENDS Integers, FiniteSets

CONSTANTS
    Bindings,   \* names of custom resources
    Roles,      \* names of roles
    Subjects,   \* users and backend roles that bindings may name
    Specs,      \* what users may write into a binding: sets of [roles, subjects]
    Foreign,    \* subjects that only others put into mappings
    MaxEdits,   \* bound on what users do to bindings after they have created them
    MaxTroubles \* bound on failed calls, crashes of the operator, outages and losses of the
                \* cluster, and edits of mappings by others, all together

VARIABLES
    binding,   \* binding -> the custom resource
    mapping,   \* role -> subjects, the role mappings inside OpenSearch
    cluster,   \* the OpenSearchCluster: [uid, running, deleting]; uid is 0 when there is none
    worker,    \* the pass in progress: one at a time for all bindings
    orderly,   \* did users edit and delete only bindings that were fully provisioned?
    bounds     \* counters: [edits, events, faults]

vars == <<binding, mapping, cluster, worker, orderly, bounds>>

ASSUME BindingAssumption ==
    /\ Bindings # {} /\ Roles # {} /\ Subjects # {} /\ Subjects \cap Foreign = {}
    /\ Specs # {} /\ Specs \subseteq [roles : SUBSET Roles, subjects : SUBSET Subjects]
    /\ MaxEdits \in Nat /\ MaxTroubles \in Nat

NoSpec == [roles |-> {}, subjects |-> {}]
NoBinding == [exists |-> FALSE, spec |-> NoSpec, provisioned |-> NoSpec, managed |-> 0,
              finalizer |-> FALSE, deleting |-> FALSE, state |-> ""]
NoCluster == [uid |-> 0, running |-> FALSE, deleting |-> FALSE]
NoOne == "none"
Idle == [at |-> "idle", on |-> NoOne, inst |-> NoBinding, cluster |-> NoCluster,
         remove |-> {}, add |-> {}, role |-> NoOne, seen |-> {}, result |-> "none"]

BindingStates == [exists : BOOLEAN, spec : Specs \cup {NoSpec}, provisioned : Specs \cup {NoSpec},
                  managed : 0..MaxTroubles + 1, finalizer : BOOLEAN, deleting : BOOLEAN,
                  state : {"", "error", "pending", "created"}]

TypeOK ==
    /\ binding \in [Bindings -> BindingStates] /\ orderly \in BOOLEAN
    /\ mapping \in [Roles -> SUBSET (Subjects \cup Foreign)]
    /\ cluster \in [uid : 0..MaxTroubles + 1, running : BOOLEAN, deleting : BOOLEAN]
    /\ worker.at \in {"idle", "fetch", "bind", "wait", "roles", "write", "status",
                      "deleteFetch", "deleteRoles", "deleteWrite", "release"}
    /\ worker.on \in Bindings \cup {NoOne} /\ worker.inst \in BindingStates
    /\ worker.remove \subseteq Roles /\ worker.add \subseteq Roles
    /\ worker.role \in Roles \cup {NoOne} /\ worker.seen \subseteq Subjects \cup Foreign
    /\ worker.result \in {"none", "error", "wait", "success"}
    /\ bounds \in [edits : 0..MaxEdits, events : 0..MaxTroubles, faults : 0..MaxTroubles]

\* Others have put their subjects into one mapping.
Init ==
    /\ binding = [b \in Bindings |-> NoBinding]
    /\ mapping = [r \in Roles |-> IF r = CHOOSE q \in Roles : TRUE THEN Foreign ELSE {}]
    /\ cluster = [NoCluster EXCEPT !.uid = 1]
    /\ worker = Idle /\ orderly = TRUE
    /\ bounds = [edits |-> 0, events |-> 0, faults |-> 0]
-----------------------------------------------------------------------------
Trouble(what) ==
    bounds.events + bounds.faults < MaxTroubles /\ bounds' = [bounds EXCEPT ![what] = @ + 1]
Event == Trouble("events")
Fault == Trouble("faults")
NoFault == UNCHANGED bounds

On == worker.on
Finish(result) == worker' = [Idle EXCEPT !.at = "status", !.on = On, !.result = result]
Reachable == cluster.uid # 0 /\ cluster.running
CallFails == IF Reachable THEN Fault ELSE NoFault

\* UdateObjectStatus reads the binding again, also for the rest of the pass.
UpdateStatus(new, next) ==
    \/ /\ binding' = [binding EXCEPT ![On] = new]
       /\ \/ worker' = [next EXCEPT !.inst = new] /\ NoFault
          \/ Finish("error") /\ Fault
    \/ Finish("error") /\ Fault /\ UNCHANGED binding
-----------------------------------------------------------------------------
(* Reconcile *)

StartPass(b) ==
    /\ worker = Idle /\ binding[b].exists
    /\ IF binding[b].deleting
       THEN /\ worker' = [Idle EXCEPT !.at = "deleteFetch", !.on = b, !.inst = binding[b]]
            /\ UNCHANGED <<binding, bounds>>
       ELSE /\ binding' = [binding EXCEPT ![b].finalizer = TRUE]
            /\ \/ worker' = [Idle EXCEPT !.at = "fetch", !.on = b, !.inst = binding'[b]] /\ NoFault
               \/ UNCHANGED worker /\ Fault
    /\ UNCHANGED <<mapping, cluster, orderly>>

FetchCluster ==
    /\ worker.at = "fetch"
    /\ \/ cluster.uid = 0 /\ Finish("wait") /\ NoFault
       \/ cluster.uid # 0 /\ worker' = [worker EXCEPT !.at = "bind", !.cluster = cluster] /\ NoFault
       \/ Finish("error") /\ Fault
    /\ UNCHANGED <<binding, mapping, cluster, orderly>>

BindCluster ==
    /\ worker.at = "bind"
    /\ LET managed == worker.inst.managed
           next == [worker EXCEPT !.at = "wait"]
       IN  CASE managed = 0 ->
                  UpdateStatus([binding[On] EXCEPT !.managed = worker.cluster.uid], next)
             [] managed = worker.cluster.uid -> worker' = next /\ NoFault /\ UNCHANGED binding
             [] OTHER -> Finish("error") /\ NoFault /\ UNCHANGED binding
    /\ UNCHANGED <<mapping, cluster, orderly>>

CalculateRemovedRoles(inst) == inst.provisioned.roles \ inst.spec.roles

\* The phase is that of the cluster as it was fetched; then the client is made.
WaitRunning ==
    /\ worker.at = "wait"
    /\ \/ ~worker.cluster.running /\ Finish("wait") /\ NoFault
       \/ /\ worker.cluster.running /\ NoFault
          /\ worker' = [worker EXCEPT !.at = "roles", !.add = worker.inst.spec.roles,
                                      !.remove = CalculateRemovedRoles(worker.inst)]
       \/ worker.cluster.running /\ Finish("error") /\ Fault
    /\ UNCHANGED <<binding, mapping, cluster, orderly>>

\* RoleMappingExists and FetchExistingRoleMapping: first of the roles that were taken out of
\* the binding, then of those in it.
ReadMapping ==
    /\ worker.at = "roles" /\ worker.remove \cup worker.add # {}
    /\ \/ /\ Reachable /\ NoFault
          /\ \E r \in IF worker.remove # {} THEN worker.remove ELSE worker.add :
               worker' = [worker EXCEPT !.at = "write", !.role = r, !.seen = mapping[r]]
       \/ Finish("error") /\ CallFails
    /\ UNCHANGED <<binding, mapping, cluster, orderly>>

RemoveObjectsFromMapping(inst, seen) == seen \ inst.provisioned.subjects

\* Mutant of ReconcileExistingMapping: the mapping is replaced.
ReplaceExistingMapping(inst, seen) == inst.spec.subjects

\* Mutant of ReconcileExistingMapping: nothing is taken out.
ExtendExistingMapping(inst, seen) == seen \cup inst.spec.subjects

\* reconcileExistingMapping; a mapping that does not exist has no subjects.
ReconcileExistingMapping(inst, seen) ==
    (seen \ (inst.provisioned.subjects \ inst.spec.subjects)) \cup (inst.spec.subjects \ seen)

\* CreateOrUpdateRoleMapping or DeleteRoleMapping, from what was read before: the pass goes on
\* with done, or it fails.  Nothing is written when nothing changes; but removeObjectsFromMapping
\* writes a mapping back unchanged when its users or its backend roles are none.
SaveMapping(new, removing, done, Fail) ==
    \/ new = worker.seen /\ worker' = done /\ NoFault /\ UNCHANGED mapping
    \/ /\ new # worker.seen \/ (removing /\ worker.seen # {})
       /\ \/ /\ Reachable /\ mapping' = [mapping EXCEPT ![worker.role] = new]
             /\ (worker' = done /\ NoFault) \/ (Fail /\ Fault)
          \/ Fail /\ CallFails /\ UNCHANGED mapping

WriteMapping ==
    /\ worker.at = "write"
    /\ LET removing == worker.role \in worker.remove
           new == IF removing THEN RemoveObjectsFromMapping(worker.inst, worker.seen)
                  ELSE ReconcileExistingMapping(worker.inst, worker.seen)
           done == [worker EXCEPT !.at = "roles", !.role = NoOne, !.seen = {},
                                  !.remove = @ \ {worker.role},
                                  !.add = IF removing THEN @ ELSE @ \ {worker.role}]
       IN  SaveMapping(new, removing, done, Finish("error"))
    /\ UNCHANGED <<binding, cluster, orderly>>

Succeed ==
    /\ worker.at = "roles" /\ worker.remove \cup worker.add = {}
    /\ Finish("success")
    /\ UNCHANGED <<binding, mapping, cluster, orderly, bounds>>

\* The deferred update: what is recorded as provisioned is the spec as it is now.
DeferredStatus ==
    /\ worker.at = "status" /\ worker' = Idle
    /\ \/ /\ NoFault
          /\ binding' = [binding EXCEPT
               ![On].provisioned = IF worker.result = "success" THEN binding[On].spec ELSE @,
               ![On].state = CASE worker.result = "success" -> "created"
                               [] worker.result = "wait" -> "pending"
                               [] worker.result = "error" -> "error"]
       \/ Fault /\ UNCHANGED binding
    /\ UNCHANGED <<mapping, cluster, orderly>>
-----------------------------------------------------------------------------
(* Delete: what was provisioned is taken out of the mappings *)

DeleteFetch ==
    /\ worker.at = "deleteFetch"
    /\ \/ /\ cluster.uid = 0 \/ cluster.deleting
          /\ worker' = [worker EXCEPT !.at = "release"] /\ NoFault
       \/ /\ cluster.uid # 0 /\ ~cluster.deleting /\ NoFault
          /\ worker' = [worker EXCEPT !.at = "deleteRoles",
                                      !.remove = worker.inst.provisioned.roles]
       \/ worker' = Idle /\ Fault
    /\ UNCHANGED <<binding, mapping, cluster, orderly>>

DeleteRead ==
    /\ worker.at = "deleteRoles"
    /\ \/ worker.remove = {} /\ worker' = [worker EXCEPT !.at = "release"] /\ NoFault
       \/ /\ worker.remove # {} /\ Reachable /\ NoFault
          /\ \E r \in worker.remove :
               worker' = [worker EXCEPT !.at = "deleteWrite", !.role = r, !.seen = mapping[r]]
       \/ worker.remove # {} /\ worker' = Idle /\ CallFails
    /\ UNCHANGED <<binding, mapping, cluster, orderly>>

DeleteWrite ==
    /\ worker.at = "deleteWrite"
    /\ LET new == RemoveObjectsFromMapping(worker.inst, worker.seen)
           done == [worker EXCEPT !.at = "deleteRoles", !.role = NoOne, !.seen = {},
                                  !.remove = @ \ {worker.role}]
       IN  SaveMapping(new, TRUE, done, worker' = Idle)
    /\ UNCHANGED <<binding, cluster, orderly>>

\* The finalizer is removed, unless the binding was edited since the pass began.
RemoveFinalizer ==
    /\ worker.at = "release" /\ worker' = Idle
    /\ \/ /\ NoFault
          /\ binding' = IF binding[On] = worker.inst THEN [binding EXCEPT ![On] = NoBinding]
                        ELSE binding
       \/ Fault /\ UNCHANGED binding
    /\ UNCHANGED <<mapping, cluster, orderly>>

OperatorCrash ==
    /\ worker # Idle /\ worker' = Idle /\ Fault
    /\ UNCHANGED <<binding, mapping, cluster, orderly>>
-----------------------------------------------------------------------------
(* Users, the cluster, and others who edit mappings *)

\* The webhook: the cluster exists, there are roles, and there are subjects.
Admits(old, new) ==
    /\ ~old.exists => cluster.uid # 0
    /\ new.spec.roles # {} /\ new.spec.subjects # {}

CreateBinding(b) ==
    /\ binding[b] = NoBinding /\ worker.on # b
    /\ \E s \in Specs :
         binding' = [binding EXCEPT ![b].exists = TRUE, ![b].spec = s]
    /\ Admits(binding[b], binding'[b])
    /\ UNCHANGED <<mapping, cluster, worker, orderly, bounds>>

\* Is what the binding says, and nothing else, on record, with no pass for it in progress?
Settled(b) == binding[b].provisioned = binding[b].spec /\ worker.on # b

Edit(b) ==
    /\ bounds.edits < MaxEdits /\ bounds' = [bounds EXCEPT !.edits = @ + 1]
    /\ binding[b].exists /\ orderly' = (orderly /\ Settled(b))

EditBinding(b) ==
    /\ Edit(b)
    /\ \E s \in Specs :
         s # binding[b].spec /\ binding' = [binding EXCEPT ![b].spec = s]
    /\ Admits(binding[b], binding'[b])
    /\ UNCHANGED <<mapping, cluster, worker>>

DeleteBinding(b) ==
    /\ Edit(b) /\ ~binding[b].deleting
    /\ binding' = [binding EXCEPT ![b] = IF @.finalizer THEN [@ EXCEPT !.deleting = TRUE]
                                         ELSE NoBinding]
    /\ UNCHANGED <<mapping, cluster, worker>>

OthersEdit ==
    /\ Event /\ Reachable
    /\ \E r \in Roles, s \in SUBSET Foreign :
         mapping' = [mapping EXCEPT ![r] = (@ \ Foreign) \cup s]
    /\ mapping' # mapping
    /\ UNCHANGED <<binding, cluster, worker, orderly>>

ClusterStops ==
    /\ Reachable /\ Event
    /\ cluster' = [cluster EXCEPT !.running = FALSE]
    /\ UNCHANGED <<binding, mapping, worker, orderly>>

ClusterStarts ==
    /\ cluster.uid # 0 /\ ~cluster.running
    /\ cluster' = [cluster EXCEPT !.running = TRUE]
    /\ UNCHANGED <<binding, mapping, worker, orderly, bounds>>

ClusterDeleted ==
    /\ cluster.uid # 0 /\ ~cluster.deleting /\ Event
    /\ cluster' = [cluster EXCEPT !.deleting = TRUE]
    /\ UNCHANGED <<binding, mapping, worker, orderly>>

ClusterGone ==
    /\ cluster.deleting
    /\ cluster' = NoCluster /\ mapping' = [r \in Roles |-> {}]
    /\ UNCHANGED <<binding, worker, orderly, bounds>>

ClusterCreated ==
    /\ cluster.uid = 0
    /\ cluster' = [NoCluster EXCEPT !.uid = bounds.events + 1]
    /\ UNCHANGED <<binding, mapping, worker, orderly, bounds>>
-----------------------------------------------------------------------------
Step ==
    \/ FetchCluster \/ BindCluster \/ WaitRunning \/ ReadMapping \/ WriteMapping \/ Succeed
    \/ DeferredStatus \/ DeleteFetch \/ DeleteRead \/ DeleteWrite \/ RemoveFinalizer

Next ==
    \/ Step \/ OperatorCrash \/ OthersEdit
    \/ ClusterStops \/ ClusterStarts \/ ClusterDeleted \/ ClusterGone \/ ClusterCreated
    \/ \E b \in Bindings : StartPass(b) \/ CreateBinding(b) \/ EditBinding(b) \/ DeleteBinding(b)

\* Every binding comes back after 30 seconds, or sooner; the queue is served in turn.
Spec ==
    /\ Init /\ [][Next]_vars
    /\ WF_vars(Step) /\ WF_vars(ClusterStarts)
    /\ \A b \in Bindings : SF_vars(StartPass(b))
-----------------------------------------------------------------------------
(* Properties *)

Live(b) == binding[b].exists /\ ~binding[b].deleting
Granted(r) == UNION {binding[b].spec.subjects : b \in {c \in Bindings :
                                                  Live(c) /\ r \in binding[c].spec.roles}}

\* A cluster that all bindings are bound to can be reached, and stays.
Usable == Reachable /\ ~cluster.deleting /\ \A b \in Bindings : binding[b].managed \in {0, cluster.uid}

\* "Each user in the binding will be granted each role" (userguide): in the end every mapping
\* holds every subject of every binding, also when another binding took it out.
GrantsHold == <>[]Usable => <>[](\A r \in Roles : Granted(r) \subseteq mapping[r])

\* In the end the mappings hold no other subject that bindings manage, provided that users
\* edited and deleted bindings only while their Status.Provisioned* was up to date.
RevokedSubjectsLeave ==
    <>[]Usable /\ []orderly => <>[](\A r \in Roles : mapping[r] \cap Subjects \subseteq Granted(r))

\* The operator takes no subject out of a mapping that no binding ever named, except one that
\* others put there between the operator's read and its write.
KeepsOthersSubjects ==
    [][worker' # worker =>
         \A r \in Roles : (mapping[r] \cap Foreign) \ mapping'[r]
                           \subseteq (IF r = worker.role THEN mapping[r] \ worker.seen ELSE {})]_vars
=============================================================================
