---------------------------- MODULE ManagedObject ----------------------------
(***************************************************************************)
(* The custom resources that describe one object inside OpenSearch: roles, *)
(* tenants, action groups, users, index and component templates, ISM and   *)
(* snapshot policies (pkg/reconcilers/role.go, tenant.go, ...; their       *)
(* controllers and admission webhooks; opensearch-gateway/services).       *)
(*                                                                         *)
(* All kinds have the same controller.  What a kind does in one pass is    *)
(* written down as a sequence of steps, in the order of its Reconcile or   *)
(* Delete; a step makes at most one call.  A call may fail before or after *)
(* it had its effect, and the operator may stop between any two calls.     *)
(***************************************************************************)
EXTENDS Integers, Sequences, FiniteSets

CONSTANTS
    Names,        \* names of objects; a role, tenant, action group or user keeps its name
    Contents,     \* what a Spec may say (see Content)
    MaxEvents,    \* bound on what users, others and the cluster do, all together
    MaxFaults     \* bound on failed calls and crashes of the operator

VARIABLES
    kind,      \* which kind of custom resource this is about
    cr,        \* the custom resource
    secret,    \* the password secret of a user: [data, annotated]
    cluster,   \* the OpenSearchCluster: [uid, running, deleting]; uid is 0 when there is none
    server,    \* name -> the object inside OpenSearch
    worker,    \* the pass in progress
    renamed,   \* did a user change the name of the object?
    bounds     \* counters: [resources, clusters, edits, outages, others, faults]

vars == <<kind, cr, secret, cluster, server, worker, renamed, bounds>>

Templates == {"IndexTemplate", "ComponentTemplate"}
Policies == {"ISMPolicy", "SnapshotPolicy"}
Kinds == {"Role", "Tenant", "ActionGroup", "User"} \cup Templates \cup Policies

NoName == "no name"

\* Does a Spec have the fields its webhook asks for, and what an ISM policy needs besides: the
\* limits of each shrink action and the destinations of each notification.
Content == [rev : Nat, complete : BOOLEAN, shrinks : SUBSET SUBSET STRING,
            notifies : SUBSET SUBSET STRING]

ASSUME ObjectAssumption ==
    /\ Names # {} /\ Names \subseteq STRING /\ NoName \notin Names
    /\ Contents # {} /\ Contents \subseteq Content
    /\ MaxEvents \in Nat /\ MaxFaults \in Nat

\* What is stored under a name: who made it (u > 0: the operator for the custom resource with
\* uid u; 0: somebody else; Late: somebody else, after the operator had looked), the document,
\* and for a user the version of the secret.
Late == -2
NoContent == [rev |-> 0, complete |-> FALSE, shrinks |-> {}, notifies |-> {}]
NoSecret == [data |-> 0, annotated |-> FALSE]
Absent == [maker |-> -1, content |-> NoContent, secret |-> NoSecret]

OthersObject(maker) ==
    [maker |-> maker, content |-> CHOOSE c \in Contents : TRUE, secret |-> NoSecret]

NoCR == [uid |-> 0, name |-> NoName, content |-> NoContent, deleting |-> FALSE,
         finalizer |-> FALSE, existing |-> "unknown", managed |-> 0, recordedName |-> NoName,
         state |-> ""]
NoCluster == [uid |-> 0, running |-> FALSE, deleting |-> FALSE]
NoResult == [err |-> FALSE, requeue |-> FALSE, after |-> 0, ignored |-> FALSE]
Idle == [rest |-> <<>>, inst |-> NoCR, cluster |-> NoCluster, name |-> NoName,
         doc |-> NoContent, exists |-> FALSE, seen |-> Absent, secret |-> NoSecret,
         result |-> NoResult]

Secrets == [data : 0..MaxEvents, annotated : BOOLEAN]
Objects == [maker : {Late} \cup 0..MaxEvents, content : Contents, secret : Secrets] \cup {Absent}
Resources == [uid : 1..MaxEvents, name : Names, content : Contents, deleting : BOOLEAN,
              finalizer : BOOLEAN, existing : {"unknown", "yes", "no"},
              managed : 0..MaxEvents + 1, recordedName : Names \cup {NoName},
              state : {"", "pending", "created", "error", "ignored"}]
Clusters == [uid : 0..MaxEvents + 1, running : BOOLEAN, deleting : BOOLEAN]
Results == [err : BOOLEAN, requeue : BOOLEAN, after : {0, 10, 30}, ignored : BOOLEAN]
Steps == {"fetchCluster", "bindCluster", "waitRunning", "lookExisting", "recordExisting",
          "checkName", "readSecret", "annotateSecret", "compare", "put", "build", "get",
          "create", "apply", "markOwn", "checkOwner", "update", "status", "ifOwned",
          "fetchForDelete", "lookForDelete", "matchUID", "remove", "release"}

TypeOK ==
    /\ kind \in Kinds /\ renamed \in BOOLEAN
    /\ cr \in Resources \cup {NoCR}
    /\ secret \in Secrets /\ cluster \in Clusters /\ server \in [Names -> Objects]
    /\ worker.rest \in Seq(Steps) /\ worker.inst \in Resources \cup {NoCR}
    /\ worker.cluster \in Clusters /\ worker.name \in Names \cup {NoName}
    /\ worker.doc \in Contents \cup {NoContent} /\ worker.exists \in BOOLEAN
    /\ worker.seen \in Objects /\ worker.secret \in Secrets /\ worker.result \in Results
    /\ bounds \in [resources : 0..MaxEvents, clusters : 1..MaxEvents + 1, edits : 0..MaxEvents,
                   outages : 0..MaxEvents, others : 0..MaxEvents, faults : 0..MaxFaults]

\* Roles, tenants, action groups and users keep their name; which one it is does not matter.
Name == CHOOSE n \in Names : TRUE
UsedNames == IF kind \in Templates \cup Policies THEN Names ELSE {Name}
WithOthers(maker) ==
    {s \in [Names -> {Absent, OthersObject(maker)}] : \A n \in Names \ UsedNames : s[n] = Absent}

\* Before the custom resource is created there may be an object that others made.
Init ==
    /\ kind \in Kinds /\ cr = NoCR /\ renamed = FALSE
    /\ secret = NoSecret
    /\ cluster = [uid |-> 1, running |-> FALSE, deleting |-> FALSE]
    /\ server \in WithOthers(0)
    /\ worker = Idle
    /\ bounds = [resources |-> 0, clusters |-> 1, edits |-> 0, outages |-> 0, others |-> 0,
                 faults |-> 0]
-----------------------------------------------------------------------------
(* The steps of a pass, for each kind, in the order of its Reconcile and of its Delete *)

Reach == <<"fetchCluster", "bindCluster", "waitRunning">>
RoleReconcile == Reach \o <<"lookExisting", "recordExisting", "compare", "put">>
TenantReconcile == Reach \o <<"lookExisting", "recordExisting", "compare", "put">>
ActionGroupReconcile == Reach \o <<"lookExisting", "recordExisting", "compare", "put">>
IndexTemplateReconcile ==
    Reach \o <<"lookExisting", "recordExisting", "checkName", "compare", "put">>
ComponentTemplateReconcile ==
    Reach \o <<"lookExisting", "recordExisting", "checkName", "compare", "put">>
UserReconcile == Reach \o <<"readSecret", "annotateSecret", "compare", "put">>
ISMPolicyReconcile == Reach \o <<"build", "get", "create", "apply", "markOwn">>
SnapshotPolicyReconcile == Reach \o <<"build", "get", "create", "markOwn">>

\* Mutant of RoleDelete: the role is deleted without a look whether it is still there.
RoleDeleteBlindly == <<"ifOwned", "fetchForDelete", "remove", "release">>

RoleDelete == <<"ifOwned", "fetchForDelete", "lookForDelete", "remove", "release">>
TenantDelete == RoleDelete
ActionGroupDelete == RoleDelete
IndexTemplateDelete == RoleDelete
ComponentTemplateDelete == RoleDelete
UserDelete == <<"fetchForDelete", "lookForDelete", "matchUID", "remove", "release">>
ISMPolicyDelete == <<"ifOwned", "fetchForDelete", "remove", "release">>
SnapshotPolicyDelete == <<"ifOwned", "fetchForDelete", "remove", "release">>

\* A controller runs Reconcile, or Delete for a resource that is being deleted.
RoleController == IF cr.deleting THEN RoleDelete ELSE RoleReconcile
TenantController == IF cr.deleting THEN TenantDelete ELSE TenantReconcile
ActionGroupController == IF cr.deleting THEN ActionGroupDelete ELSE ActionGroupReconcile
UserController == IF cr.deleting THEN UserDelete ELSE UserReconcile
IndexTemplateController == IF cr.deleting THEN IndexTemplateDelete ELSE IndexTemplateReconcile
ComponentTemplateController ==
    IF cr.deleting THEN ComponentTemplateDelete ELSE ComponentTemplateReconcile
ISMPolicyController == IF cr.deleting THEN ISMPolicyDelete ELSE ISMPolicyReconcile
SnapshotPolicyController == IF cr.deleting THEN SnapshotPolicyDelete ELSE SnapshotPolicyReconcile

Controller ==
    CASE kind = "Role" -> RoleController
      [] kind = "Tenant" -> TenantController
      [] kind = "ActionGroup" -> ActionGroupController
      [] kind = "User" -> UserController
      [] kind = "IndexTemplate" -> IndexTemplateController
      [] kind = "ComponentTemplate" -> ComponentTemplateController
      [] kind = "ISMPolicy" -> ISMPolicyController
      [] kind = "SnapshotPolicy" -> SnapshotPolicyController
-----------------------------------------------------------------------------
(* Calls and results *)

Fault == bounds.faults < MaxFaults /\ bounds' = [bounds EXCEPT !.faults = @ + 1]
NoFault == UNCHANGED bounds

Events == bounds.resources + (bounds.clusters - 1) + bounds.edits + bounds.outages + bounds.others
Event(what) == Events < MaxEvents /\ bounds' = [bounds EXCEPT ![what] = @ + 1]

At(step) == worker.rest # <<>> /\ Head(worker.rest) = step
Proceed(w) == [w EXCEPT !.rest = Tail(@)]

\* The result of the pass, which the deferred function turns into Status.State.
Finish(w, result) ==
    [w EXCEPT !.rest = <<"status">>, !.result = result, !.doc = NoContent, !.exists = FALSE,
              !.seen = Absent, !.secret = NoSecret]
Requeue(after) == [err |-> FALSE, requeue |-> TRUE, after |-> after, ignored |-> FALSE]
Ignored == [err |-> FALSE, requeue |-> FALSE, after |-> 0, ignored |-> TRUE]

\* The reconcilers of policies ask to be requeued when they return an error; before the
\* client is made they do so with the delay that also stands for a wait for the cluster.
Failure(early) ==
    [err |-> TRUE, requeue |-> kind \in Policies, ignored |-> FALSE,
     after |-> IF kind \notin Policies THEN 0 ELSE IF early THEN 10 ELSE 30]
Mismatch == [err |-> TRUE, requeue |-> FALSE, after |-> 0, ignored |-> FALSE]

\* The REST API answers only for a cluster that runs.
Reachable == cluster.uid # 0 /\ cluster.running

\* A call has its effect, or it fails; then the pass is over, in Delete without a result.
Fails(early) == worker' = Finish(worker, Failure(early))
DeleteFails == worker' = Idle

\* UdateObjectStatus reads the resource again before it changes the status, also for the
\* rest of the pass: the answer may be lost.
UpdateStatus(new, next) ==
    \/ cr' = new /\ worker' = [next EXCEPT !.inst = new] /\ NoFault
    \/ cr' = new /\ Fails(At("bindCluster")) /\ Fault
    \/ Fails(At("bindCluster")) /\ Fault /\ UNCHANGED cr

Others == <<kind, secret, cluster, renamed>>
-----------------------------------------------------------------------------
(* The controller: finalizer, then Reconcile or Delete *)

StartReconcile ==
    /\ worker = Idle /\ cr.uid # 0 /\ ~cr.deleting
    /\ LET new == [cr EXCEPT !.finalizer = TRUE]
       IN  \/ cr' = new /\ worker' = [Idle EXCEPT !.rest = Controller, !.inst = new] /\ NoFault
           \/ cr' = new /\ ~cr.finalizer /\ Fault /\ UNCHANGED worker
    /\ UNCHANGED <<Others, server>>

StartDelete ==
    /\ worker = Idle /\ cr.uid # 0 /\ cr.deleting /\ cr.finalizer
    /\ worker' = [Idle EXCEPT !.rest = Controller, !.inst = cr] /\ NoFault
    /\ UNCHANGED <<Others, cr, server>>

\* FetchOpensearchCluster.
FetchCluster ==
    /\ At("fetchCluster")
    /\ \/ /\ NoFault
          /\ worker' = IF cluster.uid = 0 THEN Finish(worker, Requeue(10))
                       ELSE [Proceed(worker) EXCEPT !.cluster = cluster]
       \/ Fails(TRUE) /\ Fault
    /\ UNCHANGED <<Others, cr, server>>

\* Status.ManagedCluster ties the resource to the first cluster it was reconciled with.
\* Policies write it in every pass.
BindCluster ==
    /\ At("bindCluster")
    /\ IF worker.inst.managed \notin {0, worker.cluster.uid}
       THEN worker' = Finish(worker, Mismatch) /\ NoFault /\ UNCHANGED cr
       ELSE IF worker.inst.managed = 0 \/ kind \in Policies
       THEN UpdateStatus([cr EXCEPT !.managed = worker.cluster.uid], Proceed(worker))
       ELSE worker' = Proceed(worker) /\ NoFault /\ UNCHANGED cr
    /\ UNCHANGED <<Others, server>>

\* The phase is that of the cluster as it was fetched; then the client is made, and the name
\* of the object is taken from the resource.
WaitRunning ==
    /\ At("waitRunning")
    /\ \/ ~worker.cluster.running /\ worker' = Finish(worker, Requeue(10)) /\ NoFault
       \/ /\ worker.cluster.running /\ NoFault
          /\ worker' = [Proceed(worker) EXCEPT !.name = worker.inst.name]
       \/ worker.cluster.running /\ Fails(TRUE) /\ Fault
    /\ UNCHANGED <<Others, cr, server>>
-----------------------------------------------------------------------------
(* Roles, tenants, action groups and templates: whose object is it? *)

\* RoleExists and its like, only while the answer is not on record.
LookExisting ==
    /\ At("lookExisting")
    /\ IF worker.inst.existing # "unknown" THEN worker' = Proceed(worker) /\ NoFault
       ELSE \/ /\ Reachable /\ NoFault
               /\ worker' = [Proceed(worker) EXCEPT !.exists = server[worker.name] # Absent]
            \/ Fails(FALSE) /\ (IF Reachable THEN Fault ELSE NoFault)
    /\ UNCHANGED <<Others, cr, server>>

\* The answer goes on record; an object of others is left alone.
RecordExisting ==
    /\ At("recordExisting")
    /\ IF worker.inst.existing = "unknown"
       THEN UpdateStatus([cr EXCEPT !.existing = IF worker.exists THEN "yes" ELSE "no"],
                         IF worker.exists THEN Finish(worker, Ignored) ELSE Proceed(worker))
       ELSE /\ NoFault /\ UNCHANGED cr
            /\ worker' = IF worker.inst.existing = "yes" THEN Finish(worker, Ignored)
                         ELSE Proceed(worker)
    /\ UNCHANGED <<Others, server>>

\* The name of a template may not change once it is on record.
CheckName ==
    /\ At("checkName")
    /\ worker' = IF worker.inst.recordedName \notin {NoName, worker.name}
                 THEN Finish(worker, Mismatch) ELSE Proceed(worker)
    /\ NoFault /\ UNCHANGED <<Others, cr, server>>
-----------------------------------------------------------------------------
(* Users: managePasswordSecret *)

ReadSecret ==
    /\ At("readSecret")
    /\ \/ worker' = [Proceed(worker) EXCEPT !.secret = secret] /\ NoFault
       \/ Fails(FALSE) /\ Fault
    /\ UNCHANGED <<Others, cr, server>>

\* The secret is written back as it was read, with the annotations, if that makes a
\* difference to what is stored now.
AnnotateSecret ==
    /\ At("annotateSecret")
    /\ LET new == [worker.secret EXCEPT !.annotated = TRUE]
           next == [Proceed(worker) EXCEPT !.secret = new]
       IN  \/ secret' = new /\ worker' = next /\ NoFault
           \/ secret' = new /\ secret # new /\ Fails(FALSE) /\ Fault
           \/ UNCHANGED secret /\ Fails(FALSE) /\ Fault
    /\ UNCHANGED <<kind, cluster, renamed, cr, server>>
-----------------------------------------------------------------------------
(* Comparison and update, all kinds but policies *)

Document == [maker |-> worker.inst.uid, content |-> worker.inst.content,
             secret |-> worker.secret]

\* Mutant of Compare: a user of others is taken over.
CompareAnyUser ==
    /\ At("compare")
    /\ LET found == server[worker.name]
       IN  \/ /\ Reachable /\ NoFault
              /\ worker' = IF found.maker # -1 /\ found.content = worker.inst.content
                           THEN Finish(worker, Requeue(30)) ELSE Proceed(worker)
           \/ Fails(FALSE) /\ (IF Reachable THEN Fault ELSE NoFault)
    /\ UNCHANGED <<Others, cr, server>>

\* ShouldUpdateRole, ShouldUpdateUser and their like.  A user that carries no uid, or that of
\* another resource, is a conflict.
Compare ==
    /\ At("compare")
    /\ LET found == server[worker.name]
       IN  \/ /\ Reachable /\ NoFault
              /\ worker' = IF kind = "User" /\ found # Absent /\ found.maker # worker.inst.uid
                           THEN Finish(worker, Failure(FALSE))
                           ELSE IF /\ found.maker # -1 /\ found.content = worker.inst.content
                                   /\ found.secret = worker.secret
                           THEN Finish(worker, Requeue(30)) ELSE Proceed(worker)
           \/ Fails(FALSE) /\ (IF Reachable THEN Fault ELSE NoFault)
    /\ UNCHANGED <<Others, cr, server>>

\* CreateOrUpdateRole, CreateOrUpdateUser and their like.
Put ==
    /\ At("put")
    /\ LET failed == worker' = Finish(worker, [Requeue(30) EXCEPT !.err = TRUE])
       IN  \/ /\ Reachable /\ server' = [server EXCEPT ![worker.name] = Document]
              /\ \/ worker' = Finish(worker, Requeue(30)) /\ NoFault
                 \/ failed /\ Fault
           \/ failed /\ (IF Reachable THEN Fault ELSE NoFault) /\ UNCHANGED server
    /\ UNCHANGED <<Others, cr>>
-----------------------------------------------------------------------------
(* Policies *)

\* The checks of CreateISMPolicy: a shrink action sets exactly one limit, a notification names
\* a destination.  CreateSnapshotPolicy refuses nothing.
ValidShrinks(c) == \A limits \in c.shrinks : Cardinality(limits) = 1
ValidNotifications(c) == \A destinations \in c.notifies : destinations # {}
ValidPolicy(c) == kind = "ISMPolicy" => ValidShrinks(c) /\ ValidNotifications(c)

Build ==
    /\ At("build")
    /\ worker' = IF ValidPolicy(worker.inst.content)
                 THEN [Proceed(worker) EXCEPT !.doc = worker.inst.content]
                 ELSE Finish(worker, Failure(FALSE))
    /\ NoFault /\ UNCHANGED <<Others, cr, server>>

\* GetPolicy, GetSnapshotPolicy: a policy that is missing is created, one that is there is
\* looked into.
GetPolicy ==
    /\ At("get")
    /\ LET found == server[worker.name]
       IN  \/ /\ Reachable /\ NoFault
              /\ worker' = IF found = Absent THEN Proceed(worker)
                           ELSE [worker EXCEPT !.rest = <<"checkOwner", "update">>,
                                               !.seen = found]
           \/ Fails(FALSE) /\ (IF Reachable THEN Fault ELSE NoFault)
    /\ UNCHANGED <<Others, cr, server>>

PolicyDocument == [maker |-> worker.inst.uid, content |-> worker.doc, secret |-> NoSecret]

\* CreateISMPolicy, CreateSnapshotPolicy: a PUT without sequence number.  It replaces a policy
\* that others made since the operator looked.
CreatePolicy ==
    /\ At("create")
    /\ \/ /\ Reachable /\ server' = [server EXCEPT ![worker.name] = PolicyDocument]
          /\ \/ worker' = Proceed(worker) /\ NoFault
             \/ Fails(FALSE) /\ Fault
       \/ Fails(FALSE) /\ (IF Reachable THEN Fault ELSE NoFault) /\ UNCHANGED server
    /\ UNCHANGED <<Others, cr>>

\* applyPolicyToExistingIndices: calls that may fail; the indices are not modelled.
ApplyToIndices ==
    /\ At("apply")
    /\ \/ Reachable /\ worker' = Proceed(worker) /\ NoFault
       \/ Fails(FALSE) /\ (IF Reachable THEN Fault ELSE NoFault)
    /\ UNCHANGED <<Others, cr, server>>

\* Only now is the policy recorded as the operator's own.
MarkOwn ==
    /\ At("markOwn")
    /\ UpdateStatus([cr EXCEPT !.existing = "no"], Finish(worker, Requeue(30)))
    /\ UNCHANGED <<Others, server>>

CheckOwner ==
    /\ At("checkOwner")
    /\ IF worker.inst.existing # "no"
       THEN UpdateStatus([cr EXCEPT !.existing = "yes"], Finish(worker, Requeue(30)))
       ELSE /\ worker' = IF /\ worker.inst.recordedName = worker.name
                            /\ worker.doc = worker.seen.content
                         THEN Finish(worker, Requeue(30)) ELSE Proceed(worker)
            /\ NoFault /\ UNCHANGED cr
    /\ UNCHANGED <<Others, server>>

\* UpdateISMPolicy, UpdateSnapshotPolicy: only if the policy is still the one that was read.
UpdatePolicy ==
    /\ At("update")
    /\ LET unchanged == Reachable /\ server[worker.name] = worker.seen
       IN  \/ /\ unchanged /\ server' = [server EXCEPT ![worker.name] = PolicyDocument]
              /\ \/ worker' = Finish(worker, Requeue(30)) /\ NoFault
                 \/ Fails(FALSE) /\ Fault
           \/ Fails(FALSE) /\ (IF unchanged THEN Fault ELSE NoFault) /\ UNCHANGED server
    /\ UNCHANGED <<Others, cr>>
-----------------------------------------------------------------------------
(* The deferred status update *)

\* Roles and ISM policies take any request to come back for a success.
StateByRequeue(r, old) ==
    CASE r.ignored -> "ignored"
      [] ~r.err /\ r.requeue -> "created"
      [] r.err /\ r.requeue /\ r.after = 10 -> "pending"
      [] r.err /\ ~(r.requeue /\ r.after = 10) -> "error"
      [] OTHER -> old

StateByDelay(r, old) ==
    CASE r.ignored -> "ignored"
      [] ~r.err /\ r.after = 30 -> "created"
      [] r.requeue /\ r.after = 10 -> "pending"
      [] r.err /\ ~(r.requeue /\ r.after = 10) -> "error"
      [] OTHER -> old

\* The name goes on record with state created: that of an index template, an ISM policy or a
\* snapshot policy.  Nothing records the name of a component template.
RecordsName(r) ==
    CASE kind = "ISMPolicy" -> ~r.err /\ r.requeue
      [] kind \in {"IndexTemplate", "SnapshotPolicy"} -> ~r.err /\ r.after = 30
      [] OTHER -> FALSE

DeferredStatus ==
    /\ At("status")
    /\ \/ /\ NoFault
          /\ cr' = [cr EXCEPT
                !.state = IF kind \in {"Role", "ISMPolicy"}
                          THEN StateByRequeue(worker.result, @) ELSE StateByDelay(worker.result, @),
                !.recordedName = IF RecordsName(worker.result) THEN worker.name ELSE @]
       \/ Fault /\ UNCHANGED cr
    /\ worker' = Idle
    /\ UNCHANGED <<Others, server>>
-----------------------------------------------------------------------------
(* Delete *)

Release(w) == [w EXCEPT !.rest = <<"release">>]

\* A resource that was never reconciled, or whose object was there before, leaves it.
IfOwned ==
    /\ At("ifOwned")
    /\ worker' = IF worker.inst.existing = "no" THEN Proceed(worker) ELSE Release(worker)
    /\ NoFault /\ UNCHANGED <<Others, cr, server>>

FetchForDelete ==
    /\ At("fetchForDelete")
    /\ \/ /\ NoFault
          /\ worker' = IF cluster.uid = 0 \/ cluster.deleting THEN Release(worker)
                       ELSE [Proceed(worker) EXCEPT !.cluster = cluster,
                                                    !.name = worker.inst.name]
       \/ DeleteFails /\ Fault
    /\ UNCHANGED <<Others, cr, server>>

LookForDelete ==
    /\ At("lookForDelete")
    /\ \/ /\ Reachable /\ NoFault
          /\ worker' = IF server[worker.name] = Absent THEN Release(worker) ELSE Proceed(worker)
       \/ DeleteFails /\ (IF Reachable THEN Fault ELSE NoFault)
    /\ UNCHANGED <<Others, cr, server>>

\* UserUIDMatches: a user that others made stays; one that is gone meanwhile is an error.
MatchUID ==
    /\ At("matchUID")
    /\ LET found == server[worker.name]
       IN  \/ /\ Reachable /\ found # Absent /\ NoFault
              /\ worker' = IF found.maker = worker.inst.uid THEN Proceed(worker)
                           ELSE Release(worker)
           \/ DeleteFails /\ (IF Reachable /\ found # Absent THEN Fault ELSE NoFault)
    /\ UNCHANGED <<Others, cr, server>>

\* Mutant of Remove: a failed deletion is only logged.
RemoveOrLog ==
    /\ At("remove") /\ worker' = Proceed(worker)
    /\ \/ Reachable /\ server' = [server EXCEPT ![worker.name] = Absent] /\ NoFault
       \/ UNCHANGED server /\ Fault
    /\ UNCHANGED <<Others, cr>>

\* DeleteRole, DeleteUser, DeleteISMPolicy and their like: an object that is gone is an error.
Remove ==
    /\ At("remove")
    /\ LET there == Reachable /\ server[worker.name] # Absent
       IN  \/ /\ there /\ server' = [server EXCEPT ![worker.name] = Absent]
              /\ \/ worker' = Proceed(worker) /\ NoFault
                 \/ DeleteFails /\ Fault
           \/ DeleteFails /\ (IF there THEN Fault ELSE NoFault) /\ UNCHANGED server
    /\ UNCHANGED <<Others, cr>>

\* The finalizer is removed from the resource as it was read; a conflict is an error.
RemoveFinalizer ==
    /\ At("release") /\ worker' = Idle
    /\ \/ cr' = (IF cr = worker.inst THEN NoCR ELSE cr) /\ NoFault
       \/ UNCHANGED cr /\ Fault
    /\ UNCHANGED <<Others, server>>

OperatorCrash ==
    /\ worker # Idle /\ Fault /\ worker' = Idle
    /\ UNCHANGED <<Others, cr, server>>
-----------------------------------------------------------------------------
(* Users, the cluster, and others who use OpenSearch *)

\* Admission of a new resource (old = NoCR) or of an update.  No update may change the
\* cluster a resource refers to: no action here does.
ClusterExists(old) == old = NoCR => cluster.uid # 0
KeepsName(old, new) == old.recordedName \in {NoName, new.name}

RoleWebhook(old, new) == ClusterExists(old) /\ new.content.complete
TenantWebhook(old, new) == ClusterExists(old)
ActionGroupWebhook(old, new) == ClusterExists(old) /\ new.content.complete
UserWebhook(old, new) == ClusterExists(old) /\ new.content.complete
IndexTemplateWebhook(old, new) == ClusterExists(old) /\ (new.deleting \/ KeepsName(old, new))
ComponentTemplateWebhook(old, new) == ClusterExists(old) /\ KeepsName(old, new)
ISMPolicyWebhook(old, new) ==
    ClusterExists(old) /\ KeepsName(old, new) /\ new.content.complete
SnapshotPolicyWebhook(old, new) ==
    ClusterExists(old) /\ KeepsName(old, new) /\ new.content.complete

Admits(old, new) ==
    CASE kind = "Role" -> RoleWebhook(old, new)
      [] kind = "Tenant" -> TenantWebhook(old, new)
      [] kind = "ActionGroup" -> ActionGroupWebhook(old, new)
      [] kind = "User" -> UserWebhook(old, new)
      [] kind = "IndexTemplate" -> IndexTemplateWebhook(old, new)
      [] kind = "ComponentTemplate" -> ComponentTemplateWebhook(old, new)
      [] kind = "ISMPolicy" -> ISMPolicyWebhook(old, new)
      [] kind = "SnapshotPolicy" -> SnapshotPolicyWebhook(old, new)

CreateResource ==
    /\ cr = NoCR /\ Event("resources")
    /\ \E c \in Contents :
         cr' = [NoCR EXCEPT !.uid = bounds'.resources, !.name = Name, !.content = c]
    /\ Admits(cr, cr')
    /\ UNCHANGED <<Others, server, worker>>

EditResource ==
    /\ cr # NoCR /\ Event("edits")
    /\ \E new \in [content : Contents, name : UsedNames] :
         /\ cr' = [cr EXCEPT !.content = new.content, !.name = new.name]
         /\ cr' # cr /\ Admits(cr, cr')
         /\ renamed' = (renamed \/ new.name # cr.name)
    /\ UNCHANGED <<kind, secret, cluster, server, worker>>

DeleteResource ==
    /\ cr # NoCR /\ ~cr.deleting
    /\ cr' = IF cr.finalizer THEN [cr EXCEPT !.deleting = TRUE] ELSE NoCR
    /\ UNCHANGED <<Others, server, worker, bounds>>

EditSecret ==
    /\ kind = "User" /\ Event("edits")
    /\ secret' = [secret EXCEPT !.data = bounds'.edits]
    /\ UNCHANGED <<kind, cluster, renamed, cr, server, worker>>

OthersMaker == IF cr.existing = "no" \/ worker # Idle THEN Late ELSE 0

OthersCreate ==
    /\ Event("others")
    /\ \E n \in UsedNames :
         /\ server[n] = Absent /\ Reachable
         /\ server' = [server EXCEPT ![n] = OthersObject(OthersMaker)]
    /\ UNCHANGED <<Others, cr, worker>>

OthersChange ==
    /\ Event("others")
    /\ \E n \in Names, c \in Contents :
         /\ server[n] # Absent /\ server[n].content # c /\ Reachable
         /\ server' = [server EXCEPT ![n].content = c]
    /\ UNCHANGED <<Others, cr, worker>>

OthersRemove ==
    /\ Event("others")
    /\ \E n \in Names :
         /\ server[n] # Absent /\ Reachable
         /\ server' = [server EXCEPT ![n] = Absent]
    /\ UNCHANGED <<Others, cr, worker>>

ClusterStops ==
    /\ cluster.running /\ Event("outages")
    /\ cluster' = [cluster EXCEPT !.running = FALSE]
    /\ UNCHANGED <<kind, secret, renamed, cr, server, worker>>

ClusterStarts ==
    /\ cluster.uid # 0 /\ ~cluster.running
    /\ cluster' = [cluster EXCEPT !.running = TRUE]
    /\ UNCHANGED <<kind, secret, renamed, cr, server, worker, bounds>>

ClusterDeleted ==
    /\ cluster.uid # 0 /\ ~cluster.deleting /\ Event("clusters")
    /\ cluster' = [cluster EXCEPT !.deleting = TRUE]
    /\ UNCHANGED <<kind, secret, renamed, cr, server, worker>>

ClusterGone ==
    /\ cluster.deleting
    /\ cluster' = NoCluster /\ server' = [n \in Names |-> Absent]
    /\ UNCHANGED <<kind, secret, renamed, cr, worker, bounds>>

\* The new cluster may hold objects of others before it runs, from a snapshot for instance.
ClusterCreated ==
    /\ cluster.uid = 0
    /\ cluster' = [uid |-> bounds.clusters, running |-> FALSE, deleting |-> FALSE]
    /\ server' \in WithOthers(OthersMaker)
    /\ UNCHANGED <<kind, secret, renamed, cr, worker, bounds>>
-----------------------------------------------------------------------------
ReconcileStep ==
    \/ FetchCluster \/ BindCluster \/ WaitRunning
    \/ LookExisting \/ RecordExisting \/ CheckName
    \/ ReadSecret \/ AnnotateSecret \/ Compare \/ Put
    \/ Build \/ GetPolicy \/ CreatePolicy \/ ApplyToIndices \/ MarkOwn
    \/ CheckOwner \/ UpdatePolicy \/ DeferredStatus

DeleteStep ==
    \/ IfOwned \/ FetchForDelete \/ LookForDelete \/ MatchUID \/ Remove \/ RemoveFinalizer

Work == StartReconcile \/ StartDelete \/ ReconcileStep \/ DeleteStep

Environment ==
    \/ CreateResource \/ EditResource \/ DeleteResource \/ EditSecret
    \/ OthersCreate \/ OthersChange \/ OthersRemove
    \/ ClusterStops \/ ClusterStarts \/ ClusterDeleted \/ ClusterGone \/ ClusterCreated

Next == Work \/ OperatorCrash \/ Environment

\* The manager retries what returns an error and comes back to what asks for it; a cluster
\* that was created comes to run.
Spec == Init /\ [][Next]_vars /\ WF_vars(Work) /\ WF_vars(ClusterStarts)
-----------------------------------------------------------------------------
(* Properties *)

\* Reconcile and Delete never touch an object that others had made before the operator looked,
\* whatever fails or restarts in between, unless a user points the resource at another name
\* (the check "make sure we don't touch preexisting" objects, and the uid of users).
NeverTouchesForeign ==
    [][worker' # worker /\ ~renamed =>
         \A n \in Names : server[n].maker = 0 => server'[n] = server[n]]_vars

\* The name of a role, tenant, action group or user inside OpenSearch is used the way
\* ObjectOwnership says: the operator takes it only when it is free, and the resource goes away
\* only after the operator's object has.  What happens in a cluster that is being deleted, and
\* what others make under a name the operator holds, does not count.
Ownership == INSTANCE ObjectOwnership WITH
    operator <- worker,
    resource <- cr.uid # 0 /\ cr.name = Name /\ kind \notin Templates \cup Policies,
    object <- IF kind \in Templates \cup Policies \/ cluster.deleting THEN "none"
              ELSE CASE server[Name].maker \in {-1, Late} -> "none"
                     [] server[Name].maker = 0 -> "others"
                     [] OTHER -> "operator"
OwnsByTheRules == Ownership!Spec

\* Nothing keeps the operator from storing what the resource says.
Steady ==
    /\ cr # NoCR /\ ~cr.deleting /\ cr.managed \in {0, cluster.uid}
    /\ Reachable /\ ValidPolicy(cr.content)
    /\ cr.recordedName \in {NoName, cr.name}
    /\ IF kind = "User" THEN server[cr.name].maker \in {-1, cr.uid} ELSE cr.existing = "no"

\* In the end OpenSearch holds what the resource says, the password secret included, and the
\* state shows it, whatever edits, faults, outages and changes by others came before.
Converges ==
    <>[]Steady =>
    <>[](/\ cr # NoCR /\ server[cr.name].maker # -1 /\ server[cr.name].content = cr.content
         /\ kind = "User" => server[cr.name].secret = secret
         /\ cr.state = "created")

\* A resource that is deleted goes away, once the cluster can be reached or is itself gone.
\* (Delete of a policy asks for no such thing: see the README.)
DeletionCompletes ==
    ~<>[](cr.deleting /\ kind \notin Policies /\ (Reachable \/ cluster.uid = 0))
=============================================================================
