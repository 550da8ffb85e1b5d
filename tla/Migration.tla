------------------------------ MODULE Migration ------------------------------
(***************************************************************************)
(* The migration of one resource from the API group opensearch.opster.io   *)
(* to opensearch.org (controllers/migration_controller.go).  A controller  *)
(* creates the new resource from the old one, and makes the deletion of    *)
(* either follow the rules: who deletes the new one deletes the old one    *)
(* too, and the old one alone can go only when the new one is there.       *)
(* Finalizers hold both back.  For clusters the secrets with certificates  *)
(* are given to the new resource, since Kubernetes deletes a secret when   *)
(* all its owners are gone.                                                *)
(*                                                                         *)
(* Beside it run the controller of the new resource, which has a finalizer *)
(* of its own, the garbage collector and users, whose changes to old       *)
(* resources pass the webhooks of the legacy API.  An update is refused    *)
(* when the object changed since it was read.  Calls fail with or without  *)
(* effect and the process crashes.                                         *)
(***************************************************************************)
EXTENDS Integers, FiniteSets

CONSTANTS
    Kinds,      \* the kinds to consider
    Secrets,    \* the secrets with certificates of a cluster
    MaxGen,     \* bound on how often the new resource is created
    MaxEvents,  \* bound on changes by users, failed calls and crashes
    None        \* no object

VARIABLES
    kind,       \* of the resource
    old, new,   \* the resources
    owners,     \* secret -> generations of the new resource that own it, 0 for the old resource
    gone,       \* the secrets that do not exist
    gen,        \* how often the new resource was created
    pc, read, readNew,   \* the worker and the resources it has read
    unguarded,  \* what was missing when a user deleted a resource
    events      \* the bound

worker == <<pc, read, readNew>>
vars == <<kind, old, new, owners, gone, gen, pc, read, readNew, unguarded, events>>

Cluster == "OpenSearchCluster"
AllKinds == {Cluster, "OpensearchUser", "OpensearchRole", "OpensearchUserRoleBinding", "OpensearchTenant",
             "OpensearchActionGroup", "OpenSearchISMPolicy", "OpensearchSnapshotPolicy",
             "OpensearchIndexTemplate", "OpensearchComponentTemplate"}

Gen == 1..MaxGen
Contents == {1, 2}
OldResource == [fin : SUBSET {"migration", "legacy"}, deleting : BOOLEAN, marked : BOOLEAN, ready : BOOLEAN,
                spec : Contents]
NewResource == [fin : SUBSET {"migration", "main"}, deleting : BOOLEAN, ready : BOOLEAN, spec : Contents,
                gen : Gen, migrated : BOOLEAN, transferred : BOOLEAN]

ASSUME MigrationAssumption ==
    Kinds \subseteq AllKinds /\ MaxGen \in Nat \ {0} /\ MaxEvents \in Nat /\ None \notin OldResource \cup NewResource

TypeOK ==
    /\ kind \in AllKinds /\ old \in OldResource \cup {None} /\ new \in NewResource \cup {None}
    /\ owners \in [Secrets -> SUBSET (Gen \cup {0})] /\ gone \subseteq Secrets /\ gen \in 0..MaxGen
    /\ pc \in {"idle", "old", "release", "deleteOld", "markOld", "checkNew", "freeOld", "lookNew", "create",
               "status", "transfer", "annotate", "retransfer", "reannotate", "sync"}
    /\ read \in OldResource \cup {None} /\ readNew \in NewResource \cup {None}
    /\ unguarded \subseteq {"finalizer", "secrets"}

\* An old resource whose finalizer is that of the old operator; it may be ready or not.
Init ==
    /\ kind \in Kinds
    /\ old \in [fin : {{"legacy"}}, deleting : {FALSE}, marked : {FALSE}, ready : BOOLEAN, spec : {1}]
    /\ new = None /\ owners = [s \in Secrets |-> {0}]
    /\ gone = (IF kind = Cluster THEN {} ELSE Secrets) /\ gen = 0
    /\ pc = "idle" /\ read = None /\ readNew = None /\ unguarded = {} /\ events = 0

\* An object that is being deleted is gone when its last finalizer is.
Settle(o) == IF o # None /\ o.deleting /\ o.fin = {} THEN None ELSE o
With(o, f) == Settle([o EXCEPT !.fin = @ \cup {f}])
Without(o, F) == Settle([o EXCEPT !.fin = @ \ F])

Event == events < MaxEvents /\ events' = events + 1
NoEvent == UNCHANGED events
EndPass == pc' = "idle" /\ read' = None /\ readNew' = None
Goto(step) == pc' = step /\ UNCHANGED <<read, readNew>>
Done == NoEvent /\ EndPass
Answered(step) == (NoEvent /\ Goto(step)) \/ (Event /\ EndPass)
Others == UNCHANGED <<kind, owners, gone, gen, unguarded>>
-----------------------------------------------------------------------------
(* The controller.  First the new resource, if there is one. *)

Cleaning(o) == IF kind = Cluster THEN "main" \in o.fin ELSE o.fin # {"migration"}

StartPass ==
    /\ pc = "idle" /\ readNew' = new /\ UNCHANGED <<read, old>> /\ Others
    /\ \/ /\ new # None => (~new.deleting /\ "migration" \in new.fin)
          /\ pc' = "old" /\ NoEvent /\ UNCHANGED new
       \/ /\ new # None /\ new.deleting /\ "migration" \in new.fin /\ ~Cleaning(new)
          /\ pc' = "markOld" /\ NoEvent /\ UNCHANGED new

\* A new resource without our finalizer gets it; the pass is then tried again.
AddFinalizerToNew ==
    /\ pc = "idle" /\ new # None /\ ~new.deleting /\ "migration" \notin new.fin
    /\ new' = With(new, "migration") /\ Done /\ UNCHANGED old /\ Others

\* Mutant of MarkOld: the old resource is not marked.
MarkNothing ==
    /\ pc = "markOld" /\ UNCHANGED <<old, new>> /\ Others
    /\ NoEvent /\ Goto(IF old = None THEN "release" ELSE "deleteOld")

\* The new resource is deleted: the old one is marked, deleted, and the new one released.
MarkOld ==
    /\ pc = "markOld" /\ UNCHANGED new /\ Others
    /\ IF old = None THEN NoEvent /\ Goto("release") /\ UNCHANGED old
       ELSE old' = [old EXCEPT !.marked = TRUE] /\ Answered("deleteOld")

DeleteOld ==
    /\ pc = "deleteOld" /\ UNCHANGED new /\ Others
    /\ IF old = None THEN NoEvent /\ Goto("release") /\ UNCHANGED old
       ELSE old' = Settle([old EXCEPT !.deleting = TRUE]) /\ Answered("release")

ReleaseNew ==
    /\ pc = "release" /\ Done /\ UNCHANGED old /\ Others
    /\ new' = IF new = readNew THEN Without(new, {"migration"}) ELSE new

(* Then the old resource. *)

ReadOld ==
    /\ pc = "old" /\ UNCHANGED new /\ Others
    /\ IF old = None \/ (old.deleting /\ "migration" \notin old.fin)
       THEN Done /\ UNCHANGED old
       ELSE /\ NoEvent /\ pc' = (IF old.deleting THEN "checkNew" ELSE "lookNew")
            /\ old' = (IF old.deleting THEN old ELSE With(old, "migration")) /\ read' = old' /\ UNCHANGED readNew

\* Mutant of CheckNew: the old resource may go at any time.
CheckNothing ==
    /\ pc = "checkNew" /\ UNCHANGED <<old, new>> /\ Others
    /\ NoEvent /\ Goto("freeOld")

\* The old resource is deleted: it may go when the new one exists, or was deleted first.
CheckNew ==
    /\ pc = "checkNew" /\ UNCHANGED <<old, new>> /\ Others
    /\ \/ (new # None \/ read.marked) /\ NoEvent /\ Goto("freeOld")
       \/ new = None /\ ~read.marked /\ Done

FreeOld ==
    /\ pc = "freeOld" /\ Done /\ UNCHANGED new /\ Others
    /\ old' = IF old = read THEN Without(old, {"migration", "legacy"}) ELSE old

\* Mutant of LookNew: the mark is read the wrong way.
LookNewIfMarked ==
    /\ pc = "lookNew" /\ UNCHANGED <<old, new>> /\ Others
    /\ \/ new # None /\ kind = Cluster /\ NoEvent /\ pc' = "retransfer" /\ readNew' = new /\ UNCHANGED read
       \/ new # None /\ kind # Cluster /\ Done
       \/ new = None /\ (~read.marked \/ ~read.ready) /\ Done
       \/ new = None /\ read.marked /\ read.ready /\ NoEvent /\ Goto("create")

LookNew ==
    /\ pc = "lookNew" /\ UNCHANGED <<old, new>> /\ Others
    /\ \/ new # None /\ kind = Cluster /\ NoEvent /\ pc' = "retransfer" /\ readNew' = new /\ UNCHANGED read
       \/ new # None /\ kind # Cluster /\ Done
       \/ new = None /\ (read.marked \/ ~read.ready) /\ Done
       \/ new = None /\ ~read.marked /\ read.ready /\ NoEvent /\ Goto("create")

\* createNewFromOld: the spec is converted, the finalizers are left out.
Converted(o) ==
    [fin |-> {}, deleting |-> FALSE, ready |-> FALSE, spec |-> o.spec, gen |-> gen + 1, migrated |-> TRUE,
     transferred |-> FALSE]

Create ==
    /\ pc = "create" /\ UNCHANGED <<kind, old, owners, gone, unguarded>>
    /\ IF new # None
       THEN /\ UNCHANGED <<new, gen>>
            /\ IF kind = Cluster THEN NoEvent /\ pc' = "transfer" /\ readNew' = new /\ UNCHANGED read ELSE Done
       ELSE /\ gen < MaxGen /\ gen' = gen + 1 /\ new' = Converted(read)
            /\ (NoEvent /\ pc' = "status" /\ readNew' = new' /\ UNCHANGED read) \/ (Event /\ EndPass)

\* The status is copied.  A cluster's is a subresource, which Update leaves as it is.
CopyStatus ==
    /\ pc = "status" /\ UNCHANGED old /\ Others
    /\ IF new = None THEN Done /\ UNCHANGED new
       ELSE /\ new' = (IF kind = Cluster THEN new ELSE [new EXCEPT !.ready = read.ready])
            /\ IF kind = Cluster THEN NoEvent /\ readNew' = new' /\ pc' = "transfer" /\ UNCHANGED read ELSE Done

(* The secrets of a cluster. *)

Unowned == {s \in Secrets \ gone : readNew.gen \notin owners[s]}

\* When the secrets are transferred the pass ends, or goes on with the status.
TransferDone == IF pc \in {"transfer", "annotate"} THEN Done ELSE NoEvent /\ Goto("sync")
ToAnnotate == NoEvent /\ Goto(IF pc = "transfer" THEN "annotate" ELSE "reannotate")

\* Mutant of TransferSecret: the secrets keep their owner.
TransferNothing ==
    /\ pc \in {"transfer", "retransfer"} /\ UNCHANGED <<old, new>> /\ Others
    /\ IF readNew.transferred THEN TransferDone ELSE ToAnnotate

TransferSecret ==
    /\ pc \in {"transfer", "retransfer"} /\ UNCHANGED <<kind, old, new, gone, gen, unguarded>>
    /\ \/ readNew.transferred /\ UNCHANGED owners /\ TransferDone
       \/ ~readNew.transferred /\ Unowned = {} /\ UNCHANGED owners /\ ToAnnotate
       \/ /\ ~readNew.transferred /\ Unowned # {}
          /\ LET s == CHOOSE t \in Unowned : TRUE IN owners' = [owners EXCEPT ![s] = @ \cup {readNew.gen}]
          /\ Answered(pc)

\* That all are transferred is noted; a failure to do so is ignored.
Annotate ==
    /\ pc \in {"annotate", "reannotate"} /\ UNCHANGED old /\ Others /\ TransferDone
    /\ new' = IF new = readNew THEN [new EXCEPT !.transferred = TRUE] ELSE new

\* The status of the new cluster becomes that of the old one.
SyncStatus ==
    /\ pc = "sync" /\ Done /\ UNCHANGED new /\ Others
    /\ old' = IF old # None /\ old = read THEN [old EXCEPT !.ready = readNew.ready] ELSE old

PassFails ==
    /\ pc # "idle" /\ Event /\ EndPass /\ UNCHANGED <<old, new>> /\ Others
-----------------------------------------------------------------------------
(* The controller of the new resource, the garbage collector and users *)

MainAddsFinalizer ==
    /\ new # None /\ ~new.deleting /\ "main" \notin new.fin /\ new' = With(new, "main")
    /\ NoEvent /\ UNCHANGED <<old, worker>> /\ Others

MainBecomesReady ==
    /\ new # None /\ ~new.deleting /\ "main" \in new.fin /\ ~new.ready /\ new' = [new EXCEPT !.ready = TRUE]
    /\ NoEvent /\ UNCHANGED <<old, worker>> /\ Others

MainCleansUp ==
    /\ new # None /\ new.deleting /\ "main" \in new.fin /\ new' = Without(new, {"main"})
    /\ NoEvent /\ UNCHANGED <<old, worker>> /\ Others

Alive(g) == IF g = 0 THEN old # None ELSE new # None /\ new.gen = g

CollectGarbage(s) ==
    /\ s \notin gone /\ owners[s] # {} /\ \A g \in owners[s] : ~Alive(g)
    /\ gone' = gone \cup {s}
    /\ NoEvent /\ UNCHANGED <<kind, old, new, owners, gen, unguarded, worker>>

Transferred ==
    kind # Cluster \/ (new # None /\ (new.transferred \/ \A s \in Secrets \ gone : new.gen \in owners[s]))

UserDeletesOld ==
    /\ old # None /\ ~old.deleting /\ Event /\ old' = Settle([old EXCEPT !.deleting = TRUE])
    /\ unguarded' = unguarded \cup {x \in {"finalizer", "secrets"} :
                                      IF x = "secrets" THEN ~Transferred ELSE "migration" \notin old.fin}
    /\ UNCHANGED <<kind, new, owners, gone, gen, worker>>

UserDeletesNew ==
    /\ new # None /\ ~new.deleting /\ Event /\ new' = Settle([new EXCEPT !.deleting = TRUE])
    /\ unguarded' = unguarded \cup {x \in {"finalizer"} : "migration" \notin new.fin}
    /\ UNCHANGED <<kind, old, owners, gone, gen, worker>>

UserCreatesNew ==
    /\ new = None /\ gen < MaxGen /\ Event /\ gen' = gen + 1
    /\ new' = [Converted([spec |-> 2]) EXCEPT !.migrated = FALSE]
    /\ UNCHANGED <<kind, old, owners, gone, unguarded, worker>>

\* The webhooks of the legacy kinds: updates that leave the spec alone pass, and those of a resource that is
\* being deleted.  No old resource can be created.
StatusOnly(spec) == spec = old.spec
ClusterLegacyWebhook(spec) == kind = Cluster /\ (old.deleting \/ StatusOnly(spec))
UserLegacyWebhook(spec) == kind = "OpensearchUser" /\ (old.deleting \/ StatusOnly(spec))
RoleLegacyWebhook(spec) == kind = "OpensearchRole" /\ (old.deleting \/ StatusOnly(spec))
UserRoleBindingLegacyWebhook(spec) == kind = "OpensearchUserRoleBinding" /\ (old.deleting \/ StatusOnly(spec))
TenantLegacyWebhook(spec) == kind = "OpensearchTenant" /\ (old.deleting \/ StatusOnly(spec))
ActionGroupLegacyWebhook(spec) == kind = "OpensearchActionGroup" /\ (old.deleting \/ StatusOnly(spec))
ISMPolicyLegacyWebhook(spec) == kind = "OpenSearchISMPolicy" /\ (old.deleting \/ StatusOnly(spec))
SnapshotPolicyLegacyWebhook(spec) == kind = "OpensearchSnapshotPolicy" /\ (old.deleting \/ StatusOnly(spec))
IndexTemplateLegacyWebhook(spec) == kind = "OpensearchIndexTemplate" /\ (old.deleting \/ StatusOnly(spec))
ComponentTemplateLegacyWebhook(spec) == kind = "OpensearchComponentTemplate" /\ (old.deleting \/ StatusOnly(spec))

LegacyAdmits(spec) ==
    \/ ClusterLegacyWebhook(spec)
    \/ UserLegacyWebhook(spec)
    \/ RoleLegacyWebhook(spec)
    \/ UserRoleBindingLegacyWebhook(spec)
    \/ TenantLegacyWebhook(spec)
    \/ ActionGroupLegacyWebhook(spec)
    \/ ISMPolicyLegacyWebhook(spec)
    \/ SnapshotPolicyLegacyWebhook(spec)
    \/ IndexTemplateLegacyWebhook(spec)
    \/ ComponentTemplateLegacyWebhook(spec)

UserEditsOld ==
    /\ old # None /\ Event
    /\ \E spec \in Contents \ {old.spec} : LegacyAdmits(spec) /\ old' = [old EXCEPT !.spec = spec]
    /\ UNCHANGED new /\ Others /\ UNCHANGED worker
-----------------------------------------------------------------------------
\* All kinds are handled alike, except for the secrets and the status of a cluster.
Generic ==
    \/ StartPass \/ AddFinalizerToNew \/ MarkOld \/ DeleteOld \/ ReleaseNew
    \/ ReadOld \/ CheckNew \/ FreeOld \/ LookNew \/ Create \/ CopyStatus

ClusterMigration == kind = Cluster /\ (Generic \/ TransferSecret \/ Annotate \/ SyncStatus)
UserMigration == kind = "OpensearchUser" /\ Generic
RoleMigration == kind = "OpensearchRole" /\ Generic
UserRoleBindingMigration == kind = "OpensearchUserRoleBinding" /\ Generic
TenantMigration == kind = "OpensearchTenant" /\ Generic
ActionGroupMigration == kind = "OpensearchActionGroup" /\ Generic
ISMPolicyMigration == kind = "OpenSearchISMPolicy" /\ Generic
SnapshotPolicyMigration == kind = "OpensearchSnapshotPolicy" /\ Generic
IndexTemplateMigration == kind = "OpensearchIndexTemplate" /\ Generic
ComponentTemplateMigration == kind = "OpensearchComponentTemplate" /\ Generic

Reconcile ==
    \/ ClusterMigration \/ UserMigration \/ RoleMigration \/ UserRoleBindingMigration \/ TenantMigration
    \/ ActionGroupMigration \/ ISMPolicyMigration \/ SnapshotPolicyMigration \/ IndexTemplateMigration
    \/ ComponentTemplateMigration

Main == MainAddsFinalizer \/ MainBecomesReady \/ MainCleansUp

Next ==
    \/ Reconcile \/ PassFails \/ Main \/ \E s \in Secrets : CollectGarbage(s)
    \/ UserDeletesOld \/ UserDeletesNew \/ UserCreatesNew \/ UserEditsOld

\* Both controllers are called again on every change and at least every 30 seconds.
Fairness == WF_vars(Reconcile) /\ WF_vars(Main) /\ \A s \in Secrets : WF_vars(CollectGarbage(s))

Spec == Init /\ [][Next]_vars /\ Fairness
-----------------------------------------------------------------------------
\* Nothing is lost: the controller lets the old resource go only when the new one exists, or was deleted.
\* (A resource that was deleted before the controller had its finalizer on it is not covered.)
NothingIsLost ==
    [][(old # None /\ old' = None) => (new # None \/ old.marked \/ "finalizer" \in unguarded)]_vars

\* The secrets of a cluster outlive the old resource: none is deleted as long as the new resource is there.
\* (When the old one was deleted before the secrets were transferred they are not.)
CertificatesSurvive == [][\A s \in gone' \ gone : new = None \/ ~new.migrated \/ "secrets" \in unguarded]_vars

\* A resource that is ready is migrated, unless it is deleted first.
Migrates == [](old # None /\ old.ready /\ gen = 0 => <>(gen > 0 \/ old = None \/ old.deleting))

\* The deletion of the new resource is that of the old one.  (An old resource on which the controller has
\* not put its finalizer yet keeps that of the old operator, which nobody removes.)
DeletionFollows ==
    [](new # None /\ new.deleting /\ unguarded = {}
          => <>(old = None \/ unguarded # {} \/ (old.deleting /\ old.fin = {"legacy"})))
=============================================================================
