# A TLA+ model of the OpenSearch Kubernetes operator

The operator turns custom resources into OpenSearch clusters: it creates StatefulSets,
scales them, restarts and upgrades their pods without losing data, and manages objects
inside OpenSearch (users, roles, policies). What makes it hard to get right is that every
procedure is spread over many reconcile passes. Between two passes, and between any two
calls of one pass, the user edits the resource, pods come and go, shards move, calls fail
(with or without having had their effect) and the operator itself is restarted. What
connects the passes is little: the list `Status.ComponentsStatus` of the resource and a few
transient settings of the OpenSearch cluster.

The modules here model those procedures from the Go code under
`src/opensearch-operator`. TLC checks them on small clusters; TLAPS proves some of their
properties for clusters of any size. `PROJECT.json` maps each definition to the lines it
models, and lists runs, mutants, findings, hazards and theorems.

## The system

| Part | Where | State | Operations |
|---|---|---|---|
| Cluster controller | `controllers/opensearchController.go` | phase, `Status.Initialized`, finalizer | fetch, add finalizer, pending/running phase, deletion |
| Cluster reconciler | `pkg/reconcilers/cluster.go` | services, bootstrap pod, StatefulSets, volumes | create and update a StatefulSet, resize volumes, parallel recovery, emptyDir recovery |
| Scaler | `pkg/reconcilers/scaler.go` | status entries `Scaler`, exclude list, replicas | add a node; exclude, drain, remove a node; remove obsolete pools |
| Rolling restart | `pkg/reconcilers/rollingRestart.go`, `os_data_service.go` | status entry `RollingRestart`, allocation setting, exclude list, pods | find a candidate, check the quorum and the health, prepare and delete a pod |
| Rolling upgrade | `pkg/reconcilers/upgrade.go` | status entries `Upgrader`, `Status.Version` | validate, choose a pool, upgrade it, finish |
| Security configuration | `pkg/reconcilers/securityconfig.go` | securityconfig job, its checksum, retry conditions | create, watch, retry the job |
| TLS | `pkg/reconcilers/tls.go` | secrets with certificates | generate, reuse, rotate, reload |
| Configuration, dashboards, snapshot repositories | `configuration.go`, `dashboards.go`, `snapshotrepository.go` | config maps, deployment, repositories | create, update, delete |
| Managed objects | `role.go`, `users.go`, ... and their controllers | one custom resource and one object in OpenSearch each | create, update, refuse to adopt, delete |
| Migration | `controllers/migration_controller.go` | the resources of the old and of the new API group | copy, synchronise status, delete |
| Resource reconciler, helpers | `pkg/reconciler`, `pkg/helpers` | | create, update or recreate a resource; list operations |

The reconcilers of a cluster run one after the other in each pass, in the order TLS,
security configuration, configuration, cluster, scaler, dashboards, upgrade, restart,
snapshot repositories; an error or a requeue of one ends the pass. Passes of one cluster
never overlap (one work queue key), and a new one is queued after 30 seconds at the latest.

They interact through shared state: scaler, restart and upgrade use one exclude list, and
each of them cleans it; scaler and recovery read each other's traces in the status list;
`Status.Initialized` decides about the bootstrap pod, the security configuration, the
restart and the recovery.

The behaviours worth checking are therefore the ones that `hazards` in `PROJECT.json`
lists at their lines: crashes between two calls, lost answers, edits in the middle of a
procedure, stale copies of the resource or of a StatefulSet's status, procedures that wait
for each other, and counts at their limits (no replica, one master, two data nodes).

## The modules

| Module | Models |
|---|---|
| `ComponentStatus` | the list of status entries: `FindFirstPartial`, `RemoveIt`, `Replace`, with what they do to the caller's slice |
| `ExcludeList` | adding a node to and removing it from `cluster.routing.allocation.exclude._name` |
| `Scaler` | `scaler.go`, `util.CleanStaleExclusionList` |
| `RollingRestart` | `rollingRestart.go` and the functions of `os_data_service.go` it uses |
| `Upgrade` | `upgrade.go`, with the restart that takes over when versions agree |
| `EmptyDirRecovery` | `emptydir_recovery.go`, the recovery in `cluster.go`, and what later passes do to bring the cluster back |
| `NodeStatefulSet` | `reconcileNodeStatefulSet` in `cluster.go`: creation, update, re-creation, volumes, parallel recovery |
| `SecurityConfig` | `securityconfig.go`: secrets, the generated configuration, the job that uploads it |
| `Resource` | `pkg/reconciler/resource.go`: create, update, delete one Kubernetes object |
| `Certificates` | which certificates `tls.go` and `pki.go` issue, keep and renew |
| `ClusterPass` | `opensearchController.go` and all reconcilers of a cluster in their order, on `Resource` and `Certificates` |
| `ManagedObject` | roles, tenants, action groups, users, index and component templates, ISM and snapshot policies: reconcilers, controllers, webhooks |
| `ObjectOwnership` | the abstract specification that `ManagedObject` implements |
| `UserRoleBinding` | `userrolebinding.go`, its controller and webhook |
| `Migration` | `migration_controller.go` and the webhooks of the legacy API |
| `ScalerProofs`, `RollingRestartProofs`, `UpgradeProofs`, `SecurityConfigProofs`, `ClusterPassProofs`, `ClusterPodsProofs`, `ManagedObjectProofs`, `MigrationProofs` | lemmas and theorems |
| `MC...` | instances for TLC |

All of them are modelled the same way. One process, the reconcile worker, has a
program counter `pc`, `"idle"` between passes, and local variables: `inst` is what the
code has of `r.instance`, read at the start of the pass and possibly stale from then on.
A step of the worker extends to its next call that changes state outside of it, reads
included that the code makes just before; where the code reads, does something else and
then acts on what it read, the steps are separate. A call may fail without effect, or have
its effect and its answer be lost; what the worker then does (go on with the next pool, or
return the error) is taken from the code at that place. A crash loses the locals. Nothing is
remembered that the code does not store; history variables, which only properties read, are
named as such (`lostFor`, `relapsed`, `edited`, `disturbed`, `orderly`, `renamed`,
`unguarded`, `causes`).

The parts outside of the repository are modelled by how the code uses them and marked
external in the map: the StatefulSet controller (ordered creation and removal of pods, the
`OnDelete` strategy), kubelet, the job controller, the garbage collector, shard allocation
and the election of a leader.

*Scaler.* `status` is the list of the scaler's entries, each with a stage (`Running`,
`Excluded`, `Drained`, `Waiting`), a pool and, from `Excluded` on, a node. `sts` are the
replicas in the StatefulSets, `shards` the nodes that hold any shard. `StartScaling`,
`ExcludeNode`, `SetExcluded`, `WatchDrain`, `SetDrained`, `DecreaseOneNode`, `DropStatus`,
`IncludeNode`, `IncreaseOneNode` and `SettlePool` are the stages of `reconcileNodePool`;
`Removal...` those of `removeStatefulSet`. `SettlePool` keeps what the code does with a
closure that is run again after a conflict on a slice it has shifted in place.

*RollingRestart.* `seen` is what a StatefulSet's status reports, which lags behind the
pods; `current` are the pools whose current revision was set; `data` says of each node
whether it holds shards, they are moving off, it is empty, or copies on it are missing
(the cluster is then not green). `CheckPendingPool`, `CheckUpdatedPool`,
`SetCurrentRevision` are the loop of `Reconcile`; `SelectCandidate` is
`globalCandidateRollingRestart`; the steps from `CheckHealth` on are
`restartSpecificPod`.

*Upgrade.* `want` is the version in the resource, `version` the recorded one, `templ` the
version in each StatefulSet's template, `seen` what its status reports, `runs` what each pod
runs; `entries` are the status entries of the upgrade. `FindNextNodePoolForUpgrade` is the
order of the pools, `DoNodePoolUpgrade` the steps of one pool. Each of the `shards` has a primary
and a replica, which are lost with their nodes (`Lost`), promoted, allocated and moved: not to an
excluded node, nor to one of an older version than that of the primary (`MayTake`). This is what
`CheckClusterRestartOnYellow`, `DetectShardStuckVersionMismatch` and `SafeToDelete` ask about
before a pod is deleted.

*EmptyDirRecovery.* Time is in ticks: `age` is the age of the recorded observation,
`lostFor` the duration of the real loss, and `relapsed` says that pods were lost again after an
observation was recorded. A pod is `empty` after its
volume was lost, `held` once it has joined a cluster with a leader, and `ready` when its
probe can log in, which needs the security index. The passes that follow the deletion are
part of the model (security configuration job, bootstrap pod, StatefulSets, dashboards),
since only they bring the cluster back.

*NodeStatefulSet.* One pool: `want` is what the resource asks for, `sts` the StatefulSet,
which is `going` between the call that deletes it and its end, `pods` and `podLabels`,
`pvcs` with their sizes. The steps follow `reconcileNodeStatefulSet` from top to bottom;
`DeleteAndWait`, `CreateParallel`, `AwaitPods` and
`EndRecovery` are the parallel recovery.

*SecurityConfig.* A content is what the user's files say together with the salted hashes of
the passwords; the job was made for one content (`sum`) and has read another, perhaps
(`read`). `index` is the security index. Nodes are ready only with a password that opens
the index, and, once the cluster is initialized, the job reaches ready nodes only: this
mutual dependence is what `ConfigIsApplied` is about.

*ClusterPass.* `obj` maps each kind of Kubernetes object to its content, through the
operators of `Resource`; `Steps` is the order of the reconcilers and `Takes` which of them
a set-up needs. Certificates carry who signed them and until which day they are valid. A
pod records what it was started with: template, certificates, configuration. `formed` counts
the clusters that were bootstrapped, `disk` says whether the bootstrap pod's volume holds
cluster state. Scaler, restart, security configuration and the details of a StatefulSet are
reduced here to single steps, since they have modules of their own.

*ManagedObject.* Each kind's `...Reconcile` and `...Delete` is the sequence of its steps in
the order of the code; the steps are shared. `server` are the objects inside OpenSearch with
their `maker`: 0 for others (`Late` when they came after the operator had looked), otherwise the
uid of a resource. The refinement mapping to
`ObjectOwnership` looks at one name and forgets content, status and cluster; templates and
policies, which have other rules, are mapped to "none", and so is what happens in a cluster
that is being deleted.

*Migration.* `old` and `new` are the two resources with finalizers and annotations,
`owners` says which generation of which resource owns each secret. `unguarded` records that
a user deleted something before the controller had its finalizer or the secrets in place.

## What is checked

### Passing runs

| Run | Instance | Shows |
|---|---|---|
| `scaler` | two pools of 0 to 2 nodes, one removable, with and without SmartScaler, 2 edits of settled pools, 1 fault | `DrainingNodeIsExcluded`: a node stays on the exclude list from the record of its drain to its removal, whatever fails and whoever cleans the list; `ObsoletePoolsAreDrained`: a pool that was taken out of the resource shrinks only by empty nodes; `ScalingSettles`: in the end the replicas are as asked for, all ready, with no entry and no exclusion left; `TypeOK`: no ordinal -1 and no replicas out of range |
| `restart` | 3 masters, 3 data nodes, with and without `DrainDataNodes` and failing pods, 1 change, 1 fault | `RestrictionIsRecorded`: an allocation restricted to primaries is always on record; `OnePodDown` and `OneNodeMissing`: one pod, and the shard copies of one node, are away at a time; `RestartCompletes`: every pod gets to the new revision and allocation is unrestricted in the end |
| `upgrade` | 3 data nodes, 1 with data and the master role, 1 shard; draining, failing pods, lagging status or archived settings; 3 versions, 2 events | `ShardsStayAvailable`: no shard loses its primary, although pods are also deleted while the cluster is yellow; `MastersAreLast`: a master goes down only when the pools with data alone are done; `VersionIsRun`: the recorded version runs everywhere and is no downgrade; `UpgradeCompletes` |
| `emptydir` | 3 masters, 1 data node; 2 events: losses of one, two or all masters, the data node or all nodes, scalings, faults | `BootstrapsOnlyAfterLoss`: the bootstrap pod, which may found a second cluster, is not started next to most of the masters; `ActsOnSustainedLoss`: the cluster is deleted only after pods were missing for the whole grace period, or after a second loss; `ClusterRecovers`: all nodes, the security index and the dashboards come back, unless the loss stays `Unnoticed` or the recovery was cut short (`JobLeft`) |
| `node_pool` | 2 or 3 replicas, two disk sizes or emptyDir, a disruption budget, valid or not, labels from before or after the migration, 2 events | `Settles`: the StatefulSet becomes what the resource says and all pods, orphaned or not, are adopted and ready; `VolumesAreResized` |
| `securityconfig` | secrets provided or generated, 2 passwords, 2 contents, 2 events | `FilledCompletely`: no index with only some of the files; `ReadyMeansApplied`: an entry says Ready when the content of the generated secret is in the index; `ConfigIsApplied`: although nodes and job wait for each other, what the secrets say gets into the index |
| `cluster_pass` | six set-ups (transport certificates per node, for all, from a given CA, provided, missing; dashboards with TLS and two repositories, one refused) and two the webhook refuses; up to 2 nodes, 1 or 2 events, a clock in one | `SingleCluster`: one cluster is ever bootstrapped; `NodesTrustEachOther`: running nodes have certificates of one CA; `PodsFindTheirCertificate`: there is one, and a configuration, for every pod that may start; `PodsRunTheirConfig`: a pod runs the configuration its template's hash stands for, or a later one; `CertificatesAreRenewed`; `PassConverges`: the cluster becomes what the resource says, or is gone |
| `managed_object` | 8 kinds, 2 names, 2 documents, 2 events, 1 fault | `NeverTouchesForeign`: what others had made before the operator looked is neither changed nor deleted; `Converges`: OpenSearch holds what the resource says in the end; `DeletionCompletes`; and the refinement `OwnsByTheRules` |
| `bindings` | 2 bindings, 2 roles, 2 subjects and a foreign one, 1 edit, 1 trouble | `KeepsOthersSubjects`: subjects no binding names stay in their mappings; `GrantsHold`: every subject gets its roles; `RevokedSubjectsLeave`: after orderly edits, those that are not named any more have left |
| `migration` | 10 kinds, 2 secrets, 4 events | `NothingIsLost`: an old resource goes only when the new one is there or was deleted on purpose; `CertificatesSurvive`: the garbage collector takes no secret of a migrated cluster; `Migrates`, `DeletionFollows`: migration and deletion are completed |

The other modules have a `TypeOK` as well, which says what the variables range over; it is not
listed as a property of its run.

Each property of each run comes with a mutant: a form of one definition with a plausible bug,
under which TLC finds the property violated.

### Runs that find a violation

`docs/userguide/main.md:391` promises that "the safe drain process ensures that all of its data
is transferred to other nodes in the cluster before the node is taken offline". Two runs refute
this.

`scaler_drain`: while a drain is watched, an error of `GET _cat/shards` is logged and taken for
the answer "no shards" (`scaler.go:377`); the next pass removes the node with what it holds
(`RemovesOnlyEmptyNodes`). Edits of the replicas up and down during a drain do the same:
`Excluded` and `Drained` are acted on whatever the difference of replicas is by then
(`scaler.go:192-202`). Of pools that are taken out of the resource, where an error ends the
removal, `ObsoletePoolsAreDrained` shows the promise to be kept.

`node_pool_drain`: a StatefulSet whose deletion, with its pods orphaned, ends after the pass
that asked for it is created by a later pass with the replicas of the resource
(`cluster.go:224`), not with those it had. When these were reduced meanwhile, nodes go
without a drain (`DrainsFirst`). After the replacement of an immutable field it is always a later
pass: the object still carries the `ResourceVersion` of the refused update
(`resource.go:472`), with which it cannot be created (`cluster.go:356`).

### Other behaviours the models show

These have no run of their own. Where a property names an exception, it is one of these.

Scaling, restart, upgrade:

- A scaler that gets to a resource with no replica in any pool waits for ever for shards that
  have nowhere to go (`ScalingSettles`).
- The exclusion of a removed node is lifted while its pod still runs (`scaler.go:275`), so
  `AllocateShard` may give it a shard that is lost in `PodGone`.
- A pool that is taken out of the resource while it is drained leaves its entry `Excluded`
  behind, and `StartPass` never cleans the exclude list again (`scaler.go:65`).
- The scaler returns the requeue of its last pool only (`scaler.go:77-83`). While another
  pool is drained the pass may go on to the upgrade or the restart, which clean the exclude
  list without asking whether a drain is recorded (`upgrade.go:122`,
  `rollingRestart.go:182`). The modules are not composed; this is read off their guards.
- `SelectCandidate` takes the lowest ordinal of a pool (`helpers.go:939`); the design says
  "prefer highest ordinal" (`docs/designs/rolling-restart-improvements.md:53`).
- Shards that are moving are not counted when a node is checked for being drained
  (`os_data_service.go:648`), so a pod may be deleted with shards on it (`OnNode`); the health
  check before it has seen to it that they have another copy.
- The guide says that the upgrade is "waiting after each node for the cluster to stabilize and have a
  green cluster status" (`docs/userguide/main.md:1343`). While allocation is restricted, a missing
  replica whose primary is on an upgraded node counts as stuck as soon as one node is too old
  for it, although another upgraded node could take it (`os_data_service.go:689-716`): the next pod is
  then deleted in a yellow cluster. `ShardsStayAvailable` holds nevertheless.
- With a single master the check of the quorum never lets it restart
  (`rollingRestart.go:286`).
- A removal from the exclude list that fails after the last restarted pod is not retried,
  since the list is cleaned only while an update is pending (`rollingRestart.go:182`). With
  two data nodes and a second change this ends in a deadlock: the exclusion keeps the
  cluster yellow, and a yellow cluster keeps the exclusion (`os_data_service.go:243`).
- The version recorded at the end of an upgrade is the one asked for by then
  (`upgrade.go:158`), which pods may not run yet; the restart brings them there. A lagging
  status marks a pool as upgraded that is not. A version changed back leaves entries and a
  restriction of allocation (`edited = "revert"`). With draining, edits that overlap an
  upgrade, or archived settings, can leave exclusions.
- A version that validation refuses is nevertheless written to the templates
  (`reconcile-helpers.go:40-66`), and pre-release versions are always refused.

Recovery and node pools:

- The observation of a loss is never cleared, since `RemoveIt` looks for an entry with other
  fields (`cluster.go:559`): a later, short loss deletes the cluster at once (`relapsed`).
- A recovery that was interrupted is not resumed (`cluster.go:496-508`); the job of the old
  cluster keeps the security index from being created (`JobLeft`).
- Two of three masters lost: one recreated empty pod is enough for the loss not to be
  suspected (`emptydir_recovery.go:26`). Masters lost during a scaling: the recovery waits
  for the scaler, the scaler for a cluster that answers (`cluster.go:410`). Both are `Unnoticed`.
- Volumes are not resized when an edit or a failure comes while the pool is changed: the
  StatefulSet then has the new size already, and only its size is compared
  (`cluster.go:610`). Neither are the volumes of removed replicas.
- Errors while pods are relabelled are ignored (`cluster.go:340`); such a pod is never
  adopted. Parallel recovery does not begin while a volume is missing, for instance
  that of a new replica, nor does it count volumes with the labels of before the migration
  (`Stuck`).

Security configuration:

- The count and time of retries are overwritten with those read at the start of the pass
  (`securityconfig.go:234`), so that retries do not back off as the "backoff window" of
  `securityconfig.go:218` means them to.
- A content that is changed and changed back while the job reads it counts as applied
  (`ReadyMeansApplied`, `job.read # job.sum`).
- A new admin password that the nodes mount before the job has uploaded it makes them
  unready, and an initialized cluster has then no node for the job to reach (`LockedOut`).

Certificates and the cluster pass:

- Any error while the CA is read is taken for its absence (`util.go:74`), and the same for
  the certificate of dashboards (`dashboards.go:152`). Certificates of nodes are renewed by
  days left, never because the CA changed (`tls.go:506`), and `IsSignedByCA` compares names
  only (`pki.go:275`): after the loss of a CA old and new nodes do not trust each other
  (`causes`).
- A certificate that lives no longer than `RotateDaysBeforeExpiry` is reissued in every
  pass (`tls.go:555`); the one of dashboards is never renewed.
- A config map of dashboards that cannot be written does not keep the deployment from being
  written with its checksum (`dashboards.go:100-115`).
- Dashboards that are switched off, and repositories that are taken out of the resource,
  stay.
- Transport TLS with neither `generate` nor a secret passes the webhook unless `enabled` is
  set, and fails every pass.

Managed objects:

- Roles and ISM policies show `created` also while they wait for the cluster
  (`role.go:73-78`).
- A policy that was created and not recorded as the operator's own is taken for a
  pre-existing one and ignored from then on (`ismpolicy.go:211-244`). The deletion of a
  policy that is gone already is retried without end.
- Renaming a component template leaves the object of the old name behind.
- `Delete` does not look at `Status.ManagedCluster`: after the cluster was created again
  under the same name it deletes there. `Reconcile` looks at it once, so that a pass that is under way
  when the cluster is replaced may write to the new one.
- The password secret is written back as a whole (`users.go:259`), so that a change of the
  password meanwhile may be undone.
- A binding that is edited or deleted before it was provisioned leaves subjects in mappings
  (`orderly`).

Migration:

- An old cluster that is deleted before its secrets were moved takes them with it
  (`unguarded`), although a comment says the transfer prevents this
  (`migration_controller.go:274-276`).
- A new resource that is deleted before the controller has put its finalizer on it is
  created again.
- An old resource that is deleted before its migration is never migrated: the guide says that
  the deletion waits "until the new resource is created"
  (`docs/userguide/migration-guide.md:213`). Without the migration finalizer it keeps the one of
  the old operator for good.

### Bounds

Edits, faults, losses and events are bounded by `MaxEdits`, `MaxFaults`, `MaxEvents` and
`MaxTroubles`, days by `MaxDays`, re-creations by `MaxGen`; and the delay of retries by
`MaxRetryDelay`; nothing else is cut. Two pools let one pool's procedure run into another's;
three nodes of a pool let a second node be scaled or restarted while the first is under way,
and three masters are the smallest number with a quorum that tolerates a loss. One fault is
enough for each way in which a procedure can be interrupted; two let the repair be interrupted
as well, or an edit meet a failure. Set-ups are chosen in `Init`, so that one run covers them
all; those whose procedures are long have one event. A grace period of two ticks distinguishes
a young, an ageing and an old observation. `EditWhileScaling` and `podsMayFail` name
assumptions; what happens beyond is said above. One shard with a replica is enough for
`upgrade`, since shards do not compete for nodes; an instance with two shards, two data nodes,
one with data and the master role and a master passed as well, but took ten minutes. A shard
has one replica throughout. With two data nodes in all, where only system indices are waited
for (`HasIndexPrimariesOnNode`), a drain ends only because OpenSearch reduces the replicas of
these indices by itself (`auto_expand_replicas`), which is not modelled: `UpgradeCompletes` is
checked with more data nodes only. The invariants about one pod at a time are stated for pods
that do not fail on their own: no operator could promise more. Symmetry is not used, since
pools and ordinals are ordered.

Deadlock is checked except where the system really may stop: the deleted resource in
`managed_object`, `migration` and `cluster_pass`.

### Fairness

Weak fairness of the worker's steps: a pass that fails is requeued with a back-off, and
one that succeeds after 30 seconds, so that the next step is always taken. Weak fairness
of the StatefulSet controller, of pods becoming ready, of the recovery and moving of
shards, of the end of jobs and deletions, and of a stopped cluster that is started again. Strong
fairness in three places where something that is only possible now and then gets its turn:
each binding in the work queue, which is first in, first out (`UserRoleBinding`), time while
jobs run (`SecurityConfig`), and shards leaving an excluded node while pods come and go
(`NodeStatefulSet`). No fairness for users, faults, losses, the clock of certificates and
rebalancing.

## What is proved

The proofs hold for every number and size of pools, every bound and every setting that the
assumptions of the modules allow. `ScalerAssumption`, `RestartAssumption` and
`UpgradeAssumption`: at least one pool, for scaler and restart distinct pool names, natural
numbers as replicas and bounds, for restart and upgrade at least one data node, versions that
consist of numbers, and shards that have their replica on another node at first.
`CertificatesAssumption` and `ClusterPassAssumption`: a finite set of ordinals, set-ups with at
least one replica that keep to the bounds. `SecurityConfigAssumption`, `ObjectAssumption` and
`MigrationAssumption`: at least one name and one document, natural numbers as bounds. All of
them ask that the value that stands for "nothing there" is none of the things that can be
there. That the number of ordinals is a natural number, in `ClusterPassAssumption`, follows
from their being finitely many; it is written down because that saves the provers a library.

Where a property has an exception, so has its theorem: the antecedents (`edited = "apart"`,
`conf.lagging = {}`, `renamed`, `causes`, `unguarded`) are those of the checked property, and
the list above says what happens beyond them.

*ScalerProofs*: `ScalerTypeCorrect` and `ObsoleteNodesLeaveEmpty`
(`ObsoletePoolsAreDrained`). `TypeOK` is not inductive: that replicas stay within their
range depends on what the worker has read before. `Scaler!IInv` adds, for each `pc`, that
the pools to visit are those of the pass, that the current pool lacks a node in `increase`
and has one from `exclude` to `decrease`, and, while an obsolete pool is removed, that its
last node stays excluded and then empty, so that allocation cannot put a shard on it
between the check and the update. The lemmas at its beginning say that `RemoveIt`
and `Replace`, and the slices they leave behind, are again lists of entries.

`DrainedNodeStaysExcluded` (`DrainingNodeIsExcluded`) is about the drains the status records,
in which exclusion, check and removal lie in different passes. It has a hypothesis,
`~EditWhileScaling`: the user edits a pool only after its last scaling is complete (other pools
may be in the middle of theirs); without it the code does not have the property. That the node
is also empty cannot be proved, since the code does not ensure it (`scaler_drain`). The
difficulty is the list a pass has read: it may be older than the resource, hold several entries
of a pool, and be written back as a whole for the sake of another pool. `Scaler!DrainInv` says
of every entry of a drain, in the resource and in the list of the pass, that it is out of date
(its node is no longer in the StatefulSet) or true: its node is the last one, one too many, and
excluded (`EntryInv`). An entry that is out of date must not become true again when the pool
grows; so while a pool lacks nodes the entries of drains come before the others, where
`FindFirstPartial` finds them and the worker resets them before it adds a node (`OrderInv`).
`VisitInv` says what a pass still knows about the pools it has not visited, `StageInv` what it
has established between two calls. TLC checked `DrainInv` with one and with two pools before it
was proved.

*RollingRestartProofs*: `RestartTypeCorrect`, `RestrictionAlwaysRecorded`,
`RestartTakesOnePodDown` and `RestartLosesOneNode`. `RollingRestart!IInv` adds `Recorded`
(what the status says in each step, that no pod of an old revision is reported as updated)
and, when pods do not fail on their own, `Undisturbed`: the pools the worker has checked
stay ready until it deletes the candidate, a report of "updated and ready" is true, since
only the worker takes pods down and only those of an old revision, and no copy is missing
from the health check until the deleted pod is gone. The second and third facts hold
because a pool can get new work only by a change of its template, which takes back the
report.

*ClusterPassProofs*: `BootstrappedOnce` (`SingleCluster`). That `formed` is at most 1 says
nothing about whether the bootstrap pod could come back with an empty disk. `Inv` adds why
it cannot: once a cluster was formed, its disk is gone only when the resource is
initialized or gone (`Over`) and there is no bootstrap pod object; the volume is deleted only
then; and the worker is never wrong about `Status.Initialized`: from the step at the start of
the pass that reads and sets it (`opensearchController.go`, `reconcilePhaseRunning`) to the end
of the pass nobody else changes it, so that the pod is created (`cluster.go:118-133`) only by a
pass for which the cluster is really not initialized.
The actions are grouped by what they leave alone: most keep volume,
bootstrap pod and flags (`OrdinaryKeeps`, `CallKeeps`, `QuietKeeps`), and only the few
others need a step of their own.

*ClusterPodsProofs*: `NodesOfOneCa` (`NodesTrustEachOther`), `EveryPodHasItsCertificate`
(`PodsFindTheirCertificate`) and `ConfigIsInForce` (`PodsRunTheirConfig`). Each is about
something that one step of a pass stores and a pod loads much later. `ClusterPassProofs!IInv`
ties the two together. `ConfigInv`: after the step of the configuration the config map is of the
generation of the pass and never newer than the resource, and the checksums in the template and in
pods are not newer than what is stored, also in a volume that is edited. `CertInv`: after the step
of the certificates each node below the replicas of the pass has one, so has each below those of
the StatefulSet, and certificates are never taken away. `TrustInv`: while no CA was lost (`causes`)
all secrets, pods and the CA a pass carries are of the CA that is stored or provided. All three
rest on `GotoInOrder`: no pass gets to a step without those before it that the set-up takes. A
volume that the user drops keeps a pod from starting whatever the operator does, and is not
part of `PodsFindTheirCertificate`.

*UpgradeProofs*: `UpgradeTakesMastersLast` (`MastersAreLast`), `UpgradeRecordsWhatRuns`
(`VersionIsRun`) and `UpgradeKeepsShards` (`ShardsStayAvailable`). The first two need to know
when the entries can be believed. `PassInv`: templates have the version of the pass after its
first step, and a status that counts all pods of its template is right. `ApartInv`, while edits
do not overlap an upgrade: entries belong to one valid upgrade, and the pods of a pool that is
marked `Upgraded` run its version. The third is about deleting pods of a yellow cluster.
`VersionsInv`: templates and pods have the recorded version or the one asked for, which is
greater; so a replica for which a node is too old has its primary on an upgraded node.
`CopiesInv`: a replica is on a node of its own, which is up. `DeleteInv`: no shard is without
its primary, and from the health check to the deletion the pod at hand has the old version,
while a shard without a replica has its primary on a node of the new one. Allocation keeps
this, since a copy is given up only when the new one is there, and a primary never moves to an
older node (`AllocationKeeps`).

*SecurityConfigProofs*: `FirstJobFillsTheIndex` (`FilledCompletely`) and `ReadyConfigIsApplied`
(`ReadyMeansApplied`). `EmptyInv` is why the first job has all files: as long as the index is
empty no node was ready, so that neither the resource nor the copy of it in the pass says
initialized, and every job that exists was made to upload all. `AppliedInv`: a job that
succeeded with the content it was made for has left it in the index.

*ManagedObjectProofs*: `ForeignObjectsStay` (`NeverTouchesForeign`) and the refinement
`ObjectsAreOwned` (`OwnsByTheRules`). At each call
that writes, the pass acts on what it saw some steps earlier, so `ManagedObjectProofs!IInv` says
for each step what the steps before it have established (`StepInv`), which steps can follow
(`Linked`), that the resource cannot go under a pass, since its finalizer is there, and agrees
with the copy in what matters (`ResourceInv`), that there are no objects where there is no
cluster (`ClusterInv`), and that what the operator made belongs to the resource that is there
(`OwnerInv`). The refinement is shown step by step: `Init` maps to `Init`, and a step of the worker,
of users or of the cluster to a step of `ObjectOwnership` or to none.

*MigrationProofs*: `MigrationLosesNothing` (`NothingIsLost`) and `MigrationKeepsSecrets`
(`CertificatesSurvive`). `LossInv`: the finalizer of the old resource is removed only by a pass that
found the new one. `OwnerInv`, `FreshInv` and `CertInv`: a new resource that is noted to have all
secrets has them, one that was just created has none, and when the old resource is going, not
because of a deletion of the new one, every secret belongs to the new one. `MarkInv` keeps the two
directions of deletion apart.

Each theorem has the usual three steps: `Init => IInv`, `IInv /\ [Next]_vars => IInv'` with
one lemma or step per action, and the property from `IInv` (`DrainInv` likewise, on top of `IInv`).

Only model-checked: all liveness properties and the use of fairness, which the prover does
not handle; everything about `EmptyDirRecovery`,
`NodeStatefulSet` and `UserRoleBinding`; and the operators of `Certificates` beyond what the pods
need (renewal is a liveness property).

Liveness under fairness and `ENABLED` are beyond the prover, and so is induction over data;
no module declares a recursive operator, with which it cannot deal either.

## What is not modelled

Not at all: API types and generated code, mocks, the HTTP client, metrics and `main.go`, the
merge of JSON patches, and cryptography beyond who signed what until when. Of the builders,
which map a specification to Kubernetes objects without state, only the fields other parts
react to. Logging and events are left out everywhere. The informer cache is modelled only
where its delay matters for a property (`inst`, `seen`, `lagging`); the API server is
otherwise read as it is, and the migration's cache in particular is taken to be current.

Of parts that are modelled: the one-time repair of selectors with `opensearch.role`
(`cluster.go:235-246`), config maps per node pool, the reload of certificates by running
nodes, and the webhook's check of storage classes. Scaler, restart and upgrade are not composed with
each other on one exclude list; each cleans the list the way it does, and `Upgrade` and
`ClusterPass` contain the restart in a reduced form.
