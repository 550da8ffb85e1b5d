--------------------------- MODULE SecurityConfig ---------------------------
(***************************************************************************)
(* How the security configuration gets into the cluster                    *)
(* (pkg/reconcilers/securityconfig.go).  Every pass merges the user's      *)
(* files with the hashes of the admin's and the dashboards' passwords into *)
(* a generated secret, and runs a job that uploads it; an annotation of    *)
(* the job tells which content it was made for.  The job reads the secret  *)
(* when its pod starts.  A failed job is replaced after a delay.           *)
(*                                                                         *)
(* The pass goes on to the reconcilers that build the nodes only when the  *)
(* job is not at work, and the job needs nodes to talk to.  The nodes in   *)
(* turn are ready only when the admin's password that is mounted into      *)
(* them opens the cluster, and only ready nodes are reached through the    *)
(* service, apart from the bootstrap pod of a cluster that is being made.  *)
(*                                                                         *)
(* A step ends with one call that changes state outside the worker.        *)
(* Calls fail, with or without effect, and the process crashes.            *)
(***************************************************************************)
EXTENDS Integers, FiniteSets

CONSTANTS
    Confs,          \* the set-ups to consider, a subset of Conf
    Sources,        \* what the user's securityconfig secret may hold, a subset of Source
    Passwords,      \* passwords
    MaxRetryDelay,  \* securityConfigMaxRetryDelay, in units of securityConfigInitialRetryDelay
    MaxEvents,      \* bound on edits, failed calls, failed jobs and crashes
    None            \* no secret, no job, no hash

VARIABLES
    \* Kubernetes
    conf,       \* who provides which secret, see Conf
    source,     \* the user's securityconfig secret
    admin,      \* the password in the secret with the admin's credentials
    dash,       \* the password in the secret with the credentials of the dashboards
    generated,  \* the generated securityconfig secret
    job,        \* the update job
    made,       \* Status.AdminSecretCreated and Status.ContextSecretCreated
    component,  \* the status entry of the component "Securityconfig"
    nodes,      \* "none", "started" or "ready": what the other reconcilers have built
    mounted,    \* the admin's password as the nodes see it
    initialized,\* Status.Initialized
    \* OpenSearch
    index,      \* file -> its content in the security index
    \* the reconcile worker
    pc, inst, read, build,
    events      \* the bound

secrets == <<source, admin, dash>>
status == <<made, component, initialized>>
built == <<nodes, mounted>>
worker == <<pc, inst, read, build>>
vars == <<conf, source, admin, dash, generated, job, made, component, nodes, mounted, initialized, index,
          pc, inst, read, build, events>>

\* Does the user name a secret for the admin's and for the dashboards' credentials?
Conf == [ownAdmin : BOOLEAN, ownDash : BOOLEAN]

\* Of the files of a securityconfig two are told apart: internal_users.yml, which the operator always
\* has, and the rest.  A file of the rest is absent or without content, or it holds a value.
File == {"users", "rest"}
Source == [users : {"default", "a"}, rest : {"absent", "a", "b"}]

\* bcrypt salts its hashes: two hashes of one password differ.
Salt == 0..3
Hash == Passwords \X Salt
Content == [users : {"default", "a"}, rest : {"absent", "a", "b"}, admin : Hash, dash : Hash]

\* The conditions of the status entry: how often the job was retried, and how long ago; no
\* conditions read like none of either.
Ages == 0..MaxRetryDelay
Never == -1
Conditions == [count : Nat, age : Ages \cup {Never}]
NoConditions == [count |-> 0, age |-> Never]
NoInst == [initialized |-> FALSE, conditions |-> NoConditions, made |-> [admin |-> FALSE, context |-> FALSE]]
NoBuild == [sum |-> None, reset |-> FALSE]
NoRead == [source |-> None, admin |-> None, dash |-> None]

ASSUME SecurityConfigAssumption ==
    /\ Confs \subseteq Conf /\ Sources \subseteq Source
    /\ MaxRetryDelay \in Nat \ {0} /\ MaxEvents \in Nat
    /\ None \notin Passwords /\ None \notin Source /\ None \notin {"default", "absent", "a", "b"}

Made == [admin : BOOLEAN, context : BOOLEAN]
UsersFile == {"default", "a"} \X Hash \X Hash

TypeOK ==
    /\ conf \in Conf /\ source \in Sources \cup {None}
    /\ admin \in Passwords \cup {None} /\ dash \in Passwords \cup {None}
    /\ generated \in Content \cup {None}
    /\ job # None => /\ job.sum \in Content /\ job.read \in Content \cup {None}
                     /\ job.all \in BOOLEAN /\ job.gone \in BOOLEAN
                     /\ job.state \in {"new", "active", "succeeded", "failed"}
    /\ made \in Made /\ component.state \in {"none", "Running", "Ready", "Failed"}
    /\ component.conditions.count \in 0..MaxRetryDelay
    /\ component.conditions.age \in Ages \cup {Never}
    /\ nodes \in {"none", "started", "ready"} /\ mounted \in Passwords \cup {None} /\ initialized \in BOOLEAN
    /\ index.users \in UsersFile \cup {None} /\ index.rest \in {"default", "a", "b", None}
    /\ pc \in {"idle", "admin", "made", "dash", "write", "context", "job", "delete", "running",
               "create", "nodes"}
    /\ inst.made \in Made /\ inst.initialized \in BOOLEAN
    /\ read.source \in Sources \cup {None}
    /\ read.admin \in Passwords \cup {None} /\ read.dash \in Passwords \cup {None}

\* A password that was made up is none that was in use.
NewPassword(old) == CHOOSE p \in Passwords : p # old

\* A resource that was just created; the secrets that the user names may be there or not.
Init ==
    /\ conf \in Confs /\ source \in Sources
    /\ admin = IF conf.ownAdmin THEN NewPassword(None) ELSE None
    /\ dash = IF conf.ownDash THEN NewPassword(None) ELSE None
    /\ generated = None /\ job = None
    /\ made = [admin |-> FALSE, context |-> FALSE]
    /\ component = [state |-> "none", conditions |-> NoConditions]
    /\ nodes = "none" /\ mounted = None /\ initialized = FALSE
    /\ index = [users |-> None, rest |-> None]
    /\ pc = "idle" /\ inst = NoInst /\ read = NoRead /\ build = NoBuild
    /\ events = 0

Event == events < MaxEvents /\ events' = events + 1
NoEvent == UNCHANGED events
EndPass == pc' = "idle" /\ inst' = NoInst /\ read' = NoRead /\ build' = NoBuild
Goto(next) == pc' = next /\ UNCHANGED <<inst, read, build>>
Answered(next) == (NoEvent /\ Goto(next)) \/ (Event /\ EndPass)
\* A call that fails without effect ends the pass.
Refused == Event /\ EndPass /\ UNCHANGED <<conf, secrets, generated, job, status, built, index>>
-----------------------------------------------------------------------------
(* The secrets *)

\* The controller first records whether all masters are ready, until they once were.
StartPass ==
    /\ pc = "idle"
    /\ initialized' = (initialized \/ nodes = "ready")
    /\ inst' = [initialized |-> initialized', conditions |-> component.conditions, made |-> made]
    /\ pc' = "admin" /\ NoEvent
    /\ UNCHANGED <<conf, secrets, generated, job, made, component, built, index, read, build>>

\* The password of a secret that the user provides, or of one that the operator makes when it is
\* not there.
EnsureAdminCredentialsSecret ==
    /\ pc = "admin" /\ NoEvent
    /\ \/ admin # None /\ UNCHANGED admin
       \/ admin = None /\ ~conf.ownAdmin /\ admin' = NewPassword(mounted)
    /\ read' = [read EXCEPT !.admin = admin']
    /\ pc' = IF inst.made.admin # ~conf.ownAdmin THEN "made" ELSE "dash"
    /\ UNCHANGED <<conf, source, dash, generated, job, status, built, index, inst, build>>

\* The pass ends when the secret that the user names is not there, or when the answer to the
\* creation is lost.
AdminCredentialsFail ==
    /\ pc = "admin" /\ admin = None /\ EndPass
    /\ \/ conf.ownAdmin /\ NoEvent /\ UNCHANGED admin
       \/ ~conf.ownAdmin /\ Event /\ admin' = NewPassword(mounted)
    /\ UNCHANGED <<conf, source, dash, generated, job, status, built, index>>

RecordAdminSecret ==
    /\ pc = "made" /\ made' = [made EXCEPT !.admin = ~conf.ownAdmin] /\ Answered("dash")
    /\ UNCHANGED <<conf, secrets, generated, job, component, initialized, built, index>>

\* The user's files are read, then the secret for the dashboards is handled like the admin's.
EnsureDashboardsCredentialsSecret ==
    /\ pc = "dash" /\ source # None /\ NoEvent
    /\ \/ dash # None /\ UNCHANGED dash
       \/ dash = None /\ ~conf.ownDash /\ dash' = NewPassword(None)
    /\ read' = [read EXCEPT !.source = source, !.dash = dash'] /\ pc' = "write"
    /\ UNCHANGED <<conf, source, admin, generated, job, status, built, index, inst, build>>

DashboardsCredentialsFail ==
    /\ pc = "dash" /\ EndPass
    /\ \/ (source = None \/ (dash = None /\ conf.ownDash)) /\ NoEvent /\ UNCHANGED dash
       \/ source # None /\ dash = None /\ ~conf.ownDash /\ Event /\ dash' = NewPassword(None)
    /\ UNCHANGED <<conf, source, admin, generated, job, status, built, index>>

\* The contents around: what is generated now, and what the job was made for and has read.
Known == {generated} \cup (IF job = None THEN {} ELSE {job.sum, job.read})
FreshSalt(used) == CHOOSE s \in Salt \ used : \A t \in Salt \ used : s <= t
FreshHash(password, known) == <<password, FreshSalt({h[2] : h \in known})>>

\* The hash in the generated secret is kept while it is one of the password.
UserHash(password, existing, known) ==
    IF existing # None /\ existing[1] = password THEN existing ELSE FreshHash(password, known)

Existing(field) == IF generated = None THEN None ELSE generated[field]

BuildGeneratedSecurityConfigSecret ==
    [users |-> read.source.users, rest |-> read.source.rest,
     admin |-> UserHash(read.admin, Existing("admin"), {c.admin : c \in Known \ {None}}),
     dash |-> UserHash(read.dash, Existing("dash"), {c.dash : c \in Known \ {None}})]

WriteGenerated ==
    /\ pc = "write"
    /\ generated' = BuildGeneratedSecurityConfigSecret
    /\ Answered(IF inst.made.context THEN "job" ELSE "context")
    /\ UNCHANGED <<conf, secrets, job, status, built, index>>

RecordContextSecret ==
    /\ pc = "context" /\ made' = [made EXCEPT !.context = TRUE] /\ Answered("job")
    /\ UNCHANGED <<conf, secrets, generated, job, component, initialized, built, index>>
-----------------------------------------------------------------------------
(* The job *)

AtJob == pc = "job" /\ generated # None
UpToDate == job # None /\ job.sum = generated
Record(state, conditions) == component' = [state |-> state, conditions |-> conditions]
KeepsJob == UNCHANGED <<conf, secrets, generated, job, made, initialized, built, index>>

\* The generated secret is gone again: the pass is tried again later.
WaitForSecret ==
    /\ pc = "job" /\ generated = None /\ NoEvent /\ EndPass
    /\ KeepsJob /\ UNCHANGED component

\* There is no job, or the call to get it failed, which is taken for the same.
NoJob ==
    /\ AtJob /\ ((job = None /\ NoEvent) \/ (job # None /\ Event))
    /\ build' = [sum |-> generated, reset |-> FALSE] /\ pc' = "running"
    /\ KeepsJob /\ UNCHANGED <<component, inst, read>>

OtherJob ==
    /\ AtJob /\ job # None /\ ~UpToDate /\ NoEvent
    /\ build' = [sum |-> generated, reset |-> TRUE] /\ pc' = "delete"
    /\ KeepsJob /\ UNCHANGED <<component, inst, read>>

\* Mutant of JobSucceeded: the content the job was made for is not compared.
AnyJobSucceeded ==
    /\ AtJob /\ job # None /\ job.state = "succeeded"
    /\ Record("Ready", NoConditions) /\ Answered("nodes") /\ KeepsJob

\* handleExistingSecurityConfigJob: the content is in the cluster.
JobSucceeded ==
    /\ AtJob /\ UpToDate /\ job.state = "succeeded"
    /\ Record("Ready", NoConditions) /\ Answered("nodes") /\ KeepsJob

\* The job is at work, or not yet: the pass ends here.
JobActive ==
    /\ AtJob /\ UpToDate /\ job.state \in {"new", "active"}
    /\ Record("Running", NoConditions) /\ NoEvent /\ EndPass /\ KeepsJob

\* securityConfigRetryDelay: doubled with every retry, up to a limit.
RetryDelay(count) == LET d == 2 ^ count IN IF d >= MaxRetryDelay THEN MaxRetryDelay ELSE d
\* Counts are not told apart once the delay is the longest.
Increment(count) == IF RetryDelay(count) = MaxRetryDelay THEN count ELSE count + 1
InWindow(c) == c.age # Never /\ c.age < RetryDelay(c.count)

JobBacksOff ==
    /\ AtJob /\ UpToDate /\ job.state = "failed" /\ InWindow(inst.conditions)
    /\ Record("Failed", inst.conditions) /\ NoEvent /\ EndPass /\ KeepsJob

\* Mutant of JobRetried: the job that failed stays.
JobGivenUp ==
    /\ AtJob /\ UpToDate /\ job.state = "failed" /\ ~InWindow(inst.conditions)
    /\ Record("Failed", [count |-> Increment(inst.conditions.count), age |-> 0]) /\ KeepsJob
    /\ NoEvent /\ EndPass

JobRetried ==
    /\ AtJob /\ UpToDate /\ job.state = "failed" /\ ~InWindow(inst.conditions)
    /\ Record("Failed", [count |-> Increment(inst.conditions.count), age |-> 0]) /\ KeepsJob
    /\ \/ /\ NoEvent /\ pc' = "delete" /\ UNCHANGED <<inst, read>>
          /\ build' = [sum |-> generated, reset |-> FALSE]
       \/ Event /\ EndPass

\* The deletion is complete when the pods of the job are gone.
DeleteJob ==
    /\ pc = "delete" /\ job # None
    /\ job' = [job EXCEPT !.gone = TRUE]
    /\ Answered("running")
    /\ UNCHANGED <<conf, secrets, generated, status, built, index>>

JobNotFound ==
    /\ pc = "delete" /\ job = None /\ NoEvent /\ EndPass
    /\ KeepsJob /\ UNCHANGED component

\* The retry conditions are those of the resource as the pass has read it.
SetRunning ==
    /\ pc = "running"
    /\ Record("Running", IF build.reset THEN NoConditions ELSE inst.conditions)
    /\ Answered("create") /\ KeepsJob

\* BuildCmdArg: the files that the secret holds.
Files(content) == {"users"} \cup (IF content.rest # "absent" THEN {"rest"} ELSE {})

\* Mutant of NewJob: only the files of the secret are ever uploaded.
NewJobOfFiles == [sum |-> build.sum, all |-> FALSE, state |-> "new", read |-> None,
                  gone |-> FALSE]

\* Until the cluster is initialized all files are uploaded, those of the image where the secret
\* holds none.
NewJob == [sum |-> build.sum, all |-> ~inst.initialized, state |-> "new", read |-> None,
           gone |-> FALSE]

CreateJob ==
    /\ pc = "create"
    /\ IF job # None THEN UNCHANGED job /\ NoEvent /\ EndPass
       ELSE job' = NewJob /\ Answered("nodes")
    /\ UNCHANGED <<conf, secrets, generated, status, built, index>>

\* The reconcilers that follow: they write the admin's password for the nodes and build these.
BuildNodes ==
    /\ pc = "nodes" /\ NoEvent /\ EndPass
    /\ \/ /\ admin = None /\ conf.ownAdmin /\ UNCHANGED <<admin, built>>
       \/ /\ admin = None /\ ~conf.ownAdmin /\ admin' = NewPassword(mounted)
          /\ nodes' = (IF nodes = "none" THEN "started" ELSE nodes) /\ mounted' = admin'
       \/ /\ admin # None /\ UNCHANGED admin
          /\ nodes' = (IF nodes = "none" THEN "started" ELSE nodes) /\ mounted' = admin
    /\ UNCHANGED <<conf, source, dash, generated, job, status, index>>

\* Any call fails without effect, or the process crashes.
PassFails == pc # "idle" /\ Refused
-----------------------------------------------------------------------------
(* The user, the job controller and the nodes *)

Edit ==
    /\ Event
    /\ \/ source' \in (Sources \cup {None}) \ {source} /\ UNCHANGED <<admin, dash, generated>>
       \/ admin' \in (Passwords \cup {None}) \ {admin} /\ UNCHANGED <<source, dash, generated>>
       \/ dash' \in (Passwords \cup {None}) \ {dash} /\ UNCHANGED <<source, admin, generated>>
       \/ generated # None /\ generated' = None /\ UNCHANGED secrets
    /\ UNCHANGED <<conf, job, status, built, index, worker>>

\* The pod of the job mounts the secret as it is now.
JobStarts ==
    /\ job # None /\ job.state = "new" /\ ~job.gone /\ generated # None
    /\ job' = [job EXCEPT !.state = "active", !.read = generated]
    /\ NoEvent /\ UNCHANGED <<conf, secrets, generated, status, built, index, worker>>

Reachable == nodes = "ready" \/ (nodes = "started" /\ ~initialized)
\* Are the files that are to be uploaded in the secret that the pod has mounted?
Complete == job.all \/ Files(job.sum) \subseteq Files(job.read)
UsersOf(content) == <<content.users, content.admin, content.dash>>

\* securityadmin uploads the files; one that is no longer in the secret cannot be.
JobApplies ==
    /\ job # None /\ job.state = "active" /\ Reachable
    /\ Complete
    /\ index' = [users |-> UsersOf(job.read),
                 rest |-> IF ~job.all /\ "rest" \notin Files(job.sum) THEN index.rest
                          ELSE IF job.read.rest = "absent" THEN "default" ELSE job.read.rest]
    /\ job' = [job EXCEPT !.state = "succeeded"]
    /\ NoEvent /\ UNCHANGED <<conf, secrets, generated, status, built, worker>>

\* The job fails when it cannot reach the cluster, and for other reasons.
JobFails ==
    /\ job # None /\ job.state = "active"
    /\ IF Reachable /\ Complete THEN Event ELSE NoEvent
    /\ job' = [job EXCEPT !.state = "failed"]
    /\ UNCHANGED <<conf, secrets, generated, status, built, index, worker>>

JobGone ==
    /\ job # None /\ job.gone /\ job' = None
    /\ NoEvent /\ UNCHANGED <<conf, secrets, generated, status, built, index, worker>>

\* Does the password that the nodes are given open the cluster?
Opens == index.users # None /\ index.users[2][1] = mounted

NodesReady ==
    /\ nodes = "started" /\ Opens /\ nodes' = "ready"
    /\ NoEvent /\ UNCHANGED <<conf, secrets, generated, job, status, mounted, index, worker>>

NodesUnready ==
    /\ nodes = "ready" /\ ~Opens /\ nodes' = "started"
    /\ NoEvent /\ UNCHANGED <<conf, secrets, generated, job, status, mounted, index, worker>>

\* The nodes mount the secret that the operator makes for the admin directly.
SyncMount ==
    /\ ~conf.ownAdmin /\ nodes # "none" /\ admin \notin {None, mounted} /\ mounted' = admin
    /\ NoEvent /\ UNCHANGED <<conf, secrets, generated, job, status, nodes, index, worker>>

Older(age) == IF age \in {Never, MaxRetryDelay} THEN age ELSE age + 1

\* Passes are short: time goes on between them.
Tick ==
    /\ pc = "idle" /\ component' = [component EXCEPT !.conditions.age = Older(@)] /\ component' # component
    /\ NoEvent /\ UNCHANGED <<conf, secrets, generated, job, made, initialized, built, index, worker>>
-----------------------------------------------------------------------------
Reconcile ==
    \/ StartPass \/ EnsureAdminCredentialsSecret \/ AdminCredentialsFail \/ RecordAdminSecret
    \/ EnsureDashboardsCredentialsSecret \/ DashboardsCredentialsFail
    \/ WriteGenerated \/ RecordContextSecret \/ WaitForSecret \/ NoJob \/ OtherJob
    \/ JobSucceeded \/ JobActive \/ JobBacksOff \/ JobRetried \/ DeleteJob \/ JobNotFound
    \/ SetRunning \/ CreateJob \/ BuildNodes
Surroundings ==
    \/ JobStarts \/ JobApplies \/ JobFails \/ JobGone \/ NodesReady \/ NodesUnready \/ SyncMount \/ Tick

Next == Reconcile \/ PassFails \/ Edit \/ Surroundings

\* Passes are repeated until the resource is settled (the controller requeues every 30 seconds);
\* the job controller and kubelets go on,
\* and time passes between the passes again and again.
Fairness ==
    /\ WF_vars(Reconcile) /\ WF_vars(JobStarts) /\ WF_vars(JobApplies \/ JobFails) /\ WF_vars(JobGone)
    /\ WF_vars(NodesReady) /\ WF_vars(SyncMount) /\ SF_vars(Tick)

Spec == Init /\ [][Next]_vars /\ Fairness
-----------------------------------------------------------------------------
Holds(content) ==
    /\ index.users = UsersOf(content)
    /\ content.rest # "absent" => index.rest = content.rest

\* When the entry is set to Ready, the content of the generated secret is in the security index.  The one
\* exception is a job whose pod has read another content than the job was made for: a change that was
\* undone before the job was replaced is taken for one that never happened.
ReadyMeansApplied ==
    [][(pc = "job" /\ worker' # worker /\ component'.state = "Ready" /\ component.state # "Ready")
           => (Holds(generated) \/ job.read # job.sum)]_vars

\* Before the security index holds anything, it is filled with all the files: no cluster starts with a
\* part of the configuration.
FilledCompletely == index.users # None => index.rest # None

Provided == source # None /\ (conf.ownAdmin => admin # None) /\ (conf.ownDash => dash # None)
Current ==
    /\ generated # None
    /\ generated.users = source.users /\ generated.rest = source.rest
    /\ generated.admin[1] = admin /\ generated.dash[1] = dash
\* No node is ready, since the password they were given is not the one in the index, and the
\* bootstrap pod is gone.
LockedOut == initialized /\ ~Opens

\* What the secrets say gets into the security index and stays there, unless a secret is missing or
\* the nodes reject the new password before the job could apply it; the cluster gets its nodes, though
\* the pass stops while the job waits for them.
ConfigIsApplied ==
    <>[](~Provided \/ LockedOut \/ (Current /\ Holds(generated) /\ component.state = "Ready" /\ initialized))
=============================================================================
