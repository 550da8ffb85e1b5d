----------------------------- MODULE ClusterPass -----------------------------
(***************************************************************************)
(* A pass of the cluster controller over its components: the phases and    *)
(* the deletion of the resource (controllers/opensearchController.go), the *)
(* certificates (tls.go), the configuration (configuration.go), services,  *)
(* bootstrap pod and node pool (cluster.go), dashboards (dashboards.go)    *)
(* and snapshot repositories (snapshotrepository.go).  The security        *)
(* config, the scaler, upgrades and restarts have modules of their own;    *)
(* what they do to the node pool is one step each.                         *)
(*                                                                         *)
(* Each step of the worker is one call that changes something, with the    *)
(* reads before it.  A call fails with or without effect; most components  *)
(* then end the pass, cluster.go and dashboards.go go on and report the    *)
(* error at their end.  Beside the worker run users, the clock, Kubernetes *)
(* and the nodes, which load certificates and configuration when they      *)
(* start and join the cluster when they and a member trust each other.     *)
(***************************************************************************)
EXTENDS Certificates, FiniteSets, Sequences

CONSTANTS
    Setups,      \* the features of the resource to consider
    Repos,       \* snapshot repositories
    MaxDays,     \* bound on the clock
    MaxEvents    \* bound on edits, failed calls, failures of pods and crashes; a setup may have a lower one

VARIABLES
    conf,        \* the features of the resource, never edited
    cr,          \* the resource
    obj,         \* the objects of the cluster in Kubernetes
    worker,      \* the pass that is under way
    pods,        \* the nodes: what they have loaded, and whether they are ready
    joined,      \* the nodes that have been members of the cluster
    boot,        \* what the running bootstrap pod has loaded
    disk,        \* the volume of the bootstrap pod has the state of a cluster
    formed,      \* how many clusters have been bootstrapped
    dashPod,     \* what the dashboards run with
    repos,       \* the repositories known to OpenSearch
    volume,      \* content of the config map of the user that the nodes mount, 0 without one
    now,         \* the day
    lastCa,      \* the CAs generated so far
    causes,      \* what happened that a property makes an exception for
    events       \* the bound

kube == <<pods, joined, boot, disk, formed, dashPod>>
vars == <<conf, cr, obj, worker, pods, joined, boot, disk, formed, dashPod, repos, volume, now, lastCa, causes, events>>

Kinds == {"ca", "transport", "http", "admin", "config", "services", "pvc", "boot", "sts",
          "dashCert", "dashConfig", "dashboards"}
Gen == 1..(1 + MaxEvents)
MaxReplicas == Cardinality(Ordinals)
Cas == 0..(1 + MaxEvents)

Transport == conf.transport \in {"global", "perNode"}
Http == conf.http = "generate"
SecurityPlugin == conf.http # "off"
HasConfig == conf.transport # "off" \/ conf.http # "off" \/ conf.config \/ conf.volume

(* validateTlsConfig: what the webhook accepts when the resource is created. *)
ValidateTlsConfig(c) ==
    /\ ~(c.explicit /\ c.transport = "missing")
    /\ ~(c.explicit /\ c.http = "missing")
    /\ (c.http # "off") => (c.adminSecret \/ c.http = "generate")

Idle == [pc |-> "idle", gen |-> 1, replicas |-> 0, initialized |-> FALSE, ca |-> 0, volume |-> 0, recreate |-> FALSE,
         failed |-> FALSE]

(* What the operator keeps in the resource, and what of it its user writes. *)
Clusters == [gen : Int, replicas : Int, phase : {"PENDING", "RUNNING"}, initialized : BOOLEAN, finalizer : BOOLEAN,
             deleting : BOOLEAN]

(* What the objects hold: a number, certificates, or a StatefulSet. *)
StatefulSets == [template : [gen : Int, hash : Seq(Int)], replicas : Int]
Objects == [content : Int \cup Secrets \cup StatefulSets, deleting : BOOLEAN]

ASSUME ClusterPassAssumption ==
    /\ IsFiniteSet(Ordinals) /\ MaxReplicas \in Nat /\ MaxDays \in Nat /\ MaxEvents \in Nat
    /\ \A c \in Setups : c.events \in 0..MaxEvents /\ c.replicas \in 1..MaxReplicas
    /\ None \notin Clusters \cup Objects

TypeOK ==
    /\ cr # None => cr \in Clusters /\ cr.gen \in Gen /\ cr.replicas \in 1..MaxReplicas
    /\ \A k \in Kinds : obj[k] # None => obj[k].deleting \in BOOLEAN
    /\ obj["ca"] # None => obj["ca"].content \in Cas
    /\ obj["sts"] # None => obj["sts"].content.replicas \in 1..MaxReplicas
    /\ worker.gen \in Gen /\ worker.replicas \in 0..MaxReplicas /\ worker.ca \in Cas
    /\ \A i \in Ordinals : pods[i] # None => pods[i].config \in Gen \cup {0} /\ pods[i].template.gen \in Gen
    /\ joined \subseteq Ordinals /\ disk \in BOOLEAN /\ formed \in Nat
    /\ now \in 0..MaxDays /\ lastCa \in Cas /\ events \in 0..MaxEvents

Init ==
    /\ conf \in {c \in Setups : ValidateTlsConfig(c)}
    /\ cr = [gen |-> 1, replicas |-> conf.replicas, phase |-> "PENDING", initialized |-> FALSE, finalizer |-> FALSE,
             deleting |-> FALSE]
    /\ obj = [k \in Kinds |-> None]
    /\ worker = Idle
    /\ pods = [i \in Ordinals |-> None] /\ joined = {}
    /\ boot = None /\ disk = FALSE /\ formed = 0 /\ dashPod = None
    /\ repos = [r \in Repos |-> 0] /\ volume = IF conf.volume THEN 1 ELSE 0
    /\ now = 0 /\ lastCa = 0 /\ causes = {} /\ events = 0

Event == events < conf.events /\ events' = events + 1

----------------------------------------------------------------------------
(* The components in their order, and the steps of each. *)
Steps == <<"initialized", "transportCa", "transport", "httpCa", "http", "adminCa", "admin", "config", "services",
           "pvc", "boot", "sts", "status", "scaler", "dashCa", "dashCert", "dashConfig", "dashboards", "restart",
           "repos">>

Takes(s) ==
    CASE s \in {"transportCa", "transport"} -> conf.transport # "off" /\ (s = "transportCa" => Transport)
      [] s \in {"httpCa", "http"} -> conf.http # "off" /\ (s = "httpCa" => Http)
      [] s \in {"adminCa", "admin"} -> SecurityPlugin /\ ~conf.adminSecret
      [] s = "config" -> HasConfig
      [] s \in {"dashCa", "dashCert"} -> conf.dashboards = "tls"
      [] s \in {"dashConfig", "dashboards"} -> conf.dashboards # "off"
      [] s = "repos" -> conf.repos # {}
      [] OTHER -> TRUE

(* reconcilePhaseRunning: the next step of the pass after s. *)
Goto(s, w) ==
    LET here == CHOOSE n \in 1..Len(Steps) : Steps[n] = s
        rest == {n \in (here + 1)..Len(Steps) : Takes(Steps[n])}
    IN  IF rest = {} THEN Idle ELSE [w EXCEPT !.pc = Steps[CHOOSE n \in rest : \A m \in rest : n <= m]]
Go == Goto(worker.pc, worker)
GoFailed == Goto(worker.pc, [worker EXCEPT !.failed = TRUE])

(* One call of the generic reconciler.  After a failed one the pass ends, or
   goes on to report the error later. *)
Sets(k, desired, state) == obj' = [obj EXCEPT ![k] = ReconcileResource(@, desired, state)]
Calls(k, desired, state, then, else) ==
    \/ Sets(k, desired, state) /\ worker' = then /\ UNCHANGED events
    \/ Event /\ worker' = else /\ (Sets(k, desired, state) \/ UNCHANGED obj)

----------------------------------------------------------------------------
(* The controller: Reconcile up to the phases. *)

(* The resource is read, and gets the finalizer of the controller, or has it
   already. *)
Fetch ==
    /\ worker.pc = "idle" /\ cr # None /\ ~cr.deleting
    /\ \/ /\ cr' = [cr EXCEPT !.finalizer = TRUE]
          /\ worker' = [Idle EXCEPT !.pc = "phase", !.gen = cr.gen, !.replicas = cr.replicas,
                                    !.initialized = cr.initialized]
          /\ UNCHANGED events
       \/ /\ ~cr.finalizer /\ Event
          /\ cr' \in {cr, [cr EXCEPT !.finalizer = TRUE]}
          /\ UNCHANGED worker
    /\ UNCHANGED <<conf, obj, kube, repos, volume, now, lastCa, causes>>

(* The components are called in turn and have nothing to delete. *)
DeleteExternalResources ==
    /\ worker.pc = "idle" /\ cr # None /\ cr.deleting /\ cr.finalizer
    /\ worker' = [Idle EXCEPT !.pc = "delete"]
    /\ UNCHANGED <<conf, cr, obj, kube, repos, volume, now, lastCa, causes, events>>

(* The resource goes with its finalizer, and what it owns with it. *)
FinishDeletion ==
    /\ worker.pc = "delete" /\ worker' = Idle
    /\ \/ cr' = None /\ UNCHANGED events
       \/ Event /\ cr' \in {cr, None}
    /\ UNCHANGED <<conf, obj, kube, repos, volume, now, lastCa, causes>>

(* reconcilePhasePending writes the phase and ends the pass. *)
Phase ==
    /\ worker.pc = "phase"
    /\ \/ /\ cr.phase = "PENDING" /\ worker' = Idle
          /\ \/ cr' = [cr EXCEPT !.phase = "RUNNING"] /\ UNCHANGED events
             \/ Event /\ cr' \in {cr, [cr EXCEPT !.phase = "RUNNING"]}
       \/ /\ cr.phase = "RUNNING" /\ worker' = [worker EXCEPT !.pc = "initialized"]
          /\ UNCHANGED <<cr, events>>
    /\ UNCHANGED <<conf, obj, kube, repos, volume, now, lastCa, causes>>

(* As many pods are ready as the StatefulSet is to have. *)
AllMastersReady ==
    IF obj["sts"] = None THEN FALSE
    ELSE Cardinality({i \in {j \in Ordinals : pods[j] # None} : pods[i].ready}) = obj["sts"].content.replicas

(* The first step of the running phase: the resource is read again, and found
   to be initialized once all masters are ready. *)
UpdateInitialized ==
    /\ worker.pc = "initialized"
    /\ LET init == cr.initialized \/ AllMastersReady
           read == [worker EXCEPT !.gen = cr.gen, !.replicas = cr.replicas, !.initialized = init]
       IN  IF worker.initialized
           THEN worker' = Go /\ UNCHANGED <<cr, events>>
           ELSE \/ cr' = [cr EXCEPT !.initialized = init] /\ worker' = Goto("initialized", read) /\ UNCHANGED events
                \/ Event /\ worker' = Idle /\ cr' \in {cr, [cr EXCEPT !.initialized = init]}
    /\ UNCHANGED <<conf, obj, kube, repos, volume, now, lastCa, causes>>

----------------------------------------------------------------------------
(* tls.go *)

CaSteps == {"transportCa", "httpCa", "adminCa", "dashCa"}

(* The CA that was found or made is in the hands of the worker. *)
With(ca) == Goto(worker.pc, [worker EXCEPT !.ca = ca])

(* getReferencedCaCertOrDefault: the secret of the user, or that of the cluster. *)
ReadCa ==
    /\ worker.pc \in CaSteps
    /\ \/ conf.caGiven /\ worker' = With(ProvidedCa) /\ UNCHANGED events
       \/ ~conf.caGiven /\ obj["ca"] # None /\ worker' = With(obj["ca"].content) /\ UNCHANGED events
       \/ conf.caGiven /\ Event /\ worker' = Idle
    /\ UNCHANGED <<conf, cr, obj, kube, repos, volume, now, lastCa, causes>>

NewCa == lastCa + 1

(* Mutant of GenerateCa: a CA is made although there is one. *)
GenerateCaAgain ==
    /\ worker.pc \in CaSteps /\ ~conf.caGiven /\ lastCa <= MaxEvents
    /\ lastCa' = NewCa
    /\ Sets("ca", lastCa', "Present") /\ worker' = With(lastCa')
    /\ UNCHANGED <<conf, cr, kube, repos, volume, now, causes, events>>

(* ReadOrGenerateCaCert: any error of the read counts as a missing secret, and
   the new CA takes the place of the one that is there. *)
GenerateCa ==
    /\ worker.pc \in CaSteps /\ ~conf.caGiven
    /\ IF obj["ca"] = None THEN UNCHANGED <<events, causes>>
                            ELSE Event /\ causes' = causes \cup {"ca"}
    /\ lastCa' = NewCa
    /\ Sets("ca", lastCa', "Present") /\ worker' = With(lastCa')
    /\ UNCHANGED <<conf, cr, kube, repos, volume, now>>

(* The new CA is not stored, or the answer is lost. *)
GenerateCaFails ==
    /\ worker.pc \in CaSteps /\ ~conf.caGiven /\ obj["ca"] = None
    /\ Event /\ worker' = Idle
    /\ \/ lastCa' = NewCa /\ Sets("ca", lastCa', "Present")
       \/ UNCHANGED <<lastCa, obj>>
    /\ UNCHANGED <<conf, cr, kube, repos, volume, now, causes>>

Data(k) == IF obj[k] = None THEN None ELSE obj[k].content

(* The secret has a certificate of the cluster, or one of each node. *)
HandleTransportGenerate ==
    LET old == Data("transport")
        new == IF conf.transport = "perNode"
               THEN GeneratePerNode(old, worker.ca, worker.replicas, worker.initialized, now)
               ELSE GenerateGlobal(old, worker.ca, now)
    IN  Calls("transport", new, "Present", Go, Idle)

(* The user provides the certificates; without a secret every pass ends here. *)
HandleTransportExistingCerts ==
    worker' = (IF conf.transport = "existing" THEN Go ELSE Idle) /\ UNCHANGED <<obj, events>>

HandleTransport ==
    /\ worker.pc = "transport"
    /\ \/ Transport /\ HandleTransportGenerate
       \/ ~Transport /\ HandleTransportExistingCerts
    /\ UNCHANGED <<conf, cr, kube, repos, volume, now, lastCa, causes>>

HandleHttp ==
    /\ worker.pc = "http"
    /\ \/ Http /\ Calls("http", GenerateGlobal(Data("http"), worker.ca, now), "Present", Go, Idle)
       \/ ~Http /\ worker' = (IF conf.http = "existing" THEN Go ELSE Idle) /\ UNCHANGED <<obj, events>>
    /\ UNCHANGED <<conf, cr, kube, repos, volume, now, lastCa, causes>>

HandleAdminCertificate ==
    /\ worker.pc = "admin"
    /\ Calls("admin", CreateAdminSecret(Data("admin"), worker.ca, now), "Present", Go, Idle)
    /\ UNCHANGED <<conf, cr, kube, repos, volume, now, lastCa, causes>>

----------------------------------------------------------------------------
(* configuration.go and cluster.go *)

(* opensearch.yml: defaults, gRPC, TLS and what the resource adds. *)
ConfigData == worker.gen

(* The data of the volume on which the pods are to be restarted; one that is not
   there has none. *)
CreateAdditionalVolumes == volume

(* Mutant of Configuration: a failed write of the config map does not end the pass. *)
ConfigurationGoesOn ==
    /\ worker.pc = "config"
    /\ LET go == Goto("config", [worker EXCEPT !.volume = CreateAdditionalVolumes])
       IN  Calls("config", ConfigData, "Present", go, go)
    /\ UNCHANGED <<conf, cr, kube, repos, volume, now, lastCa, causes>>

(* The config map is written, then the additional volumes are read. *)
Configuration ==
    /\ worker.pc = "config"
    /\ Calls("config", ConfigData, "Present", Goto("config", [worker EXCEPT !.volume = CreateAdditionalVolumes]), Idle)
    /\ UNCHANGED <<conf, cr, kube, repos, volume, now, lastCa, causes>>

(* createHashForNodePool: what the annotation of the pods depends on. *)
ConfigHash == IF HasConfig THEN <<ConfigData, worker.volume>> ELSE <<>>

(* The template of the pods: what is built from the resource, identified by its
   generation, and the annotation with the hash. *)
Template == [gen |-> worker.gen, hash |-> ConfigHash]

(* What is built from the resource alone is identified by its generation: the
   services (of the cluster, headless and for discovery) and the bootstrap pod. *)
NewServices == worker.gen
NewBootstrapPod == worker.gen

(* Monitor, services and secrets with passwords. *)
Services ==
    /\ worker.pc = "services"
    /\ \/ Calls("services", NewServices, "Present", Go, GoFailed)
       \/ Event /\ worker' = Idle /\ UNCHANGED obj      \* UsernameAndPassword
    /\ UNCHANGED <<conf, cr, kube, repos, volume, now, lastCa, causes>>

(* Mutant of BootstrapPVC: the claim is kept only until the pod is created. *)
NoBootstrapPVC ==
    /\ worker.pc = "pvc"
    /\ worker' = Go
    /\ IF obj["pvc"] = None /\ obj["boot"] = None THEN Sets("pvc", TRUE, "Present") ELSE Sets("pvc", TRUE, "Absent")
    /\ UNCHANGED <<conf, cr, kube, repos, volume, now, lastCa, causes, events>>

(* The volume of the bootstrap pod is kept until the cluster is initialized. *)
BootstrapPVC ==
    /\ worker.pc = "pvc"
    /\ Calls("pvc", TRUE, IF worker.initialized THEN "Absent" ELSE "Present", Go, GoFailed)
    /\ UNCHANGED <<conf, cr, kube, repos, volume, now, lastCa, causes>>

(* Removes or creates the bootstrap pod. *)
BootstrapPodStep ==
    /\ worker.pc = "boot" /\ ~worker.recreate
    /\ \/ worker.initialized /\ Calls("boot", NewBootstrapPod, "Absent", Go, GoFailed)
       \/ ~worker.initialized /\ obj["boot"] = None /\ Calls("boot", NewBootstrapPod, "Created", Go, GoFailed)
    /\ UNCHANGED <<conf, cr, kube, repos, volume, now, lastCa, causes>>

(* reconcileBootstrapPod: a pod that is as it should be, or in deletion, is left
   alone; for another specification it is deleted first. *)
ReconcileBootstrapPod ==
    /\ worker.pc = "boot" /\ ~worker.recreate /\ ~worker.initialized /\ obj["boot"] # None
    /\ LET same == obj["boot"].deleting \/ obj["boot"].content = NewBootstrapPod
       IN  \/ same /\ worker' = Go /\ UNCHANGED <<obj, events>>
           \/ ~same /\ Calls("boot", NewBootstrapPod, "Absent", [worker EXCEPT !.recreate = TRUE], GoFailed)
    /\ UNCHANGED <<conf, cr, kube, repos, volume, now, lastCa, causes>>

(* recreateBootstrapPod waits for the pod to go, at most for some time. *)
RecreateBootstrapPod ==
    /\ worker.pc = "boot" /\ worker.recreate
    /\ LET w == [worker EXCEPT !.recreate = FALSE]
       IN  \/ /\ obj["boot"] = None
              /\ Calls("boot", NewBootstrapPod, "Created", Goto("boot", w), Goto("boot", [w EXCEPT !.failed = TRUE]))
           \/ obj["boot"] # None /\ Event /\ worker' = Goto("boot", [w EXCEPT !.failed = TRUE]) /\ UNCHANGED obj
    /\ UNCHANGED <<conf, cr, kube, repos, volume, now, lastCa, causes>>

(* reconcileNodeStatefulSet: the number of replicas of one that is there is the
   business of the scaler. *)
NodeStatefulSet ==
    /\ worker.pc = "sts"
    /\ LET replicas == IF obj["sts"] = None THEN worker.replicas ELSE obj["sts"].content.replicas
       IN  Calls("sts", [template |-> Template, replicas |-> replicas], "Present", Go, GoFailed)
    /\ UNCHANGED <<conf, cr, kube, repos, volume, now, lastCa, causes>>

(* The end of cluster.go: version, health and nodes are written, and the errors
   on the way are returned. *)
UpdateClusterStatus ==
    /\ worker.pc = "status"
    /\ \/ worker' = (IF worker.failed THEN Idle ELSE Go) /\ UNCHANGED events
       \/ Event /\ worker' = Idle
    /\ UNCHANGED <<conf, cr, obj, kube, repos, volume, now, lastCa, causes>>

(* The scaler takes the StatefulSet one node towards the specification. *)
ScalerStep ==
    /\ worker.pc = "scaler"
    /\ LET n == obj["sts"].content.replicas
           m == IF n < worker.replicas THEN n + 1 ELSE IF n > worker.replicas THEN n - 1 ELSE n
       IN  Calls("sts", [obj["sts"].content EXCEPT !.replicas = m], "Present", Go, Idle)
    /\ UNCHANGED <<conf, cr, kube, repos, volume, now, lastCa, causes>>

----------------------------------------------------------------------------
(* dashboards.go, restarts and snapshotrepository.go *)

(* handleTls: the certificate is made once; an error of the read counts as a
   missing secret. *)
DashboardsCertificate ==
    /\ worker.pc = "dashCert"
    /\ LET cert == SecretData(CreateAndSignCertificate(worker.ca, now), worker.ca)
       IN  \/ obj["dashCert"] = None /\ Calls("dashCert", cert, "Present", Go, Idle)
           \/ obj["dashCert"] # None /\ worker' = Go /\ UNCHANGED <<obj, events>>
           \/ obj["dashCert"] # None /\ Event /\ worker' = Go /\ Sets("dashCert", cert, "Present")
    /\ UNCHANGED <<conf, cr, kube, repos, volume, now, lastCa, causes>>

NewDashboardsConfigMap == worker.gen
NewDashboardsDeployment == worker.gen

(* First the secret with the credentials: if it cannot be generated the pass ends,
   if it cannot be written the pass goes on, failed. Then the config map, of which
   a failed write does not keep its checksum from the deployment. *)
DashboardsConfig ==
    /\ worker.pc = "dashConfig"
    /\ \/ Sets("dashConfig", NewDashboardsConfigMap, "Present") /\ worker' = Go /\ UNCHANGED <<events, causes>>
       \/ Event /\ worker' = GoFailed /\ Sets("dashConfig", NewDashboardsConfigMap, "Present") /\ UNCHANGED causes
       \/ Event /\ worker' = GoFailed /\ UNCHANGED obj /\ causes' = causes \cup {"dashConfig"}
       \/ Event /\ worker' = Idle /\ UNCHANGED <<obj, causes>>
    /\ UNCHANGED <<conf, cr, kube, repos, volume, now, lastCa>>

(* The deployment, then its service, on which nothing depends: if it cannot be
   written, the pass fails with the deployment in place. *)
Dashboards ==
    /\ worker.pc = "dashboards"
    /\ Calls("dashboards", NewDashboardsDeployment, "Present", IF worker.failed THEN Idle ELSE Go, Idle)
    /\ UNCHANGED <<conf, cr, kube, repos, volume, now, lastCa, causes>>

(* The restart deletes a pod of an old template when all pods are ready. *)
Outdated == {i \in {j \in Ordinals : pods[j] # None} : pods[i].template # obj["sts"].content.template}
RestartStep ==
    /\ worker.pc = "restart"
    /\ IF Outdated # {} /\ AllMastersReady
       THEN \E i \in Outdated :
              \/ pods' = [pods EXCEPT ![i] = None] /\ worker' = Go /\ UNCHANGED events
              \/ Event /\ worker' = Idle /\ pods' \in {pods, [pods EXCEPT ![i] = None]}
       ELSE worker' = Go /\ UNCHANGED <<pods, events>>
    /\ UNCHANGED <<conf, cr, obj, joined, boot, disk, formed, dashPod, repos, volume, now, lastCa, causes>>

Reachable == \E i \in Ordinals : pods[i] # None /\ pods[i].ready

(* Mutant of SnapshotRepositories: the first repository that fails ends the loop. *)
RepositoriesStop ==
    /\ worker.pc = "repos" /\ worker' = Idle
    /\ \/ /\ UNCHANGED events
          /\ repos' = [r \in Repos |-> IF Reachable /\ r \in conf.repos /\ conf.refused = {} THEN worker.gen ELSE repos[r]]
       \/ Event /\ UNCHANGED repos
    /\ UNCHANGED <<conf, cr, obj, kube, volume, now, lastCa, causes>>

(* Created if OpenSearch does not know it, updated if its settings differ. *)
ReconcileRepository(r) == IF repos[r] = worker.gen THEN repos[r] ELSE worker.gen

(* Every repository is created or brought to its settings; one that OpenSearch
   refuses, or for which a call fails, leaves the others alone. *)
SnapshotRepositories ==
    /\ worker.pc = "repos" /\ worker' = Idle
    /\ LET Set(done) == [r \in Repos |-> IF Reachable /\ r \in done THEN ReconcileRepository(r) ELSE repos[r]]
           accepted == conf.repos \ conf.refused
       IN  \/ repos' = Set(accepted) /\ UNCHANGED events
           \/ Event /\ \E done \in SUBSET accepted : repos' = Set(done)
    /\ UNCHANGED <<conf, cr, obj, kube, volume, now, lastCa, causes>>

Crash ==
    /\ worker # Idle /\ Event /\ worker' = Idle
    /\ UNCHANGED <<conf, cr, obj, kube, repos, volume, now, lastCa, causes>>

----------------------------------------------------------------------------
(* Users and the clock *)

Edit ==
    /\ cr # None /\ Event
    /\ \E n \in 1..MaxReplicas : cr' = [cr EXCEPT !.gen = @ + 1, !.replicas = n]
    /\ UNCHANGED <<conf, obj, worker, kube, repos, volume, now, lastCa, causes>>

(* The user changes or removes the config map of the volume. *)
EditVolume ==
    /\ conf.volume /\ Event
    /\ volume' \in {0, events' + 1}
    /\ UNCHANGED <<conf, cr, obj, worker, kube, repos, now, lastCa, causes>>

DeleteResource ==
    /\ cr # None /\ Event
    /\ cr' = IF cr.finalizer THEN [cr EXCEPT !.deleting = TRUE] ELSE None
    /\ UNCHANGED <<conf, obj, worker, kube, repos, volume, now, lastCa, causes>>

LoseCa ==
    /\ obj["ca"] # None /\ Event
    /\ obj' = [obj EXCEPT !["ca"] = None] /\ causes' = causes \cup {"ca"}
    /\ UNCHANGED <<conf, cr, worker, kube, repos, volume, now, lastCa>>

Tick ==
    /\ conf.clock /\ now < MaxDays /\ now' = now + 1
    /\ UNCHANGED <<conf, cr, obj, worker, kube, repos, volume, lastCa, causes, events>>

----------------------------------------------------------------------------
(* Kubernetes and the nodes *)

Others == <<conf, cr, worker, repos, volume, now, lastCa, causes>>

(* What a node finds in its volumes: the CA it is to trust and the certificate
   of its own. *)
Subject(s) == IF conf.transport = "perNode" THEN s ELSE Global
HasCertificate(s) ==
    Transport => (obj["transport"] # None /\ obj["transport"].content.crt[Subject(s)] # None)
Mounted(s) ==
    /\ HasConfig => obj["config"] # None
    /\ conf.volume => volume # 0
    /\ HasCertificate(s)
Loaded(s) == IF Transport THEN [ca |-> obj["transport"].content.ca, by |-> obj["transport"].content.crt[Subject(s)].by]
                          ELSE [ca |-> ProvidedCa, by |-> ProvidedCa]
ConfigLoaded == IF HasConfig THEN obj["config"].content ELSE 0
Started(i) == [template |-> obj["sts"].content.template, config |-> ConfigLoaded, volume |-> volume, ca |-> Loaded(i).ca,
               by |-> Loaded(i).by, ready |-> FALSE]

(* The StatefulSet manages its pods in order (OrderedReady, builders/cluster.go:536):
   it starts or stops one when all before it are ready. *)
InTurn(i) == \A j \in Ordinals : j < i => pods[j] # None /\ pods[j].ready

StartPod(i) ==
    /\ obj["sts"] # None /\ i < obj["sts"].content.replicas /\ pods[i] = None /\ InTurn(i)
    /\ Mounted(i)
    /\ pods' = [pods EXCEPT ![i] = Started(i)]
    /\ UNCHANGED <<Others, obj, joined, boot, disk, formed, dashPod, events>>

StopPod(i) ==
    /\ pods[i] # None /\ (obj["sts"] # None => i >= obj["sts"].content.replicas /\ InTurn(i))
    /\ pods' = [pods EXCEPT ![i] = None]
    /\ UNCHANGED <<Others, obj, joined, boot, disk, formed, dashPod, events>>

(* A container fails and starts again with what the volumes hold now. *)
PodFails(i) ==
    /\ pods[i] # None /\ Event
    /\ pods' = [pods EXCEPT ![i] = [Started(i) EXCEPT !.template = pods[i].template,
                                                          !.volume = IF volume = 0 THEN pods[i].volume ELSE volume]]
    /\ UNCHANGED <<Others, obj, joined, boot, disk, formed, dashPod>>

Trusts(p, q) == p.by = q.ca /\ q.by = p.ca
Members == {pods[i] : i \in {j \in Ordinals : pods[j] # None /\ pods[j].ready}}
           \cup (IF boot # None THEN {boot} ELSE {})

(* A node joins by way of a member; one that was a member can start the cluster again. *)
Join(i) ==
    /\ pods[i] # None /\ ~pods[i].ready
    /\ \/ \E m \in Members : Trusts(pods[i], m)
       \/ i \in joined /\ Members = {}
    /\ pods' = [pods EXCEPT ![i].ready = TRUE] /\ joined' = joined \cup {i}
    /\ UNCHANGED <<Others, obj, boot, disk, formed, dashPod, events>>

(* The bootstrap pod, named as the initial master, forms a cluster unless its
   volume has one. *)
StartBootstrap ==
    /\ obj["boot"] # None /\ ~obj["boot"].deleting /\ boot = None
    /\ obj["pvc"] # None /\ Mounted(BootstrapPod)
    /\ boot' = Loaded(BootstrapPod)
    /\ disk' = TRUE /\ formed' = IF disk THEN formed ELSE formed + 1
    /\ UNCHANGED <<Others, obj, pods, joined, dashPod, events>>

(* The bootstrap pod terminates; its claim can go only after it. *)
StopBootstrap ==
    /\ obj["boot"] # None /\ obj["boot"].deleting
    /\ boot' = None /\ obj' = [obj EXCEPT !["boot"] = None]
    /\ UNCHANGED <<Others, pods, joined, disk, formed, dashPod, events>>
DropVolume ==
    /\ obj["pvc"] # None /\ obj["pvc"].deleting /\ obj["boot"] = None
    /\ obj' = [obj EXCEPT !["pvc"] = None] /\ disk' = FALSE
    /\ UNCHANGED <<Others, pods, joined, boot, formed, dashPod, events>>

(* The deployment replaces the pod when the template, and with it the checksum
   of the configuration, changes. *)
RollOutDashboards ==
    /\ obj["dashboards"] # None /\ obj["dashConfig"] # None
    /\ dashPod # None => dashPod.checksum # obj["dashboards"].content
    /\ dashPod' = [checksum |-> obj["dashboards"].content, config |-> obj["dashConfig"].content]
    /\ UNCHANGED <<Others, obj, pods, joined, boot, disk, formed, events>>

(* What the resource owned is deleted after it. *)
CollectGarbage ==
    /\ cr = None /\ \E k \in Kinds : obj[k] # None
    /\ obj' = [k \in Kinds |-> None] /\ pods' = [i \in Ordinals |-> None]
    /\ boot' = None /\ disk' = FALSE /\ dashPod' = None
    /\ UNCHANGED <<Others, joined, formed, events>>

----------------------------------------------------------------------------
Worker ==
    \/ Fetch \/ DeleteExternalResources \/ FinishDeletion \/ Phase \/ UpdateInitialized
    \/ ReadCa \/ GenerateCa \/ GenerateCaFails \/ HandleTransport \/ HandleHttp \/ HandleAdminCertificate
    \/ Configuration \/ Services \/ BootstrapPVC \/ BootstrapPodStep \/ ReconcileBootstrapPod
    \/ RecreateBootstrapPod \/ NodeStatefulSet \/ UpdateClusterStatus \/ ScalerStep
    \/ DashboardsCertificate \/ DashboardsConfig \/ Dashboards \/ RestartStep \/ SnapshotRepositories

Next ==
    \/ Worker \/ Crash
    \/ Edit \/ EditVolume \/ DeleteResource \/ LoseCa \/ Tick
    \/ \E i \in Ordinals : StartPod(i) \/ StopPod(i) \/ PodFails(i) \/ Join(i)
    \/ StartBootstrap \/ StopBootstrap \/ DropVolume \/ RollOutDashboards \/ CollectGarbage

Spec == Init /\ [][Next]_vars

(* The controller comes back to a resource, at the latest after half a minute;
   Kubernetes and the nodes do their work. *)
FairSpec ==
    /\ Spec /\ WF_vars(Worker)
    /\ \A i \in Ordinals : WF_vars(StartPod(i)) /\ WF_vars(StopPod(i)) /\ WF_vars(Join(i))
    /\ WF_vars(StartBootstrap) /\ WF_vars(StopBootstrap) /\ WF_vars(DropVolume)
    /\ WF_vars(RollOutDashboards) /\ WF_vars(CollectGarbage)

----------------------------------------------------------------------------
(* At most one cluster is ever bootstrapped (cluster.go:118-133): the volume
   keeps the state of the bootstrap pod for as long as the pod may come back. *)
SingleCluster == formed <= 1

Running == {pods[i] : i \in {j \in Ordinals : pods[j] # None}} \cup (IF boot # None THEN {boot} ELSE {})

(* Whenever and from whatever secrets they were started, any two nodes trust
   each other, and the nodes trust the certificate of the admin, unless the CA
   was lost or could not be read (tls.go:296-459, util.go:67-93). *)
NodesTrustEachOther ==
    "ca" \notin causes =>
        /\ \A p, q \in Running : Trusts(p, q)
        /\ (obj["admin"] # None /\ obj["http"] # None) =>
               obj["admin"].content.crt[Global].by = obj["http"].content.ca

(* With certificates per node, every pod that may be started finds its own and
   its configuration, however the number of replicas changes (tls.go:371-422, 473). *)
PodsFindTheirCertificate ==
    conf.transport = "perNode" =>
        /\ obj["sts"] # None => /\ obj["config"] # None
                               /\ \A i \in Ordinals : i < obj["sts"].content.replicas => HasCertificate(i)
        /\ obj["boot"] # None => obj["config"] # None /\ HasCertificate(BootstrapPod)

(* A pod runs with the configuration that the hash of its template stands for,
   or a later one (configuration.go:162-256 before cluster.go:140). *)
PodsRunTheirConfig ==
    HasConfig => \A i \in Ordinals : pods[i] # None => /\ pods[i].config >= pods[i].template.hash[1]
                                                       /\ pods[i].volume >= pods[i].template.hash[2]

Expiring(k, subjects) ==
    obj[k] # None /\ \E s \in subjects : /\ obj[k].content.crt[s] # None
                                        /\ obj[k].content.crt[s].until - now <= RotateDays
Nodes == IF cr = None THEN {} ELSE {i \in Ordinals : i < cr.replicas}

(* Certificates of nodes and of the API that are about to expire are replaced
   (tls.go:499-556). *)
CertificatesAreRenewed ==
    (RotateDays > 0 /\ (Expiring("transport", Nodes \cup {Global}) \/ Expiring("http", {Global}))) ~>
        (cr = None \/ ~(Expiring("transport", Nodes \cup {Global}) \/ Expiring("http", {Global})))

Settled ==
    IF cr = None THEN \A k \in Kinds : obj[k] = None
    ELSE LET hash == IF HasConfig THEN <<cr.gen, volume>> ELSE <<>>
         IN  /\ cr.initialized /\ obj["boot"] = None /\ obj["pvc"] = None
             /\ Data("sts") = [template |-> [gen |-> cr.gen, hash |-> hash], replicas |-> cr.replicas]
             /\ \A i \in Nodes : pods[i] # None => /\ pods[i].ready /\ pods[i].template = Data("sts").template
                                                   /\ HasConfig => pods[i].config = cr.gen /\ pods[i].volume = volume
             /\ \A i \in Ordinals : pods[i] # None <=> i \in Nodes
             /\ (conf.dashboards # "off" /\ "dashConfig" \notin causes) =>
                    dashPod = [checksum |-> cr.gen, config |-> cr.gen]
             /\ \A r \in conf.repos \ conf.refused : repos[r] = cr.gen

(* Once nobody disturbs it any more, the cluster becomes what the resource
   says: bootstrapped and without its bootstrap pod, every node restarted with
   the last configuration, dashboards and repositories up to date, although
   one repository is always refused; or all of it is gone with the resource
   (opensearchController.go:253-356).  Exceptions: a lost CA, dashboards whose
   config map could not be written, certificates or volumes that are not
   provided. *)
PassConverges ==
    <>[](Settled \/ "ca" \in causes \/ conf.transport = "missing" \/ conf.http = "missing"
         \/ (conf.volume /\ volume = 0))
=============================================================================
