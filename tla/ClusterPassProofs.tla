-------------------------- MODULE ClusterPassProofs --------------------------
(***************************************************************************)
(* No history of failures, crashes, edits and deletions makes a cluster be *)
(* bootstrapped twice, for any number of nodes, setups and bounds.         *)
(*                                                                         *)
(* The claim of the bootstrap pod is deleted only by a pass that knows the *)
(* cluster to be initialized, and such a cluster gets no bootstrap pod     *)
(* again.  What has to be shown beside it is that a pass is never wrong    *)
(* about it: between the step that reads status.initialized and the end of *)
(* the pass nobody else changes it.                                        *)
(*                                                                         *)
(* The second half prepares ClusterPodsProofs: the order of the steps, the *)
(* invariant IInv about what pods load, the steps that leave it alone, and *)
(* what the operators of Certificates put into a secret.                   *)
(***************************************************************************)
EXTENDS ClusterPass, TLAPS

LEMMA Counting == \A n \in Nat : \A m \in {n, n + 1} : m \in Nat /\ n <= m
OBVIOUS

LEMMA AtMost ==
    /\ \A a, b, c \in Int : a <= b /\ b <= c => a <= c
    /\ \A a \in Int : a <= a
    /\ 0 \in Int
OBVIOUS

LEMMA LaterPositions == \A h \in 1..20 : \A n : n \in (h + 1)..20 <=> n \in 1..20 /\ n > h
OBVIOUS

(* Setting the finalizer leaves the rest of the resource alone. *)
LEMMA WithFinalizer ==
    ASSUME NEW c \in Clusters
    PROVE  LET d == [c EXCEPT !.finalizer = TRUE]
           IN  d \in Clusters /\ c # None /\ d # None /\ d.initialized = c.initialized /\ d.gen = c.gen /\ d.finalizer
<1>1. None \notin Clusters
  BY ClusterPassAssumption
<1> QED
  BY <1>1 DEF Clusters

Fields == {"pc", "gen", "replicas", "initialized", "ca", "volume", "recreate", "failed"}

(* The cluster needs no bootstrap pod any more. *)
Over == cr = None \/ cr.initialized

Inv ==
    /\ cr # None => cr \in Clusters
    /\ DOMAIN worker = Fields
    /\ DOMAIN obj = Kinds
    /\ worker.pc # "idle" => cr # None /\ cr.finalizer
    /\ worker.initialized \in BOOLEAN
    /\ worker.initialized => cr # None /\ cr.initialized /\ cr.finalizer
    /\ worker.pc \notin {"idle", "phase", "initialized", "delete"} => (cr.initialized => worker.initialized)
    /\ worker.recreate => worker.pc = "boot" /\ ~worker.initialized
    /\ obj["pvc"] # None => DOMAIN obj["pvc"] = {"content", "deleting"}
    /\ (obj["pvc"] # None /\ obj["pvc"].deleting) => Over
    /\ formed \in {0, 1}
    /\ (formed = 1 /\ ~disk) => obj["boot"] = None /\ Over

LEMMA GotoKeeps ==
    ASSUME NEW s, NEW w, DOMAIN w = Fields
    PROVE  Goto(s, w) = Idle \/ (/\ DOMAIN Goto(s, w) = Fields
                                /\ Goto(s, w).initialized = w.initialized
                                /\ Goto(s, w).recreate = w.recreate)
BY DEF Goto, Fields

LEMMA ReplicasAreNumbers == MaxReplicas \in Nat
BY ClusterPassAssumption

LEMMA IdleFacts == DOMAIN Idle = Fields /\ Idle.pc = "idle" /\ Idle.initialized = FALSE /\ Idle.recreate = FALSE
BY DEF Idle, Fields

(* The running phase, after status.initialized was read. *)
InRunningPhase == worker.pc \notin {"idle", "phase", "initialized", "delete"} /\ ~worker.recreate

(* The worker ends its pass or goes on with what it knows. *)
Moves == worker' = Idle \/ (/\ DOMAIN worker' = Fields
                           /\ worker'.initialized = worker.initialized
                           /\ ~worker'.recreate)

(* A step of the running phase that is not about the bootstrap pod. *)
Ordinary ==
    /\ InRunningPhase /\ Moves
    /\ UNCHANGED <<cr, disk, formed>>
    /\ DOMAIN obj' = Kinds /\ obj'["pvc"] = obj["pvc"] /\ obj'["boot"] = obj["boot"]

LEMMA OrdinaryKeeps == Inv /\ Ordinary => Inv'
<1> SUFFICES ASSUME Inv, Ordinary PROVE Inv'
  OBVIOUS
<1>1. CASE worker' = Idle
  <2>1. worker'.pc = "idle" /\ worker'.initialized = FALSE /\ worker'.recreate = FALSE /\ DOMAIN worker' = Fields
    BY <1>1, IdleFacts
  <2> QED
    BY <2>1, Zenon DEF Inv, Ordinary, Over
<1>2. CASE DOMAIN worker' = Fields /\ worker'.initialized = worker.initialized /\ ~worker'.recreate
  <2>1. cr # None /\ cr.finalizer /\ (cr.initialized => worker.initialized) /\ (worker.initialized => cr.initialized)
    BY DEF Inv, Ordinary, InRunningPhase
  <2> QED
    BY <1>2, <2>1 DEF Inv, Ordinary, Over
<1> QED
  BY <1>1, <1>2 DEF Ordinary, Moves

LEMMA UnchangedKeeps ==
    ASSUME Inv, UNCHANGED <<cr, obj, worker, disk, formed>>
    PROVE  Inv'
<1>1. cr' = cr /\ obj' = obj /\ worker' = worker /\ disk' = disk /\ formed' = formed
  OBVIOUS
<1>2. Over' <=> Over
  BY <1>1 DEF Over
<1> QED
  BY <1>1, <1>2 DEF Inv

LEMMA GoMoves ==
    ASSUME Inv, InRunningPhase
    PROVE  /\ worker' = Go => Moves
           /\ worker' = GoFailed => Moves
           /\ worker' = Idle => Moves
<1>1. worker' = Go => Moves
  BY GotoKeeps DEF Go, Moves, Inv, InRunningPhase
<1> DEFINE w == [worker EXCEPT !.failed = TRUE]
<1>2. DOMAIN w = Fields /\ w.initialized = worker.initialized /\ w.recreate = worker.recreate
  BY DEF Inv, Fields
<1> HIDE DEF w
<1>3. Goto(worker.pc, w) = Idle \/ (/\ DOMAIN Goto(worker.pc, w) = Fields
                                    /\ Goto(worker.pc, w).initialized = w.initialized
                                    /\ Goto(worker.pc, w).recreate = w.recreate)
  BY <1>2, GotoKeeps
<1>4. worker' = GoFailed => Moves
  BY <1>2, <1>3 DEF GoFailed, Moves, InRunningPhase, w
<1> QED
  BY <1>1, <1>4 DEF Moves
LEMMA SetsKeeps ==
    ASSUME Inv, NEW k \in Kinds \ {"pvc", "boot"}, NEW desired, NEW state, Sets(k, desired, state)
    PROVE  DOMAIN obj' = Kinds /\ obj'["pvc"] = obj["pvc"] /\ obj'["boot"] = obj["boot"]
BY DEF Sets, Inv, Kinds

(* A call about another object than the bootstrap pod and its claim. *)
LEMMA CallKeeps ==
    ASSUME Inv, InRunningPhase, UNCHANGED <<cr, disk, formed>>,
           NEW k \in Kinds \ {"pvc", "boot"}, NEW desired, NEW state, NEW then, NEW else,
           Calls(k, desired, state, then, else),
           worker' = then => Moves, worker' = else => Moves
    PROVE  Inv'
<1>1. Moves
  BY DEF Calls
<1>2. DOMAIN obj' = Kinds /\ obj'["pvc"] = obj["pvc"] /\ obj'["boot"] = obj["boot"]
  <2>1. CASE Sets(k, desired, state)
    BY <2>1, SetsKeeps
  <2>2. CASE UNCHANGED obj
    BY <2>2 DEF Inv
  <2> QED
    BY <2>1, <2>2 DEF Calls
<1> QED
  BY <1>1, <1>2, OrdinaryKeeps DEF Ordinary

(* The worker goes on, or ends the pass, and writes nothing. *)
LEMMA QuietKeeps ==
    ASSUME Inv, InRunningPhase, Moves, UNCHANGED <<cr, disk, formed, obj>>
    PROVE  Inv'
BY OrdinaryKeeps DEF Ordinary, Inv

LEMMA WithMoves ==
    ASSUME Inv, InRunningPhase, NEW ca, worker' = With(ca)
    PROVE  Moves
<1> DEFINE w == [worker EXCEPT !.ca = ca]
<1>1. DOMAIN w = Fields /\ w.initialized = worker.initialized /\ w.recreate = worker.recreate
  BY DEF Inv, Fields
<1> HIDE DEF w
<1>2. Goto(worker.pc, w) = Idle \/ (/\ DOMAIN Goto(worker.pc, w) = Fields
                                    /\ Goto(worker.pc, w).initialized = w.initialized
                                    /\ Goto(worker.pc, w).recreate = w.recreate)
  BY <1>1, GotoKeeps
<1> QED
  BY <1>1, <1>2 DEF With, Moves, InRunningPhase, w

LEMMA CertificateSteps == Inv /\ (ReadCa \/ GenerateCa \/ GenerateCaFails) => Inv'
<1> SUFFICES ASSUME Inv, ReadCa \/ GenerateCa \/ GenerateCaFails PROVE Inv'
  OBVIOUS
<1>1. InRunningPhase
  BY DEF ReadCa, GenerateCa, GenerateCaFails, CaSteps, InRunningPhase, Inv
<1>2. UNCHANGED <<cr, disk, formed>>
  BY DEF ReadCa, GenerateCa, GenerateCaFails, kube
<1>3. "ca" \in Kinds \ {"pvc", "boot"}
  BY DEF Kinds
<1>4. CASE ReadCa
  <2>1. UNCHANGED obj
    BY <1>4 DEF ReadCa
  <2>2. Moves
    BY <1>1, <1>4, WithMoves DEF ReadCa, Moves
  <2> QED
    BY <1>1, <1>2, <2>1, <2>2, QuietKeeps
<1>5. CASE GenerateCa
  <2>1. Moves
    BY <1>1, <1>5, WithMoves DEF GenerateCa
  <2>2. DOMAIN obj' = Kinds /\ obj'["pvc"] = obj["pvc"] /\ obj'["boot"] = obj["boot"]
    BY <1>3, <1>5, SetsKeeps DEF GenerateCa
  <2> QED
    BY <1>1, <1>2, <2>1, <2>2, OrdinaryKeeps DEF Ordinary
<1>6. CASE GenerateCaFails
  <2>1. Moves
    BY <1>6 DEF GenerateCaFails, Moves
  <2>2. DOMAIN obj' = Kinds /\ obj'["pvc"] = obj["pvc"] /\ obj'["boot"] = obj["boot"]
    <3>1. CASE UNCHANGED obj
      BY <3>1 DEF Inv
    <3>2. CASE Sets("ca", lastCa', "Present")
      BY <1>3, <3>2, SetsKeeps
    <3> QED
      BY <1>6, <3>1, <3>2 DEF GenerateCaFails
  <2> QED
    BY <1>1, <1>2, <2>1, <2>2, OrdinaryKeeps DEF Ordinary
<1> QED
  BY <1>4, <1>5, <1>6
LEMMA TlsSteps == Inv /\ (HandleTransport \/ HandleHttp \/ HandleAdminCertificate) => Inv'
<1> SUFFICES ASSUME Inv, HandleTransport \/ HandleHttp \/ HandleAdminCertificate PROVE Inv'
  OBVIOUS
<1>1. InRunningPhase
  BY DEF HandleTransport, HandleHttp, HandleAdminCertificate, InRunningPhase, Inv
<1>2. UNCHANGED <<cr, disk, formed>>
  BY DEF HandleTransport, HandleHttp, HandleAdminCertificate, kube
<1>3. {"transport", "http", "admin"} \subseteq Kinds \ {"pvc", "boot"}
  BY DEF Kinds
<1>4. CASE HandleTransport
  <2>1. CASE HandleTransportGenerate
    <3>1. PICK new : Calls("transport", new, "Present", Go, Idle)
      BY <2>1 DEF HandleTransportGenerate
    <3> QED
      BY <1>1, <1>2, <1>3, <3>1, CallKeeps, GoMoves
  <2>2. CASE HandleTransportExistingCerts
    BY <1>1, <1>2, <2>2, QuietKeeps, GoMoves DEF HandleTransportExistingCerts
  <2> QED
    BY <1>4, <2>1, <2>2 DEF HandleTransport
<1>5. CASE HandleHttp
  <2>1. CASE Calls("http", GenerateGlobal(Data("http"), worker.ca, now), "Present", Go, Idle)
    BY <1>1, <1>2, <1>3, <2>1, CallKeeps, GoMoves
  <2>2. CASE (worker' = Go \/ worker' = Idle) /\ UNCHANGED obj
    BY <1>1, <1>2, <2>2, QuietKeeps, GoMoves
  <2> QED
    BY <1>5, <2>1, <2>2 DEF HandleHttp
<1>6. CASE HandleAdminCertificate
  BY <1>1, <1>2, <1>3, <1>6, CallKeeps, GoMoves DEF HandleAdminCertificate
<1> QED
  BY <1>4, <1>5, <1>6

LEMMA ConfigurationStep == Inv /\ Configuration => Inv'
<1> SUFFICES ASSUME Inv, Configuration PROVE Inv'
  OBVIOUS
<1>1. InRunningPhase
  BY DEF Configuration, InRunningPhase, Inv
<1>2. UNCHANGED <<cr, disk, formed>>
  BY DEF Configuration, kube
<1>3. "config" \in Kinds \ {"pvc", "boot"}
  BY DEF Kinds
<1> DEFINE w == [worker EXCEPT !.volume = CreateAdditionalVolumes]
<1>4. DOMAIN w = Fields /\ w.initialized = worker.initialized /\ w.recreate = worker.recreate
  BY DEF Inv, Fields
<1>5. Calls("config", ConfigData, "Present", Goto("config", w), Idle)
  BY DEF Configuration
<1> HIDE DEF w
<1>6. Goto("config", w) = Idle \/ (/\ DOMAIN Goto("config", w) = Fields
                                   /\ Goto("config", w).initialized = w.initialized
                                   /\ Goto("config", w).recreate = w.recreate)
  BY <1>4, GotoKeeps
<1>7. worker' = Goto("config", w) => Moves
  BY <1>1, <1>4, <1>6 DEF Moves, InRunningPhase
<1> QED
  BY <1>1, <1>2, <1>3, <1>5, <1>7, CallKeeps, GoMoves

LEMMA ClusterSteps ==
    Inv /\ (Services \/ NodeStatefulSet \/ UpdateClusterStatus \/ ScalerStep) => Inv'
<1> SUFFICES ASSUME Inv, Services \/ NodeStatefulSet \/ UpdateClusterStatus \/ ScalerStep PROVE Inv'
  OBVIOUS
<1>1. InRunningPhase
  BY DEF Services, NodeStatefulSet, UpdateClusterStatus, ScalerStep, InRunningPhase, Inv
<1>2. UNCHANGED <<cr, disk, formed>>
  BY DEF Services, NodeStatefulSet, UpdateClusterStatus, ScalerStep, kube
<1>3. {"services", "sts"} \subseteq Kinds \ {"pvc", "boot"}
  BY DEF Kinds
<1>4. CASE Services
  <2>1. CASE Calls("services", NewServices, "Present", Go, GoFailed)
    BY <1>1, <1>2, <1>3, <2>1, CallKeeps, GoMoves
  <2>2. CASE worker' = Idle /\ UNCHANGED obj
    BY <1>1, <1>2, <2>2, QuietKeeps, GoMoves
  <2> QED
    BY <1>4, <2>1, <2>2 DEF Services
<1>5. CASE NodeStatefulSet
  BY <1>1, <1>2, <1>3, <1>5, CallKeeps, GoMoves DEF NodeStatefulSet
<1>6. CASE UpdateClusterStatus
  BY <1>1, <1>2, <1>6, QuietKeeps, GoMoves DEF UpdateClusterStatus
<1>7. CASE ScalerStep
  BY <1>1, <1>2, <1>3, <1>7, CallKeeps, GoMoves DEF ScalerStep
<1> QED
  BY <1>4, <1>5, <1>6, <1>7

LEMMA LaterSteps ==
    Inv /\ (DashboardsCertificate \/ DashboardsConfig \/ Dashboards \/ RestartStep \/ SnapshotRepositories) => Inv'
<1> SUFFICES ASSUME Inv, DashboardsCertificate \/ DashboardsConfig \/ Dashboards \/ RestartStep \/ SnapshotRepositories
             PROVE  Inv'
  OBVIOUS
<1>1. InRunningPhase
  BY DEF DashboardsCertificate, DashboardsConfig, Dashboards, RestartStep, SnapshotRepositories, InRunningPhase, Inv
<1>2. UNCHANGED <<cr, disk, formed>>
  BY DEF DashboardsCertificate, DashboardsConfig, Dashboards, RestartStep, SnapshotRepositories, kube
<1>3. {"dashCert", "dashConfig", "dashboards"} \subseteq Kinds \ {"pvc", "boot"}
  BY DEF Kinds
<1>4. CASE DashboardsCertificate
  <2> DEFINE cert == SecretData(CreateAndSignCertificate(worker.ca, now), worker.ca)
  <2>1. CASE Calls("dashCert", cert, "Present", Go, Idle)
    BY <1>1, <1>2, <1>3, <2>1, CallKeeps, GoMoves
  <2>2. CASE worker' = Go /\ UNCHANGED obj
    BY <1>1, <1>2, <2>2, QuietKeeps, GoMoves
  <2>3. CASE worker' = Go /\ Sets("dashCert", cert, "Present")
    <3>1. DOMAIN obj' = Kinds /\ obj'["pvc"] = obj["pvc"] /\ obj'["boot"] = obj["boot"]
      BY <1>3, <2>3, SetsKeeps
    <3> QED
      BY <1>1, <1>2, <2>3, <3>1, GoMoves, OrdinaryKeeps DEF Ordinary
  <2> QED
    BY <1>4, <2>1, <2>2, <2>3 DEF DashboardsCertificate
<1>5. CASE DashboardsConfig
  <2>1. Moves
    BY <1>1, <1>5, GoMoves DEF DashboardsConfig
  <2>2. CASE Sets("dashConfig", NewDashboardsConfigMap, "Present")
    <3>1. DOMAIN obj' = Kinds /\ obj'["pvc"] = obj["pvc"] /\ obj'["boot"] = obj["boot"]
      BY <1>3, <2>2, SetsKeeps
    <3> QED
      BY <1>1, <1>2, <2>1, <3>1, OrdinaryKeeps DEF Ordinary
  <2>3. CASE UNCHANGED obj
    BY <1>1, <1>2, <2>1, <2>3, QuietKeeps
  <2> QED
    BY <1>5, <2>2, <2>3 DEF DashboardsConfig
<1>6. CASE Dashboards
  <2>1. worker' = (IF worker.failed THEN Idle ELSE Go) => Moves
    BY <1>1, GoMoves
  <2> QED
    BY <1>1, <1>2, <1>3, <1>6, <2>1, CallKeeps, GoMoves DEF Dashboards
<1>7. CASE RestartStep
  <2>1. worker' = Go \/ worker' = Idle
    BY <1>7 DEF RestartStep
  <2> QED
    BY <1>1, <1>2, <1>7, <2>1, QuietKeeps, GoMoves DEF RestartStep
<1>8. CASE SnapshotRepositories
  BY <1>1, <1>2, <1>8, QuietKeeps, GoMoves DEF SnapshotRepositories
<1> QED
  BY <1>4, <1>5, <1>6, <1>7, <1>8
LEMMA BootstrapSteps ==
    Inv /\ (BootstrapPVC \/ BootstrapPodStep \/ ReconcileBootstrapPod \/ RecreateBootstrapPod) => Inv'
<1> SUFFICES ASSUME Inv, BootstrapPVC \/ BootstrapPodStep \/ ReconcileBootstrapPod \/ RecreateBootstrapPod PROVE Inv'
  OBVIOUS
<1>1. /\ worker.pc \in {"pvc", "boot"} /\ cr # None /\ cr.finalizer
      /\ (cr.initialized => worker.initialized) /\ (worker.initialized => cr.initialized)
  BY Zenon DEF BootstrapPVC, BootstrapPodStep, ReconcileBootstrapPod, RecreateBootstrapPod, Inv
<1>2. UNCHANGED <<cr, disk, formed>>
  BY Zenon DEF BootstrapPVC, BootstrapPodStep, ReconcileBootstrapPod, RecreateBootstrapPod, kube
<1>3. "pvc" \in Kinds /\ "boot" \in Kinds
  BY DEF Kinds
<1>4. CASE BootstrapPVC
  <2>1. InRunningPhase
    BY <1>4 DEF BootstrapPVC, InRunningPhase, Inv
  <2>2. Moves
    BY <1>4, <2>1, GoMoves, Zenon DEF BootstrapPVC, Calls
  <2>3. /\ DOMAIN obj' = Kinds /\ obj'["boot"] = obj["boot"]
        /\ (obj'["pvc"] # None /\ obj'["pvc"].deleting) =>
               \/ worker.initialized
               \/ obj["pvc"] # None /\ obj["pvc"].deleting
        /\ obj'["pvc"] # None => DOMAIN obj'["pvc"] = {"content", "deleting"}
    <3>1. CASE UNCHANGED obj
      BY <3>1 DEF Inv
    <3>2. CASE worker.initialized /\ Sets("pvc", TRUE, "Absent")
      BY <1>3, <3>2 DEF Sets, Inv, ReconcileResource, Delete
    <3>3. CASE ~worker.initialized /\ Sets("pvc", TRUE, "Present")
      <4>1. obj' = [obj EXCEPT !["pvc"] = ReconcileResource(obj["pvc"], TRUE, "Present")]
        BY <3>3 DEF Sets
      <4>2. DOMAIN obj' = Kinds /\ obj'["boot"] = obj["boot"]
            /\ obj'["pvc"] = ReconcileResource(obj["pvc"], TRUE, "Present")
        BY <1>3, <4>1 DEF Inv
      <4>3. obj["pvc"] = None => obj'["pvc"] = Object(TRUE)
        BY <4>2 DEF ReconcileResource, CreateIfNotExist
      <4>4. obj["pvc"] # None => obj'["pvc"] = Update(obj["pvc"], TRUE)
        BY <4>2 DEF ReconcileResource
      <4>5. (obj["pvc"] # None /\ ~obj["pvc"].deleting) => obj'["pvc"] = [obj["pvc"] EXCEPT !.content = TRUE]
        BY <4>4 DEF Update
      <4>6. CASE obj["pvc"] = None
        <5>1. Object(TRUE).deleting = FALSE /\ DOMAIN Object(TRUE) = {"content", "deleting"}
          BY DEF Object
        <5> QED
          BY <4>2, <4>3, <4>6, <5>1, Zenon
      <4>7. CASE obj["pvc"] # None /\ obj["pvc"].deleting
        BY <4>2, <4>4, <4>7, Zenon DEF Update, Inv
      <4>8. CASE obj["pvc"] # None /\ ~obj["pvc"].deleting
        <5> DEFINE q == obj["pvc"]
        <5>1. DOMAIN q = {"content", "deleting"}
          BY <4>8 DEF Inv
        <5> HIDE DEF q
        <5>2. LET n == [q EXCEPT !.content = TRUE] IN n.deleting = q.deleting /\ DOMAIN n = {"content", "deleting"}
          BY <5>1
        <5> QED
          BY <4>2, <4>5, <4>8, <5>2, Zenon DEF q
      <4> QED
        BY <4>6, <4>7, <4>8
    <3> QED
      BY <1>4, <3>1, <3>2, <3>3, Zenon DEF BootstrapPVC, Calls
  <2> QED
    BY <1>1, <1>2, <2>1, <2>2, <2>3, IdleFacts, Zenon DEF Inv, Over, Moves
<1>5. CASE BootstrapPodStep
  <2>1. InRunningPhase
    BY <1>5 DEF BootstrapPodStep, InRunningPhase
  <2>2. Moves
    BY <1>5, <2>1, GoMoves DEF BootstrapPodStep, Calls
  <2>3. DOMAIN obj' = Kinds /\ obj'["pvc"] = obj["pvc"] /\ (worker.initialized /\ obj["boot"] = None => obj'["boot"] = None)
    <3>1. CASE UNCHANGED obj
      BY <3>1 DEF Inv
    <3>2. CASE worker.initialized /\ Sets("boot", NewBootstrapPod, "Absent")
      BY <1>3, <3>2 DEF Sets, Inv, ReconcileResource, Delete
    <3>3. CASE ~worker.initialized /\ Sets("boot", NewBootstrapPod, "Created")
      BY <1>3, <3>3 DEF Sets, Inv
    <3> QED
      BY <1>5, <3>1, <3>2, <3>3 DEF BootstrapPodStep, Calls
  <2> QED
    BY <1>1, <1>2, <2>1, <2>2, <2>3, IdleFacts, Zenon DEF Inv, Over, Moves
<1>6. CASE ReconcileBootstrapPod
  <2>1. InRunningPhase
    BY <1>6 DEF ReconcileBootstrapPod, InRunningPhase
  <2>2. DOMAIN obj' = Kinds /\ obj'["pvc"] = obj["pvc"]
    BY <1>3, <1>6 DEF ReconcileBootstrapPod, Calls, Sets, Inv
  <2>3. Moves \/ worker' = [worker EXCEPT !.recreate = TRUE]
    BY <1>6, <2>1, GoMoves DEF ReconcileBootstrapPod, Calls
  <2>4. CASE Moves
    BY <1>1, <1>2, <1>6, <2>1, <2>2, <2>4, IdleFacts, Zenon DEF Inv, Over, Moves, ReconcileBootstrapPod
  <2>5. CASE worker' = [worker EXCEPT !.recreate = TRUE]
    <3>1. DOMAIN worker' = Fields /\ worker'.pc = "boot" /\ worker'.initialized = worker.initialized
      BY <1>6, <2>5 DEF Inv, Fields, ReconcileBootstrapPod
    <3> QED
      BY <1>1, <1>2, <1>6, <2>2, <3>1 DEF Inv, Over, ReconcileBootstrapPod
  <2> QED
    BY <2>3, <2>4, <2>5
<1>7. CASE RecreateBootstrapPod
  <2>1. ~worker.initialized
    BY <1>7 DEF RecreateBootstrapPod, Inv
  <2>2. DOMAIN obj' = Kinds /\ obj'["pvc"] = obj["pvc"]
    BY <1>3, <1>7 DEF RecreateBootstrapPod, Calls, Sets, Inv
  <2> DEFINE w == [worker EXCEPT !.recreate = FALSE]
             v == [w EXCEPT !.failed = TRUE]
  <2>3. /\ DOMAIN w = Fields /\ w.initialized = worker.initialized /\ w.recreate = FALSE
        /\ DOMAIN v = Fields /\ v.initialized = worker.initialized /\ v.recreate = FALSE
    BY DEF Inv, Fields
  <2>4. worker' = Goto("boot", w) \/ worker' = Goto("boot", v)
    BY <1>7 DEF RecreateBootstrapPod, Calls
  <2> HIDE DEF w, v
  <2>5. Moves
    <3>1. CASE worker' = Goto("boot", w)
      BY <2>3, <3>1, GotoKeeps DEF Moves
    <3>2. CASE worker' = Goto("boot", v)
      BY <2>3, <3>2, GotoKeeps DEF Moves
    <3> QED
      BY <2>4, <3>1, <3>2, Zenon
  <2> QED
    BY <1>1, <1>2, <2>1, <2>2, <2>5, IdleFacts, Zenon DEF Inv, Over, Moves
<1> QED
  BY <1>4, <1>5, <1>6, <1>7
LEMMA ControllerSteps ==
    Inv /\ (Fetch \/ DeleteExternalResources \/ FinishDeletion \/ Phase \/ UpdateInitialized \/ Crash) => Inv'
<1> SUFFICES ASSUME Inv, Fetch \/ DeleteExternalResources \/ FinishDeletion \/ Phase \/ UpdateInitialized \/ Crash
             PROVE  Inv'
  OBVIOUS
<1>1. UNCHANGED <<obj, disk, formed>>
  BY DEF Fetch, DeleteExternalResources, FinishDeletion, Phase, UpdateInitialized, Crash, kube
<1>2. CASE Fetch
  <2>1. cr \in Clusters /\ cr # None /\ cr' \in Clusters /\ cr' # None /\ cr'.initialized = cr.initialized
    BY <1>2, WithFinalizer, Zenon DEF Fetch, Inv
  <2>2. CASE UNCHANGED worker /\ cr' \in {cr, [cr EXCEPT !.finalizer = TRUE]}
    <3>1. cr.finalizer => cr'.finalizer
      BY <2>1, <2>2 DEF Clusters
    <3> QED
      BY <1>1, <2>1, <2>2, <3>1 DEF Inv, Over
  <2>3. CASE /\ cr' = [cr EXCEPT !.finalizer = TRUE]
             /\ worker' = [Idle EXCEPT !.pc = "phase", !.gen = cr.gen, !.replicas = cr.replicas,
                                       !.initialized = cr.initialized]
    <3>1. cr'.finalizer
      BY <2>1, <2>3 DEF Clusters
    <3>2. /\ DOMAIN worker' = Fields /\ worker'.pc = "phase" /\ worker'.recreate = FALSE
          /\ worker'.initialized = cr.initialized
      BY <2>3 DEF Idle, Fields
    <3>3. cr.initialized \in BOOLEAN
      BY <2>1 DEF Clusters
    <3> QED
      BY <1>1, <2>1, <3>1, <3>2, <3>3 DEF Inv, Over
  <2> QED
    BY <1>2, <2>2, <2>3 DEF Fetch
<1>3. CASE DeleteExternalResources
  <2>1. cr' = cr /\ cr # None /\ worker' = [Idle EXCEPT !.pc = "delete"]
    BY <1>3 DEF DeleteExternalResources
  <2>2. DOMAIN worker' = Fields /\ worker'.pc = "delete" /\ worker'.recreate = FALSE /\ worker'.initialized = FALSE
    BY <2>1 DEF Idle, Fields
  <2> QED
    BY <1>1, <1>3, <2>1, <2>2, Zenon DEF Inv, Over, DeleteExternalResources
<1>4. CASE FinishDeletion
  <2>1. worker' = Idle /\ (cr' = None \/ cr' = cr)
    BY <1>4 DEF FinishDeletion
  <2> QED
    BY <1>1, <2>1, IdleFacts, Zenon DEF Inv, Over
<1>5. CASE Phase
  <2>1. /\ cr \in Clusters /\ cr # None /\ cr' \in Clusters /\ cr' # None
        /\ cr'.initialized = cr.initialized /\ cr'.finalizer = cr.finalizer
    <3>1. cr \in Clusters /\ cr # None
      BY <1>5 DEF Phase, Inv
    <3>2. cr' = cr \/ cr' = [cr EXCEPT !.phase = "RUNNING"]
      BY <1>5 DEF Phase
    <3> QED
      BY <3>1, <3>2, ClusterPassAssumption DEF Clusters
  <2>2. CASE worker' = Idle
    BY <1>1, <2>1, <2>2, IdleFacts, Zenon DEF Inv, Over
  <2>3. CASE worker' = [worker EXCEPT !.pc = "initialized"]
    <3>1. /\ DOMAIN worker' = Fields /\ worker'.pc = "initialized" /\ worker'.initialized = worker.initialized
          /\ worker'.recreate = worker.recreate
      BY <2>3 DEF Inv, Fields
    <3>2. worker.pc = "phase"
      BY <1>5 DEF Phase
    <3> QED
      BY <1>1, <2>1, <3>1, <3>2 DEF Inv, Over
  <2> QED
    BY <1>5, <2>2, <2>3 DEF Phase
<1>6. CASE UpdateInitialized
  <2> DEFINE init == cr.initialized \/ AllMastersReady
  <2>1. worker.pc = "initialized" /\ cr \in Clusters /\ cr # None /\ cr.finalizer /\ worker.recreate # TRUE
    BY <1>6, ClusterPassAssumption, Zenon DEF UpdateInitialized, Inv
  <2>2. CASE worker.initialized /\ worker' = Go /\ cr' = cr
    <3>1. Go = Idle \/ (/\ DOMAIN Go = Fields /\ Go.initialized = worker.initialized /\ Go.recreate = worker.recreate)
      <4>1. DOMAIN worker = Fields
        BY DEF Inv
      <4> QED
        BY <4>1, GotoKeeps DEF Go
    <3> QED
      BY <1>1, <2>1, <2>2, <3>1, IdleFacts, Zenon DEF Inv, Over
  <2>3. CASE worker' = Idle /\ cr' \in {cr, [cr EXCEPT !.initialized = init]}
    <3>1. cr' \in Clusters /\ cr' # None /\ (cr.initialized => cr'.initialized)
      BY <2>1, <2>3, ClusterPassAssumption DEF Clusters
    <3> QED
      BY <1>1, <2>1, <2>3, <3>1, IdleFacts, Zenon DEF Inv, Over
  <2>4. CASE /\ cr' = [cr EXCEPT !.initialized = init]
             /\ worker' = Goto("initialized", [worker EXCEPT !.gen = cr.gen, !.replicas = cr.replicas, !.initialized = init])
    <3> DEFINE w == [worker EXCEPT !.gen = cr.gen, !.replicas = cr.replicas, !.initialized = init]
    <3>1. cr' \in Clusters /\ cr' # None /\ cr'.finalizer /\ cr'.initialized = init
      BY <2>1, <2>4, ClusterPassAssumption DEF Clusters
    <3>2. DOMAIN w = Fields /\ w.initialized = init /\ w.recreate = worker.recreate
      BY DEF Inv, Fields
    <3> HIDE DEF w
    <3>3. worker' = Goto("initialized", w)
      BY <2>4 DEF w
    <3>4. worker' = Idle \/ (DOMAIN worker' = Fields /\ worker'.initialized = init /\ worker'.recreate = worker.recreate)
      BY <3>2, <3>3, GotoKeeps
    <3>5. init \in BOOLEAN /\ (cr.initialized => init)
      OBVIOUS
    <3> HIDE DEF init
    <3> QED
      BY <1>1, <2>1, <3>1, <3>4, <3>5, IdleFacts, Zenon DEF Inv, Over
  <2> QED
    BY <1>6, <2>2, <2>3, <2>4 DEF UpdateInitialized
<1>7. CASE Crash
  BY <1>1, <1>7, IdleFacts, Zenon DEF Inv, Over, Crash
<1> QED
  BY <1>2, <1>3, <1>4, <1>5, <1>6, <1>7
LEMMA EnvironmentSteps ==
    ASSUME Inv,
           \/ Edit \/ EditVolume \/ DeleteResource \/ LoseCa \/ Tick
           \/ \E i \in Ordinals : StartPod(i) \/ StopPod(i) \/ PodFails(i) \/ Join(i)
           \/ StartBootstrap \/ StopBootstrap \/ DropVolume \/ RollOutDashboards \/ CollectGarbage
    PROVE  Inv'
<1>1. CASE Edit
  <2>1. PICK n \in 1..MaxReplicas : cr' = [cr EXCEPT !.gen = cr.gen + 1, !.replicas = n]
    BY <1>1, Zenon DEF Edit
  <2>2. cr \in Clusters /\ cr # None
    BY <1>1, Zenon DEF Edit, Inv
  <2>3. cr' \in Clusters /\ cr'.initialized = cr.initialized /\ cr'.finalizer = cr.finalizer
    <3>1. n \in Int
      BY ReplicasAreNumbers
    <3>2. cr.gen + 1 \in Int
      BY <2>2 DEF Clusters
    <3> HIDE DEF MaxReplicas
    <3> QED
      BY <2>1, <2>2, <3>1, <3>2, Zenon DEF Clusters
  <2> QED
    BY <1>1, <2>2, <2>3, ClusterPassAssumption, Zenon DEF Inv, Over, Edit, kube
<1>2. CASE DeleteResource
  <2>1. cr \in Clusters /\ cr # None
    BY <1>2 DEF DeleteResource, Inv
  <2>2. CASE cr.finalizer
    <3>1. cr' = [cr EXCEPT !.deleting = TRUE]
      BY <1>2, <2>2 DEF DeleteResource
    <3>2. cr' \in Clusters /\ cr'.initialized = cr.initialized /\ cr'.finalizer = cr.finalizer
      BY <2>1, <3>1, Zenon DEF Clusters
    <3> QED
      BY <1>2, <2>1, <3>2, ClusterPassAssumption, Zenon DEF Inv, Over, DeleteResource, kube
  <2>3. CASE ~cr.finalizer
    <3>1. cr' = None /\ UNCHANGED <<obj, worker, disk, formed>>
      BY <1>2, <2>3 DEF DeleteResource, kube
    <3> QED
      BY <2>3, <3>1 DEF Inv, Over
  <2> QED
    BY <2>2, <2>3
<1>3. CASE LoseCa
  <2>1. DOMAIN obj' = Kinds /\ obj'["pvc"] = obj["pvc"] /\ obj'["boot"] = obj["boot"]
    BY <1>3 DEF LoseCa, Inv, Kinds
  <2> QED
    BY <1>3, <2>1 DEF LoseCa, Inv, Over, kube
<1>4. CASE UNCHANGED <<cr, obj, worker, disk, formed>>
  BY <1>4, UnchangedKeeps
<1>5. CASE StartBootstrap
  <2>1. UNCHANGED <<cr, obj, worker>> /\ disk' = TRUE /\ obj["boot"] # None
    BY <1>5 DEF StartBootstrap, Others
  <2>2. formed \in {0, 1} /\ (formed = 1 => disk)
    BY <2>1 DEF Inv
  <2>3. formed' \in {0, 1}
    BY <1>5, <2>2 DEF StartBootstrap
  <2> QED
    BY <2>1, <2>3, Zenon DEF Inv, Over
<1>6. CASE StopBootstrap
  <2>1. UNCHANGED <<cr, worker, disk, formed>> /\ obj["boot"] # None
    BY <1>6 DEF StopBootstrap, Others
  <2>2. DOMAIN obj' = Kinds /\ obj'["pvc"] = obj["pvc"]
    BY <1>6 DEF StopBootstrap, Inv, Kinds
  <2> QED
    BY <2>1, <2>2 DEF Inv, Over
<1>7. CASE DropVolume
  <2>1. UNCHANGED <<cr, worker, formed>> /\ obj["boot"] = None /\ obj["pvc"] # None /\ obj["pvc"].deleting
    BY <1>7 DEF DropVolume, Others
  <2>2. DOMAIN obj' = Kinds /\ obj'["pvc"] = None /\ obj'["boot"] = obj["boot"]
    BY <1>7 DEF DropVolume, Inv, Kinds
  <2> QED
    BY <2>1, <2>2 DEF Inv, Over
<1>8. CASE CollectGarbage
  <2>1. UNCHANGED <<cr, worker, formed>> /\ cr = None
    BY <1>8 DEF CollectGarbage, Others
  <2>2. DOMAIN obj' = Kinds /\ obj'["pvc"] = None /\ obj'["boot"] = None
    BY <1>8 DEF CollectGarbage, Kinds
  <2> QED
    BY <2>1, <2>2 DEF Inv, Over
<1>9. CASE EditVolume \/ Tick \/ RollOutDashboards \/ \E i \in Ordinals : StartPod(i) \/ StopPod(i) \/ PodFails(i) \/ Join(i)
  BY <1>4, <1>9, Zenon DEF EditVolume, Tick, RollOutDashboards, StartPod, StopPod, PodFails, Join, Others, kube
<1> QED
  BY <1>1, <1>2, <1>3, <1>5, <1>6, <1>7, <1>8, <1>9

LEMMA InitInv == Init => Inv
<1> SUFFICES ASSUME Init PROVE Inv
  OBVIOUS
<1>1. conf.replicas \in Int
  <2>1. conf \in Setups
    BY DEF Init
  <2>2. conf.replicas \in 1..MaxReplicas
    BY <2>1, ClusterPassAssumption
  <2> QED
    BY <2>2, ReplicasAreNumbers
<1>2. cr \in Clusters
  <2>1. cr = [gen |-> 1, replicas |-> conf.replicas, phase |-> "PENDING", initialized |-> FALSE, finalizer |-> FALSE,
              deleting |-> FALSE]
    BY DEF Init
  <2> QED
    BY <1>1, <2>1 DEF Clusters
<1>3. cr.initialized = FALSE /\ cr.finalizer = FALSE
  BY DEF Init
<1>4. worker.pc = "idle" /\ worker.initialized = FALSE /\ worker.recreate = FALSE /\ DOMAIN worker = Fields
  BY IdleFacts DEF Init
<1>5. DOMAIN obj = Kinds /\ obj["pvc"] = None /\ obj["boot"] = None /\ formed = 0
  BY DEF Init, Kinds
<1> QED
  <2>1. /\ worker.pc # "idle" => cr # None /\ cr.finalizer
        /\ worker.initialized \in BOOLEAN
        /\ worker.initialized => cr # None /\ cr.initialized /\ cr.finalizer
        /\ worker.pc \notin {"idle", "phase", "initialized", "delete"} => (cr.initialized => worker.initialized)
        /\ worker.recreate => worker.pc = "boot" /\ ~worker.initialized
    BY <1>4, Zenon
  <2>2. formed \in {0, 1} /\ ((formed = 1 /\ ~disk) => obj["boot"] = None /\ Over)
    BY <1>5
  <2>3. /\ obj["pvc"] # None => DOMAIN obj["pvc"] = {"content", "deleting"}
        /\ (obj["pvc"] # None /\ obj["pvc"].deleting) => Over
    BY <1>5
  <2> QED
    BY <1>2, <1>4, <1>5, <2>1, <2>2, <2>3, Zenon DEF Inv

LEMMA NextInv == Inv /\ [Next]_vars => Inv'
<1>1. Inv /\ Worker => Inv'
  BY ControllerSteps, CertificateSteps, TlsSteps, ConfigurationStep, ClusterSteps, BootstrapSteps, LaterSteps
     DEF Worker
<1>2. Inv /\ UNCHANGED vars => Inv'
  BY UnchangedKeeps DEF vars
<1> QED
  BY <1>1, <1>2, ControllerSteps, EnvironmentSteps DEF Next

(* cluster.go:118-133 never lets a second cluster be bootstrapped: no matter which
   calls fail, when the operator crashes and what users do, the bootstrap pod
   finds its volume as long as one may still be started. *)
THEOREM BootstrappedOnce == Spec => []SingleCluster
<1>1. Inv => SingleCluster
  <2>1. Inv => formed \in {0, 1}
    BY DEF Inv
  <2> QED
    BY <2>1 DEF SingleCluster
<1> QED
  BY <1>1, InitInv, NextInv, PTL DEF Spec

----------------------------------------------------------------------------
(* The steps that come after the certificates of the nodes, after the
   configuration, and after the StatefulSet was reported. *)
AfterTransport == {"httpCa", "http", "adminCa", "admin", "config", "services", "pvc", "boot", "sts", "status", "scaler",
                   "dashCa", "dashCert", "dashConfig", "dashboards", "restart", "repos"}
AfterConfig == {"services", "pvc", "boot", "sts", "status", "scaler", "dashCa", "dashCert", "dashConfig", "dashboards",
                "restart", "repos"}
AfterStatus == {"scaler", "dashCa", "dashCert", "dashConfig", "dashboards", "restart", "repos"}

(* What the order of the steps says of a pass that goes from step s to step t:
   it does not leave out a step that the setup takes. *)
InOrder(s, t) ==
    /\ (Transport /\ t \in AfterTransport) => s \in AfterTransport \cup {"transport"}
    /\ (HasConfig /\ t \in AfterConfig) => s \in AfterConfig \cup {"config"}
    /\ t \in AfterStatus => s \in AfterStatus \cup {"status"}
    /\ t = "status" => s = "sts"
    /\ (Transport /\ t = "transport") => s = "transportCa"
    /\ (Http /\ t = "http") => s = "httpCa"
    /\ t = "admin" => s = "adminCa"
    /\ t \notin {"idle", "phase", "initialized", "delete"}

LEMMA StepPositions ==
    /\ Len(Steps) = 20
    /\ \A n \in 1..20 :
          /\ Steps[n] = "transportCa" <=> n = 2
          /\ Steps[n] = "transport" <=> n = 3
          /\ Steps[n] = "httpCa" <=> n = 4
          /\ Steps[n] = "http" <=> n = 5
          /\ Steps[n] = "adminCa" <=> n = 6
          /\ Steps[n] = "admin" <=> n = 7
          /\ Steps[n] = "config" <=> n = 8
          /\ Steps[n] = "sts" <=> n = 12
          /\ Steps[n] = "status" <=> n = 13
          /\ Steps[n] \in AfterTransport <=> n > 3
          /\ Steps[n] \in AfterConfig <=> n > 8
          /\ Steps[n] \in AfterStatus <=> n > 13
          /\ Steps[n] \notin {"idle", "phase", "delete"}
          /\ Steps[n] = "initialized" <=> n = 1
BY DEF Steps, AfterTransport, AfterConfig, AfterStatus

LEMMA StepsDiffer == \A m, n \in 1..20 : Steps[m] = Steps[n] => m = n
BY DEF Steps

LEMMA LeastOf ==
    ASSUME NEW S \in SUBSET (1..20), S # {}
    PROVE  LET n == CHOOSE n \in S : \A m \in S : n <= m IN n \in S /\ \A m \in S : n <= m
<1>1. \E n \in S : \A m \in S : n <= m
  <2> SUFFICES ASSUME \A n \in S : \E m \in S : m < n PROVE FALSE
    OBVIOUS
  <2>1. \A n \in 1..6 : n \notin S
    OBVIOUS
  <2>2. \A n \in 7..12 : n \notin S
    BY <2>1
  <2>3. \A n \in 13..20 : n \notin S
    BY <2>1, <2>2
  <2>4. PICK n \in S : TRUE
    BY Zenon
  <2>5. n \in 1..6 \/ n \in 7..12 \/ n \in 13..20
    OBVIOUS
  <2> QED
    BY <2>1, <2>2, <2>3, <2>5, Zenon
<1> QED
  BY <1>1, Zenon

LEMMA TakenSteps ==
    /\ Transport => Takes("transportCa") /\ Takes("transport")
    /\ Http => Takes("httpCa")
    /\ Takes("admin") => Takes("adminCa")
    /\ HasConfig => Takes("config")
    /\ Takes("sts") /\ Takes("status")
BY DEF Takes, Transport, Http

LEMMA GotoInOrder ==
    ASSUME NEW s, NEW w, DOMAIN w = Fields, \E m \in 1..20 : Steps[m] = s
    PROVE  Goto(s, w) = Idle \/ \E t : Goto(s, w) = [w EXCEPT !.pc = t] /\ InOrder(s, t)
<1> DEFINE here == CHOOSE n \in 1..Len(Steps) : Steps[n] = s
           rest == {n \in (here + 1)..Len(Steps) : Takes(Steps[n])}
           next == CHOOSE n \in rest : \A m \in rest : n <= m
<1>1. here \in 1..20 /\ Steps[here] = s
  BY StepPositions
<1>2. Goto(s, w) = IF rest = {} THEN Idle ELSE [w EXCEPT !.pc = Steps[next]]
  BY Zenon DEF Goto
<1>3. rest \in SUBSET (1..20) /\ \A n \in 1..20 : n \in rest <=> n > here /\ Takes(Steps[n])
  BY <1>1, StepPositions, LaterPositions, Zenon
<1> HIDE DEF here, rest
<1>4. CASE rest # {}
  <2>1. next \in rest /\ \A m \in rest : next <= m
    BY <1>3, <1>4, LeastOf
  <2> HIDE DEF next
  <2>2. next \in 1..20 /\ next > here /\ Takes(Steps[next])
    BY <1>3, <2>1
  <2>3. \A k \in 1..20 : Takes(Steps[k]) => k <= here \/ next <= k
    BY <1>1, <1>3, <2>1, <2>2
  <2>4. /\ Steps[2] = "transportCa" /\ Steps[3] = "transport" /\ Steps[4] = "httpCa" /\ Steps[6] = "adminCa"
        /\ Steps[7] = "admin" /\ Steps[8] = "config" /\ Steps[12] = "sts" /\ Steps[13] = "status"
    BY DEF Steps
  <2>5. /\ Transport => (2 <= here \/ next <= 2) /\ (3 <= here \/ next <= 3)
        /\ Http => (4 <= here \/ next <= 4)
        /\ next = 7 => 6 <= here
        /\ HasConfig => (8 <= here \/ next <= 8)
        /\ 12 <= here \/ next <= 12
        /\ 13 <= here \/ next <= 13
    BY <2>2, <2>3, <2>4, TakenSteps
  <2>6. InOrder(s, Steps[next])
    BY <1>1, <2>2, <2>5, StepPositions DEF InOrder
  <2> QED
    BY <1>2, <1>4, <2>6
<1> QED
  BY <1>2, <1>4, Zenon
(* An object with one of the contents, and not in deletion. *)
Stored(o, Contents) == DOMAIN o = {"content", "deleting"} /\ o.content \in Contents /\ o.deleting = FALSE
Holds(k, Contents) == obj[k] # None => Stored(obj[k], Contents)

PodFields == {"template", "config", "volume", "ca", "by", "ready"}

ShapeInv ==
    /\ DOMAIN pods = Ordinals /\ \A i \in Ordinals : pods[i] # None => DOMAIN pods[i] = PodFields
    /\ Holds("ca", Int) /\ Holds("config", Int) /\ Holds("sts", StatefulSets)
    /\ Holds("transport", Secrets) /\ Holds("http", Secrets) /\ Holds("admin", Secrets)
    /\ worker.gen \in Int /\ worker.ca \in Int /\ worker.volume \in Int /\ worker.replicas \in Int
    /\ now \in Int /\ lastCa \in Int /\ volume \in Nat /\ events \in Nat

(* A volume that was read once, when it now has content vol, or is gone, after n events. *)
Fresh(v, mounted, vol, n) == v \in Nat /\ v <= n + 1 /\ (v <= vol \/ (mounted /\ vol = 0))

(* A pod of template t finds its configuration, or a later one. *)
Serves(t, config, mounted, vol, n) ==
    /\ config # None /\ t.hash \in Seq(Int) /\ Len(t.hash) = 2
    /\ t.hash[1] <= config.content /\ Fresh(t.hash[2], mounted, vol, n)

(* A pod runs with the configuration of its template, or a later one, and will
   do so when it is started again. *)
RunsWell(p, config, mounted, vol, n) ==
    /\ Serves(p.template, config, mounted, vol, n)
    /\ p.config \in Int /\ p.template.hash[1] <= p.config
    /\ p.volume \in Int /\ p.template.hash[2] <= p.volume

(* What such a pod runs with, and when one that is started is such a pod. *)
LEMMA RunsItsConfig ==
    ASSUME NEW p, NEW config, NEW mounted, NEW vol, NEW n, RunsWell(p, config, mounted, vol, n)
    PROVE  p.config >= p.template.hash[1] /\ p.volume >= p.template.hash[2]
BY DEF RunsWell, Serves

LEMMA StartsWell ==
    ASSUME NEW p, NEW config, NEW mounted, NEW vol \in Nat, NEW n, Serves(p.template, config, mounted, vol, n),
           config.content \in Int, p.config = config.content,
           p.volume = vol, mounted => vol # 0
    PROVE  RunsWell(p, config, mounted, vol, n)
BY DEF RunsWell, Serves, Fresh

LEMMA RestartsWell ==
    ASSUME NEW p, NEW q, NEW config, NEW mounted, NEW vol \in Nat, NEW n, RunsWell(q, config, mounted, vol, n),
           config.content \in Int, p.template = q.template, p.config = config.content,
           p.volume = IF vol = 0 THEN q.volume ELSE vol
    PROVE  RunsWell(p, config, mounted, vol, n)
BY DEF RunsWell, Serves, Fresh

ConfigInv ==
    /\ volume <= events + 1 /\ Fresh(worker.volume, conf.volume, volume, events)
    /\ (obj["config"] # None /\ cr # None) => obj["config"].content <= cr.gen
    /\ worker.pc \notin {"idle", "delete"} =>
           worker.gen <= cr.gen /\ (obj["config"] # None => obj["config"].content <= worker.gen)
    /\ HasConfig =>
           /\ worker.pc \in AfterConfig => obj["config"] # None /\ obj["config"].content = worker.gen
           /\ obj["boot"] # None => obj["config"] # None
           /\ obj["sts"] # None => Serves(obj["sts"].content.template, obj["config"], conf.volume, volume, events)
           /\ \A i \in Ordinals : pods[i] # None => RunsWell(pods[i], obj["config"], conf.volume, volume, events)

Has(s) == obj["transport"] # None /\ obj["transport"].content.crt[s] # None

CertInv ==
    /\ worker.pc = "status" => worker.failed = TRUE \/ obj["sts"] # None
    /\ worker.pc \in AfterStatus => obj["sts"] # None
    /\ (conf.transport = "global" /\ obj["transport"] # None) => Has(Global)
    /\ obj["admin"] # None => obj["admin"].content.crt[Global] # None
    /\ \A i \in Ordinals : pods[i] # None /\ Transport => Has(Subject(i))
    /\ conf.transport = "perNode" =>
           /\ worker.pc \in AfterTransport =>
                  /\ \A i \in Ordinals : i < worker.replicas => Has(i)
                  /\ ~worker.initialized => Has(BootstrapPod)
           /\ obj["sts"] # None => \A i \in Ordinals : i < obj["sts"].content.replicas => Has(i)
           /\ obj["boot"] # None => Has(BootstrapPod)

TheCa == IF conf.caGiven THEN ProvidedCa ELSE obj["ca"].content
CaKnown == conf.caGiven \/ obj["ca"] # None
NodeCa == IF Transport THEN TheCa ELSE ProvidedCa

HoldsCa(k) ==
    obj[k] # None => /\ CaKnown /\ obj[k].content.ca = TheCa
                     /\ \A s \in Subjects : obj[k].content.crt[s] # None => obj[k].content.crt[s].by = TheCa

TrustsCa(p) == (Transport => CaKnown) /\ p.ca = NodeCa /\ p.by = NodeCa

TrustInv ==
    "ca" \notin causes =>
        /\ (worker.pc = "transport" /\ Transport) \/ (worker.pc = "http" /\ Http) \/ worker.pc = "admin" =>
               CaKnown /\ worker.ca = TheCa
        /\ HoldsCa("transport") /\ HoldsCa("http") /\ HoldsCa("admin")
        /\ \A i \in Ordinals : pods[i] # None => TrustsCa(pods[i])
        /\ boot # None => TrustsCa(boot)

IInv == Inv /\ ShapeInv /\ ConfigInv /\ CertInv /\ TrustInv

----------------------------------------------------------------------------
(* How the worker moves. *)

(* A step at which nothing is claimed of the objects. *)
Claimless(t) ==
    /\ Transport => t \notin AfterTransport \cup {"transport"}
    /\ HasConfig => t \notin AfterConfig
    /\ t \notin AfterStatus \cup {"status", "admin"}
    /\ Http => t # "http"

(* The pass ends, or begins, with what is in the resource. *)
Turns ==
    /\ Claimless(worker'.pc) /\ worker'.volume \in {0, worker.volume}
    /\ worker'.gen \in Int /\ worker'.ca \in Int /\ worker'.replicas \in Int
    /\ worker'.pc \notin {"idle", "delete"} =>
           worker'.gen <= cr'.gen /\ (obj["config"] # None => obj["config"].content <= worker'.gen)

(* The pass goes on. *)
Proceeds ==
    /\ worker'.gen = worker.gen /\ worker'.replicas = worker.replicas /\ worker'.initialized = worker.initialized
    /\ worker.pc \notin {"idle", "delete"} /\ InOrder(worker.pc, worker'.pc)

IsStep(s) == \E m \in 1..20 : Steps[m] = s

LEMMA IdleTurns ==
    ASSUME worker' = Idle
    PROVE  Turns
BY DEF Idle, Turns, Claimless, AfterTransport, AfterConfig, AfterStatus

LEMMA GotoProceeds ==
    ASSUME Inv, NEW w, DOMAIN w = Fields, IsStep(worker.pc),
           w.gen = worker.gen, w.replicas = worker.replicas, w.initialized = worker.initialized,
           worker' = Goto(worker.pc, w)
    PROVE  \/ worker' = Idle
           \/ Proceeds /\ worker'.ca = w.ca /\ worker'.volume = w.volume /\ worker'.failed = w.failed
<1>1. CASE worker' # Idle
  <2>1. PICK t : worker' = [w EXCEPT !.pc = t] /\ InOrder(worker.pc, t)
    BY <1>1, GotoInOrder DEF IsStep
  <2>2. /\ worker'.pc = t /\ worker'.gen = w.gen /\ worker'.replicas = w.replicas /\ worker'.initialized = w.initialized
        /\ worker'.ca = w.ca /\ worker'.volume = w.volume /\ worker'.failed = w.failed
    BY <2>1 DEF Fields
  <2>3. worker.pc \notin {"idle", "delete"}
    BY StepPositions DEF IsStep
  <2> QED
    BY <2>1, <2>2, <2>3 DEF Proceeds
<1> QED
  BY <1>1

LEMMA GoProceeds ==
    ASSUME Inv, IsStep(worker.pc), worker' = Go
    PROVE  \/ worker' = Idle
           \/ Proceeds /\ worker'.ca = worker.ca /\ worker'.volume = worker.volume /\ worker'.failed = worker.failed
BY GotoProceeds DEF Go, Inv

LEMMA GoFailedProceeds ==
    ASSUME Inv, IsStep(worker.pc), worker' = GoFailed
    PROVE  \/ worker' = Idle
           \/ Proceeds /\ worker'.ca = worker.ca /\ worker'.volume = worker.volume /\ worker'.failed = TRUE
<1> DEFINE w == [worker EXCEPT !.failed = TRUE]
<1>1. /\ DOMAIN w = Fields /\ w.gen = worker.gen /\ w.replicas = worker.replicas /\ w.initialized = worker.initialized
      /\ w.ca = worker.ca /\ w.volume = worker.volume /\ w.failed = TRUE
  BY DEF Inv, Fields
<1>2. worker' = Goto(worker.pc, w)
  BY DEF GoFailed
<1> HIDE DEF w
<1> QED
  BY <1>1, <1>2, GotoProceeds

LEMMA WithProceeds ==
    ASSUME Inv, IsStep(worker.pc), NEW ca, worker' = With(ca)
    PROVE  \/ worker' = Idle
           \/ Proceeds /\ worker'.ca = ca /\ worker'.volume = worker.volume
<1> DEFINE w == [worker EXCEPT !.ca = ca]
<1>1. /\ DOMAIN w = Fields /\ w.gen = worker.gen /\ w.replicas = worker.replicas /\ w.initialized = worker.initialized
      /\ w.ca = ca /\ w.volume = worker.volume
  BY DEF Inv, Fields
<1>2. worker' = Goto(worker.pc, w)
  BY DEF With
<1> HIDE DEF w
<1> QED
  BY <1>1, <1>2, GotoProceeds

LEMMA TheSteps ==
    \A s \in {"initialized", "transportCa", "transport", "httpCa", "http", "adminCa", "admin", "config", "services",
              "pvc", "boot", "sts", "status", "scaler", "dashCa", "dashCert", "dashConfig", "dashboards", "restart",
              "repos"} : IsStep(s)
<1>1. \A n \in 1..20 : IsStep(Steps[n])
  BY DEF IsStep
<1> QED
  BY <1>1 DEF Steps
----------------------------------------------------------------------------
(* What nearly every step leaves alone. *)
Frame ==
    /\ conf' = conf /\ causes \subseteq causes'
    /\ events' \in Nat /\ events <= events'
    /\ cr' # None => cr # None /\ cr.gen <= cr'.gen /\ cr'.gen \in Int
    /\ DOMAIN pods' = Ordinals

LEMMA FreshKept ==
    ASSUME NEW vol \in Nat, NEW n \in Nat, NEW m \in Nat, n <= m, NEW mounted, NEW config
    PROVE  /\ \A v : Fresh(v, mounted, vol, n) => Fresh(v, mounted, vol, m)
           /\ \A t : Serves(t, config, mounted, vol, n) => Serves(t, config, mounted, vol, m)
           /\ \A p : RunsWell(p, config, mounted, vol, n) => RunsWell(p, config, mounted, vol, m)
           /\ vol <= n + 1 => vol <= m + 1
           /\ Fresh(0, mounted, vol, n)
<1>1. \A v : Fresh(v, mounted, vol, n) => Fresh(v, mounted, vol, m)
  BY DEF Fresh
<1>2. \A t : Serves(t, config, mounted, vol, n) => Serves(t, config, mounted, vol, m)
  BY <1>1, Zenon DEF Serves
<1>3. \A p : RunsWell(p, config, mounted, vol, n) => RunsWell(p, config, mounted, vol, m)
  BY <1>2, Zenon DEF RunsWell
<1>4. (vol <= n + 1 => vol <= m + 1) /\ Fresh(0, mounted, vol, n)
  BY DEF Fresh
<1> QED
  BY <1>1, <1>2, <1>3, <1>4, Zenon

(* A bootstrap pod is created by a step that knows its certificate to be there. *)
BootFrame == obj'["boot"] # None => obj["boot"] # None \/ (worker.pc = "boot" /\ ~worker.initialized)

LEMMA ConfigFrame ==
    ASSUME IInv, Inv', Frame, volume' = volume, BootFrame, obj'["config"] = obj["config"],
           (HasConfig /\ obj'["sts"] # None) =>
               \/ obj'["sts"] = obj["sts"]
               \/ Serves(obj'["sts"].content.template, obj["config"], conf.volume, volume, events),
           \A i \in Ordinals : (HasConfig /\ pods'[i] # None) =>
               pods'[i] = pods[i] \/ RunsWell(pods'[i], obj["config"], conf.volume, volume, events),
           \/ UNCHANGED worker
           \/ Turns
           \/ Proceeds /\ worker.pc # "config" /\ worker'.volume = worker.volume
    PROVE  ConfigInv'
<1> USE DEF IInv
<1>1. HasConfig' <=> HasConfig
  BY Zenon DEF Frame, HasConfig
<1>2. \A v : Fresh(v, conf.volume, volume, events) => Fresh(v, conf'.volume, volume', events')
  BY FreshKept DEF Frame, ShapeInv
<1>3. \A t : Serves(t, obj["config"], conf.volume, volume, events) => Serves(t, obj'["config"], conf'.volume, volume', events')
  BY FreshKept DEF Frame, ShapeInv
<1>4. \A p : RunsWell(p, obj["config"], conf.volume, volume, events) => RunsWell(p, obj'["config"], conf'.volume, volume', events')
  BY FreshKept DEF Frame, ShapeInv
<1>5. volume' <= events' + 1 /\ Fresh(worker'.volume, conf'.volume, volume', events')
  <2>0. volume \in Nat /\ events \in Nat /\ volume <= events + 1 /\ events' \in Nat /\ events <= events'
    BY Zenon DEF Frame, ShapeInv, ConfigInv
  <2>1. volume' <= events' + 1 /\ Fresh(0, conf.volume, volume, events)
    BY <2>0, FreshKept
  <2>2. Fresh(worker'.volume, conf.volume, volume, events)
    BY <2>1, Zenon DEF ConfigInv, Turns, Proceeds
  <2> QED
    BY <1>2, <2>1, <2>2, Zenon
<1>6. (obj'["config"] # None /\ cr' # None) => obj'["config"].content <= cr'.gen
  <2> SUFFICES ASSUME obj'["config"] # None, cr' # None PROVE obj'["config"].content <= cr'.gen
    OBVIOUS
  <2>1. cr # None /\ cr.gen <= cr'.gen /\ cr.gen \in Int /\ cr'.gen \in Int
    BY DEF Frame, Inv, Clusters
  <2>2. obj["config"].content <= cr.gen /\ obj["config"].content \in Int
    BY <2>1, Zenon DEF ConfigInv, ShapeInv, Holds, Stored
  <2> QED
    BY <2>1, <2>2, AtMost, Zenon
<1>7. worker'.pc \notin {"idle", "delete"} =>
          worker'.gen <= cr'.gen /\ (obj'["config"] # None => obj'["config"].content <= worker'.gen)
  <2> SUFFICES ASSUME worker'.pc \notin {"idle", "delete"}
               PROVE  worker'.gen <= cr'.gen /\ (obj'["config"] # None => obj'["config"].content <= worker'.gen)
    OBVIOUS
  <2>1. CASE Turns
    BY <2>1 DEF Turns
  <2>2. CASE worker.pc \notin {"idle", "delete"} /\ worker'.gen = worker.gen
    <3>1. cr' # None /\ cr # None /\ cr.gen <= cr'.gen /\ cr.gen \in Int /\ cr'.gen \in Int
      BY <2>2, Zenon DEF Frame, Inv, Clusters
    <3>2. worker.gen <= cr.gen /\ worker.gen \in Int
      BY <2>2, Zenon DEF ConfigInv, ShapeInv
    <3>3. worker.gen <= cr'.gen
      BY <3>1, <3>2, AtMost, Zenon
    <3> QED
      BY <2>2, <3>3, Zenon DEF ConfigInv
  <2> QED
    BY <2>1, <2>2, Zenon DEF Proceeds
<1>8. HasConfig /\ worker'.pc \in AfterConfig => obj'["config"] # None /\ obj'["config"].content = worker'.gen
  BY DEF ConfigInv, Turns, Claimless, Proceeds, InOrder
<1>9. HasConfig =>
          /\ obj'["boot"] # None => obj'["config"] # None
          /\ obj'["sts"] # None => Serves(obj'["sts"].content.template, obj'["config"], conf'.volume, volume', events')
          /\ \A i \in Ordinals : pods'[i] # None => RunsWell(pods'[i], obj'["config"], conf'.volume, volume', events')
  BY <1>3, <1>4, Zenon DEF ConfigInv, BootFrame, AfterConfig
<1> QED
  BY <1>1, <1>5, <1>6, <1>7, <1>8, <1>9, Zenon DEF ConfigInv

LEMMA CertFrame ==
    ASSUME IInv, Frame, BootFrame, obj'["transport"] = obj["transport"],
           obj'["admin"] = obj["admin"] \/ obj'["admin"].content.crt[Global] # None,
           obj["sts"] # None => obj'["sts"] # None,
           (conf.transport = "perNode" /\ obj'["sts"] # None) =>
               \/ obj'["sts"] = obj["sts"]
               \/ \A i \in Ordinals : i < obj'["sts"].content.replicas => Has(i),
           \A i \in Ordinals : pods'[i] # None => pods[i] # None \/ (Transport => Has(Subject(i))),
           \/ UNCHANGED worker
           \/ Turns
           \/ /\ Proceeds
              /\ worker.pc = "sts" => worker'.failed = TRUE \/ obj'["sts"] # None
              /\ worker.pc = "status" => worker.failed # TRUE
              /\ worker.pc = "transport" => conf.transport # "perNode"
    PROVE  CertInv'
<1> USE DEF IInv
<1>1. (Transport' <=> Transport) /\ conf' = conf /\ \A i : Subject(i)' = Subject(i)
  BY DEF Frame, Transport, Subject
<1>2. \A s : Has(s)' <=> Has(s)
  BY DEF Has
<1>3. /\ worker'.pc = "status" => worker'.failed = TRUE \/ obj'["sts"] # None
      /\ worker'.pc \in AfterStatus => obj'["sts"] # None
  BY Zenon DEF CertInv, Turns, Claimless, Proceeds, InOrder
<1>4. conf.transport = "perNode" /\ worker'.pc \in AfterTransport =>
                  /\ \A i \in Ordinals : i < worker'.replicas => Has(i)
                  /\ ~worker'.initialized => Has(BootstrapPod)
  BY Zenon DEF CertInv, Turns, Claimless, Proceeds, InOrder, Transport
<1>5. \A i \in Ordinals : pods'[i] # None /\ Transport => Has(Subject(i))
  BY DEF CertInv
<1>6. conf.transport = "perNode" =>
           /\ obj'["sts"] # None => \A i \in Ordinals : i < obj'["sts"].content.replicas => Has(i)
           /\ obj'["boot"] # None => Has(BootstrapPod)
  BY DEF CertInv, BootFrame, AfterTransport
<1>7. /\ (conf.transport = "global" /\ obj'["transport"] # None) => Has(Global)
      /\ obj'["admin"] # None => obj'["admin"].content.crt[Global] # None
  BY DEF CertInv
<1> QED
  BY <1>1, <1>2, <1>3, <1>4, <1>5, <1>6, <1>7, Zenon DEF CertInv

LEMMA TrustFrame ==
    ASSUME IInv, Frame, obj'["ca"] = obj["ca"],
           \A k \in {"transport", "http", "admin"} : obj'[k] = obj[k] \/ ("ca" \notin causes => HoldsCa(k)'),
           \A i \in Ordinals : pods'[i] # None => pods'[i] = pods[i] \/ ("ca" \notin causes => TrustsCa(pods'[i])),
           boot' # None => boot' = boot \/ ("ca" \notin causes => TrustsCa(boot')),
           \/ UNCHANGED worker
           \/ Turns
           \/ Proceeds /\ worker.pc \notin {"transportCa", "httpCa", "adminCa"}
           \/ CaKnown /\ worker'.ca = TheCa
    PROVE  TrustInv'
<1> USE DEF IInv
<1>1. (Transport' <=> Transport) /\ (Http' <=> Http)
  BY DEF Frame, Transport, Http
<1>2. (CaKnown' <=> CaKnown) /\ TheCa' = TheCa
  BY DEF Frame, CaKnown, TheCa
<1>3. NodeCa' = NodeCa
  BY <1>1, <1>2 DEF NodeCa
<1> SUFFICES ASSUME "ca" \notin causes' PROVE TrustInv'
  BY DEF TrustInv
<1>4. "ca" \notin causes
  BY DEF Frame
<1>5. HoldsCa("transport")' /\ HoldsCa("http")' /\ HoldsCa("admin")'
  BY <1>2, <1>4, Zenon DEF HoldsCa, TrustInv
<1>6. (worker'.pc = "transport" /\ Transport) \/ (worker'.pc = "http" /\ Http) \/ worker'.pc = "admin" =>
               CaKnown /\ worker'.ca = TheCa
  BY <1>4, Zenon DEF TrustInv, Turns, Claimless, Proceeds, InOrder
<1>7. (\A i \in Ordinals : pods'[i] # None => TrustsCa(pods'[i])) /\ (boot' # None => TrustsCa(boot'))
  BY <1>4 DEF TrustInv
<1>8. (\A i \in Ordinals : pods'[i] # None => TrustsCa(pods[i])') /\ (boot' # None => TrustsCa(boot)')
  BY <1>1, <1>2, <1>3, <1>7 DEF TrustsCa
<1> QED
  BY <1>1, <1>2, <1>5, <1>6, <1>8 DEF TrustInv

(* The objects that the invariant speaks of. *)
Tracked == {"ca", "transport", "http", "admin", "config", "sts"}

(* A step that leaves those objects alone and claims nothing new. *)
Quiet ==
    /\ Frame /\ volume' = volume /\ now' \in Int /\ lastCa' = lastCa
    /\ \A i \in Ordinals : pods'[i] \in {pods[i], None}
    /\ boot' \in {boot, None}
    /\ \A k \in Tracked : obj'[k] = obj[k]
    /\ obj'["boot"] # None => obj["boot"] # None
    /\ \/ UNCHANGED worker
       \/ Turns
       \/ /\ Proceeds /\ worker'.ca = worker.ca /\ worker'.volume = worker.volume
          /\ worker.pc \notin {"config", "sts", "status", "transportCa", "httpCa", "adminCa"}
          /\ worker.pc = "transport" => conf.transport # "perNode"

LEMMA WorkerNumbers ==
    ASSUME ShapeInv, Turns \/ (Proceeds /\ worker'.ca = worker.ca /\ worker'.volume = worker.volume)
    PROVE  worker'.gen \in Int /\ worker'.ca \in Int /\ worker'.volume \in Int /\ worker'.replicas \in Int
<1>1. CASE Turns
  BY <1>1, AtMost, Zenon DEF Turns, ShapeInv
<1>2. CASE Proceeds /\ worker'.ca = worker.ca /\ worker'.volume = worker.volume
  BY <1>2, Zenon DEF Proceeds, ShapeInv
<1> QED
  BY <1>1, <1>2, Zenon

LEMMA QuietKeepsAll == ASSUME IInv, Inv', Quiet PROVE IInv'
<1>1. ShapeInv'
  <2>1. worker'.gen \in Int /\ worker'.ca \in Int /\ worker'.volume \in Int /\ worker'.replicas \in Int
    <3>1. CASE UNCHANGED worker
      BY <3>1, Zenon DEF IInv, ShapeInv
    <3>2. CASE Turns \/ (Proceeds /\ worker'.ca = worker.ca /\ worker'.volume = worker.volume)
      BY <3>2, WorkerNumbers, Zenon DEF IInv
    <3> QED
      BY <3>1, <3>2, Zenon DEF Quiet
  <2>2. \A k \in Tracked : obj'[k] = obj[k]
    BY DEF Quiet
  <2>3. /\ now' \in Int /\ lastCa' \in Int /\ volume' \in Nat /\ events' \in Nat /\ DOMAIN pods' = Ordinals
        /\ \A i \in Ordinals : pods'[i] # None => DOMAIN pods'[i] = PodFields
    BY DEF Quiet, Frame, IInv, ShapeInv
  <2> QED
    BY <2>1, <2>2, <2>3 DEF IInv, ShapeInv, Holds, Tracked
<1>2. ConfigInv'
  BY ConfigFrame DEF Quiet, Tracked, BootFrame
<1>3. CertInv'
  BY CertFrame, Zenon DEF Quiet, Tracked, BootFrame
<1>4. TrustInv'
  BY TrustFrame DEF Quiet, Tracked
<1> QED
  BY <1>1, <1>2, <1>3, <1>4 DEF IInv

LEMMA WorkerGoes ==
    ASSUME Inv, IsStep(worker.pc), worker' \in {Go, GoFailed, Idle}
    PROVE  Turns \/ (Proceeds /\ worker'.ca = worker.ca /\ worker'.volume = worker.volume)
BY IdleTurns, GoProceeds, GoFailedProceeds, Zenon

LEMMA FrameOfWorker ==
    ASSUME IInv, UNCHANGED <<conf, cr, pods>>, causes \subseteq causes', events' \in {events, events + 1}
    PROVE  Frame
<1>1. events' \in Nat /\ events <= events'
  BY Counting, Zenon DEF IInv, ShapeInv
<1>2. cr # None => cr.gen \in Int
  BY Zenon DEF IInv, Inv, Clusters
<1> QED
  BY <1>1, <1>2, AtMost, Zenon DEF Frame, IInv, ShapeInv

LEMMA SetsOne ==
    ASSUME Inv, NEW k \in Kinds, NEW desired, NEW state, Sets(k, desired, state)
    PROVE  /\ \A j \in Kinds \ {k} : obj'[j] = obj[j]
           /\ obj'[k] = ReconcileResource(obj[k], desired, state)
BY DEF Sets, Inv

(* What a call may do. *)
LEMMA CallsOne ==
    ASSUME Inv, NEW k \in Kinds, NEW desired, NEW state, NEW then, NEW else, Calls(k, desired, state, then, else)
    PROVE  /\ \A j \in Kinds \ {k} : obj'[j] = obj[j]
           /\ obj'[k] = obj[k] \/ obj'[k] = ReconcileResource(obj[k], desired, state)
           /\ (worker' = then /\ obj'[k] = ReconcileResource(obj[k], desired, state)) \/ worker' = else
           /\ events' \in {events, events + 1}
BY SetsOne DEF Calls, Event

(* A call about an object that the invariant does not speak of. *)
LEMMA QuietCall ==
    ASSUME IInv, Inv', IsStep(worker.pc), UNCHANGED <<conf, cr, pods, boot, volume, now, lastCa>>, causes \subseteq causes',
           events' \in {events, events + 1},
           worker' \in {Go, GoFailed, Idle},
           worker.pc \notin {"config", "sts", "status", "transportCa", "httpCa", "adminCa"},
           worker.pc = "transport" => conf.transport # "perNode",
           \A k \in Tracked : obj'[k] = obj[k], obj'["boot"] # None => obj["boot"] # None
    PROVE  IInv'
<1>1. Frame
  BY FrameOfWorker
<1>2. Turns \/ (Proceeds /\ worker'.ca = worker.ca /\ worker'.volume = worker.volume)
  BY WorkerGoes DEF IInv
<1>3. now' \in Int
  BY DEF IInv, ShapeInv
<1> QED
  BY <1>1, <1>2, <1>3, QuietKeepsAll DEF Quiet

LEMMA TrackedKinds == Tracked \subseteq Kinds /\ {"boot", "pvc", "services", "dashCert", "dashConfig", "dashboards"} \subseteq Kinds \ Tracked
BY DEF Tracked, Kinds

LEMMA QuietServices == ASSUME IInv, Inv', Services PROVE IInv'
<1>1. worker.pc = "services" /\ UNCHANGED <<conf, cr, pods, boot, volume, now, lastCa, causes>>
  BY DEF Services, kube
<1>2. CASE Calls("services", NewServices, "Present", Go, GoFailed)
  <2>1. /\ \A k \in Kinds \ {"services"} : obj'[k] = obj[k]
        /\ worker' \in {Go, GoFailed, Idle} /\ events' \in {events, events + 1}
    BY <1>2, CallsOne, TrackedKinds DEF IInv
  <2> QED
    BY <1>1, <2>1, QuietCall, TheSteps, TrackedKinds
<1>3. CASE Event /\ worker' = Idle /\ UNCHANGED obj
  <2>1. events' \in {events, events + 1}
    BY <1>3 DEF Event
  <2> QED
    BY <1>1, <1>3, <2>1, QuietCall, TheSteps, TrackedKinds
<1> QED
  BY <1>2, <1>3 DEF Services

LEMMA QuietCluster == ASSUME IInv, Inv', BootstrapPVC \/ SnapshotRepositories \/ Dashboards PROVE IInv'
<1>1. CASE BootstrapPVC
  <2>1. worker.pc = "pvc" /\ UNCHANGED <<conf, cr, pods, boot, volume, now, lastCa, causes>>
    BY <1>1 DEF BootstrapPVC, kube
  <2>2. PICK state : Calls("pvc", TRUE, state, Go, GoFailed)
    BY <1>1, Zenon DEF BootstrapPVC
  <2>3. /\ \A k \in Kinds \ {"pvc"} : obj'[k] = obj[k]
        /\ worker' \in {Go, GoFailed, Idle} /\ events' \in {events, events + 1}
    BY <2>2, CallsOne, TrackedKinds, Zenon DEF IInv
  <2> QED
    BY <2>1, <2>3, QuietCall, TheSteps, TrackedKinds
<1>2. CASE SnapshotRepositories
  <2>1. worker.pc = "repos" /\ UNCHANGED <<conf, cr, obj, pods, boot, volume, now, lastCa, causes>> /\ worker' = Idle
    BY <1>2 DEF SnapshotRepositories, kube
  <2>2. events' \in {events, events + 1}
    BY <1>2 DEF SnapshotRepositories, Event
  <2> QED
    BY <2>1, <2>2, QuietCall, TheSteps
<1>3. CASE Dashboards
  <2>1. worker.pc = "dashboards" /\ UNCHANGED <<conf, cr, pods, boot, volume, now, lastCa, causes>>
    BY <1>3 DEF Dashboards, kube
  <2>2. /\ \A k \in Kinds \ {"dashboards"} : obj'[k] = obj[k]
        /\ worker' \in {Go, GoFailed, Idle} /\ events' \in {events, events + 1}
    <3> DEFINE then == IF worker.failed THEN Idle ELSE Go
    <3>1. Calls("dashboards", NewDashboardsDeployment, "Present", then, Idle) /\ then \in {Idle, Go}
      BY <1>3, Zenon DEF Dashboards
    <3> HIDE DEF then
    <3>2. "dashboards" \in Kinds
      BY DEF Kinds
    <3>3. /\ \A k \in Kinds \ {"dashboards"} : obj'[k] = obj[k]
          /\ worker' = then \/ worker' = Idle
          /\ events' \in {events, events + 1}
      BY <3>1, <3>2, CallsOne, Zenon DEF IInv
    <3> QED
      BY <3>1, <3>3, Zenon
  <2> QED
    BY <2>1, <2>2, QuietCall, TheSteps, TrackedKinds
<1> QED
  BY <1>1, <1>2, <1>3

LEMMA QuietDashboards == ASSUME IInv, Inv', DashboardsCertificate \/ DashboardsConfig PROVE IInv'
<1>1. CASE DashboardsCertificate
  <2> DEFINE cert == SecretData(CreateAndSignCertificate(worker.ca, now), worker.ca)
  <2>1. worker.pc = "dashCert" /\ UNCHANGED <<conf, cr, pods, boot, volume, now, lastCa, causes>>
    BY <1>1 DEF DashboardsCertificate, kube
  <2>2. /\ \A k \in Kinds \ {"dashCert"} : obj'[k] = obj[k]
        /\ worker' \in {Go, GoFailed, Idle} /\ events' \in {events, events + 1}
    <3>1. CASE Calls("dashCert", cert, "Present", Go, Idle)
      BY <3>1, CallsOne, TrackedKinds, Zenon DEF IInv
    <3>2. CASE worker' = Go /\ UNCHANGED <<obj, events>>
      BY <3>2
    <3>3. CASE Event /\ worker' = Go /\ Sets("dashCert", cert, "Present")
      BY <3>3, SetsOne, TrackedKinds, Zenon DEF IInv, Event
    <3> QED
      BY <1>1, <3>1, <3>2, <3>3 DEF DashboardsCertificate
  <2> QED
    BY <2>1, <2>2, QuietCall, TheSteps, TrackedKinds
<1>2. CASE DashboardsConfig
  <2>1. worker.pc = "dashConfig" /\ UNCHANGED <<conf, cr, pods, boot, volume, now, lastCa>>
    BY <1>2 DEF DashboardsConfig, kube
  <2>2. /\ worker' \in {Go, GoFailed, Idle} /\ events' \in {events, events + 1} /\ causes \subseteq causes'
    BY <1>2 DEF DashboardsConfig, Event
  <2>3. \A k \in Kinds \ {"dashConfig"} : obj'[k] = obj[k]
    BY <1>2, SetsOne, TrackedKinds DEF IInv, DashboardsConfig
  <2> QED
    BY <2>1, <2>2, <2>3, QuietCall, TheSteps, TrackedKinds
<1> QED
  BY <1>1, <1>2

LEMMA QuietRestart == ASSUME IInv, Inv', RestartStep PROVE IInv'
<1>1. worker.pc = "restart" /\ UNCHANGED <<conf, cr, obj, boot, volume, now, lastCa, causes>>
  BY DEF RestartStep
<1>2. worker' \in {Go, GoFailed, Idle} /\ events' \in {events, events + 1}
  BY DEF RestartStep, Event
<1>3. DOMAIN pods' = Ordinals /\ \A i \in Ordinals : pods'[i] \in {pods[i], None}
  <2>1. pods' = pods \/ \E i \in Ordinals : pods' = [pods EXCEPT ![i] = None]
    BY DEF RestartStep, Outdated
  <2> QED
    BY <2>1 DEF IInv, ShapeInv
<1>4. Turns \/ (Proceeds /\ worker'.ca = worker.ca /\ worker'.volume = worker.volume)
  BY <1>1, <1>2, WorkerGoes, TheSteps, SMTT(30) DEF IInv
<1>5. Frame /\ now' \in Int
  <2>1. events' \in Nat /\ events <= events'
    BY <1>2, Counting, Zenon DEF IInv, ShapeInv
  <2>2. cr # None => cr.gen \in Int
    BY Zenon DEF IInv, Inv, Clusters
  <2> QED
    BY <1>1, <1>3, <2>1, <2>2, AtMost, Zenon DEF Frame, IInv, ShapeInv
<1> QED
  BY <1>1, <1>3, <1>4, <1>5, QuietKeepsAll DEF Quiet

(* The step about the bootstrap pod that creates none. *)
LEMMA QuietBootstrap ==
    ASSUME IInv, Inv', (BootstrapPodStep /\ worker.initialized) \/ ReconcileBootstrapPod
    PROVE  IInv'
<1>1. CASE BootstrapPodStep /\ worker.initialized
  <2>1. worker.pc = "boot" /\ UNCHANGED <<conf, cr, pods, boot, volume, now, lastCa, causes>>
    BY <1>1 DEF BootstrapPodStep, kube
  <2>2. Calls("boot", NewBootstrapPod, "Absent", Go, GoFailed)
    BY <1>1 DEF BootstrapPodStep
  <2>3. /\ \A k \in Kinds \ {"boot"} : obj'[k] = obj[k]
        /\ obj'["boot"] = obj["boot"] \/ obj'["boot"] = ReconcileResource(obj["boot"], NewBootstrapPod, "Absent")
        /\ worker' \in {Go, GoFailed, Idle} /\ events' \in {events, events + 1}
    BY <2>2, CallsOne, TrackedKinds DEF IInv
  <2>4. obj'["boot"] # None => obj["boot"] # None
    BY <2>3 DEF ReconcileResource, Delete
  <2> QED
    BY <2>1, <2>3, <2>4, QuietCall, TheSteps, TrackedKinds
<1>2. CASE ReconcileBootstrapPod
  <2> DEFINE w == [worker EXCEPT !.recreate = TRUE]
  <2>1. worker.pc = "boot" /\ UNCHANGED <<conf, cr, pods, boot, volume, now, lastCa, causes>> /\ obj["boot"] # None
    BY <1>2 DEF ReconcileBootstrapPod, kube
  <2>2. \/ Calls("boot", NewBootstrapPod, "Absent", w, GoFailed)
        \/ worker' = Go /\ UNCHANGED <<obj, events>>
    BY <1>2 DEF ReconcileBootstrapPod
  <2>3. /\ \A k \in Kinds \ {"boot"} : obj'[k] = obj[k]
        /\ worker' \in {Go, GoFailed, w} /\ events' \in {events, events + 1}
    BY <2>2, CallsOne, TrackedKinds DEF IInv
  <2>4. CASE worker' \in {Go, GoFailed}
    BY <2>1, <2>3, <2>4, QuietCall, TheSteps, TrackedKinds
  <2>5. CASE worker' = w
    <3>1. /\ w.pc = worker.pc /\ w.gen = worker.gen /\ w.replicas = worker.replicas /\ w.initialized = worker.initialized
          /\ w.ca = worker.ca /\ w.volume = worker.volume
      BY DEF IInv, Inv, Fields
    <3>2. InOrder("boot", "boot")
      BY DEF InOrder, AfterTransport, AfterConfig, AfterStatus
    <3>3. Proceeds
      BY <2>1, <2>5, <3>1, <3>2 DEF Proceeds
    <3>4. Frame /\ now' \in Int
      BY <2>1, <2>3, FrameOfWorker DEF IInv, ShapeInv
    <3> QED
      BY <2>1, <2>3, <2>5, <3>1, <3>3, <3>4, QuietKeepsAll, TrackedKinds DEF Quiet
  <2> QED
    BY <2>3, <2>4, <2>5
<1> QED
  BY <1>1, <1>2

LEMMA QuietController ==
    ASSUME IInv, Inv', Fetch \/ DeleteExternalResources \/ FinishDeletion \/ Phase \/ UpdateInitialized \/ Crash
    PROVE  IInv'
<1>1. /\ UNCHANGED <<conf, obj, pods, boot, volume, now, lastCa, causes>>
      /\ events' \in {events, events + 1}
  BY DEF Fetch, DeleteExternalResources, FinishDeletion, Phase, UpdateInitialized, Crash, kube, Event
<1>2. /\ cr' # None => cr # None /\ cr'.gen = cr.gen /\ cr.gen \in Int /\ cr.replicas \in Int
      /\ (worker.pc # "idle" \/ Fetch) => cr # None /\ cr.gen \in Int /\ cr.replicas \in Int
  <2>1. cr # None => cr \in Clusters /\ cr.gen \in Int /\ cr.replicas \in Int
    BY DEF IInv, Inv, Clusters
  <2>2. \/ cr' = cr \/ cr' = None \/ cr' = [cr EXCEPT !.finalizer = TRUE] \/ cr' = [cr EXCEPT !.phase = "RUNNING"]
        \/ \E init : cr' = [cr EXCEPT !.initialized = init]
    BY DEF Fetch, DeleteExternalResources, FinishDeletion, Phase, UpdateInitialized, Crash
  <2>3. (worker.pc # "idle" \/ Fetch) => cr # None
    BY SMTT(30) DEF IInv, Inv, Fetch
  <2>4. cr' # None /\ cr' # cr => cr # None
    BY DEF Fetch, DeleteExternalResources, FinishDeletion, Phase, UpdateInitialized, Crash, IInv, Inv
  <2>5. cr' # None => cr'.gen = cr.gen
    BY <2>1, <2>2, <2>4 DEF Clusters
  <2> QED
    BY <2>1, <2>3, <2>4, <2>5
<1>3. Frame /\ now' \in Int
  <2>1. events' \in Nat /\ events <= events'
    BY <1>1, Counting, Zenon DEF IInv, ShapeInv
  <2> QED
    BY <1>1, <1>2, <2>1, AtMost, Zenon DEF Frame, IInv, ShapeInv
<1>4. CASE worker' = Idle
  BY <1>1, <1>3, <1>4, IdleTurns, QuietKeepsAll, Zenon DEF Quiet
<1>5. obj["config"] # None /\ cr # None => obj["config"].content <= cr.gen
  BY Zenon DEF IInv, ConfigInv
<1>6. Claimless("phase") /\ Claimless("delete") /\ Claimless("initialized")
  BY DEF Claimless, AfterTransport, AfterConfig, AfterStatus
<1>7. CASE Fetch
  <2>1. CASE UNCHANGED worker
    BY <1>1, <1>3, <2>1, QuietKeepsAll DEF Quiet
  <2>2. CASE /\ cr' = [cr EXCEPT !.finalizer = TRUE]
             /\ worker' = [Idle EXCEPT !.pc = "phase", !.gen = cr.gen, !.replicas = cr.replicas, !.initialized = cr.initialized]
    <3>1. worker'.pc = "phase" /\ worker'.gen = cr.gen /\ worker'.replicas = cr.replicas /\ worker'.ca = 0 /\ worker'.volume = 0
      BY <2>2 DEF Idle
    <3>2. cr'.gen = cr.gen
      BY <1>7, <2>2 DEF Fetch, IInv, Inv, Clusters
    <3>3. Turns
      BY <1>2, <1>5, <1>6, <1>7, <3>1, <3>2, AtMost, Zenon DEF Turns
    <3> QED
      BY <1>1, <1>3, <3>3, QuietKeepsAll DEF Quiet
  <2> QED
    BY <1>7, <2>1, <2>2 DEF Fetch
<1>8. CASE DeleteExternalResources
  <2>1. worker'.pc = "delete" /\ worker'.gen = 1 /\ worker'.replicas = 0 /\ worker'.ca = 0 /\ worker'.volume = 0
    BY <1>8 DEF DeleteExternalResources, Idle
  <2>2. Turns
    BY <1>6, <2>1 DEF Turns
  <2> QED
    BY <1>1, <1>3, <2>2, QuietKeepsAll DEF Quiet
<1>9. CASE Phase /\ worker' = [worker EXCEPT !.pc = "initialized"] /\ UNCHANGED cr
  <2>1. /\ worker'.pc = "initialized" /\ worker'.gen = worker.gen /\ worker'.replicas = worker.replicas
        /\ worker'.ca = worker.ca /\ worker'.volume = worker.volume
    BY <1>9 DEF IInv, Inv, Fields
  <2>2. worker.gen <= cr.gen /\ (obj["config"] # None => obj["config"].content <= worker.gen)
    BY <1>9 DEF Phase, IInv, ConfigInv
  <2>3. Turns
    BY <1>6, <1>9, <2>1, <2>2 DEF Turns, IInv, ShapeInv
  <2> QED
    BY <1>1, <1>3, <2>3, QuietKeepsAll DEF Quiet
<1>10. CASE UpdateInitialized /\ worker' # Idle
  <2>1. worker.pc = "initialized" /\ cr # None
    BY <1>10 DEF UpdateInitialized, IInv, Inv
  <2>2. \A t : InOrder("initialized", t) => Claimless(t)
    BY DEF InOrder, Claimless, AfterTransport, AfterConfig, AfterStatus
  <2>3. CASE worker' = Go /\ UNCHANGED cr
    <3>1. Proceeds /\ worker'.ca = worker.ca /\ worker'.volume = worker.volume
      BY <1>10, <2>1, <2>3, GoProceeds, TheSteps DEF IInv
    <3> QED
      BY <1>1, <1>3, <2>1, <3>1, QuietKeepsAll DEF Quiet
  <2>4. CASE \E init : /\ worker' = Goto("initialized", [worker EXCEPT !.gen = cr.gen, !.replicas = cr.replicas, !.initialized = init])
                       /\ cr' = [cr EXCEPT !.initialized = init]
    <3>1. PICK init : /\ worker' = Goto("initialized", [worker EXCEPT !.gen = cr.gen, !.replicas = cr.replicas, !.initialized = init])
                      /\ cr' = [cr EXCEPT !.initialized = init]
      BY <2>4, Zenon
    <3> DEFINE w == [worker EXCEPT !.gen = cr.gen, !.replicas = cr.replicas, !.initialized = init]
    <3>2. DOMAIN w = Fields /\ w.gen = cr.gen /\ w.replicas = cr.replicas /\ w.ca = worker.ca /\ w.volume = worker.volume
      BY DEF IInv, Inv, Fields
    <3>3. worker' = Goto("initialized", w)
      BY <3>1
    <3> HIDE DEF w
    <3>4. PICK t : worker' = [w EXCEPT !.pc = t] /\ InOrder("initialized", t)
      BY <1>10, <3>2, <3>3, GotoInOrder, TheSteps DEF IsStep
    <3>5. worker'.pc = t /\ worker'.gen = cr.gen /\ worker'.replicas = cr.replicas /\ worker'.ca = worker.ca /\ worker'.volume = worker.volume
      BY <3>2, <3>4 DEF Fields
    <3>6. cr'.gen = cr.gen
      BY <2>1, <3>1 DEF IInv, Inv, Clusters
    <3>7. Turns
      BY <1>2, <1>5, <2>1, <2>2, <3>4, <3>5, <3>6 DEF Turns, IInv, ShapeInv
    <3> QED
      BY <1>1, <1>3, <3>7, QuietKeepsAll DEF Quiet
  <2> QED
    BY <1>10, <2>3, <2>4, Zenon DEF UpdateInitialized
<1> QED
  BY <1>4, <1>7, <1>8, <1>9, <1>10 DEF FinishDeletion, Phase, Crash

LEMMA QuietEnvironment ==
    ASSUME IInv, Inv',
           \/ Edit \/ DeleteResource \/ Tick \/ StopBootstrap \/ DropVolume \/ RollOutDashboards
           \/ \E i \in Ordinals : StopPod(i)
    PROVE  IInv'
<1>1. /\ UNCHANGED <<conf, worker, volume, lastCa, causes>>
      /\ events' \in {events, events + 1} /\ now' \in Int /\ boot' \in {boot, None}
  <2>1. now \in Int
    BY DEF IInv, ShapeInv
  <2>2. CASE Edit \/ DeleteResource
    BY <2>1, <2>2, Zenon DEF Edit, DeleteResource, Event, kube
  <2>3. CASE Tick
    BY <2>1, <2>3 DEF Tick, kube
  <2>4. CASE StopBootstrap \/ DropVolume \/ RollOutDashboards \/ \E i \in Ordinals : StopPod(i)
    BY <2>1, <2>4, Zenon DEF StopBootstrap, DropVolume, RollOutDashboards, StopPod, Others
  <2> QED
    BY <2>2, <2>3, <2>4
<1>2. DOMAIN pods' = Ordinals /\ \A i \in Ordinals : pods'[i] \in {pods[i], None}
  <2>1. pods' = pods \/ \E i \in Ordinals : pods' = [pods EXCEPT ![i] = None]
    BY Zenon DEF Edit, DeleteResource, Tick, StopBootstrap, DropVolume, RollOutDashboards, StopPod, kube
  <2> QED
    BY <2>1 DEF IInv, ShapeInv
<1>3. (\A k \in Tracked : obj'[k] = obj[k]) /\ (obj'["boot"] # None => obj["boot"] # None)
  <2>1. \/ obj' = obj \/ (obj["boot"] # None /\ obj' = [obj EXCEPT !["boot"] = None]) \/ obj' = [obj EXCEPT !["pvc"] = None]
    BY Zenon DEF Edit, DeleteResource, Tick, StopBootstrap, DropVolume, RollOutDashboards, StopPod, Others, kube
  <2> QED
    BY <2>1, Zenon DEF IInv, Inv, Tracked, Kinds
<1>4. cr' # None => cr # None /\ cr.gen <= cr'.gen /\ cr'.gen \in Int
  <2>1. cr # None => cr \in Clusters /\ cr.gen \in Int
    BY DEF IInv, Inv, Clusters
  <2>2. CASE Edit
    <3>1. PICK n : cr' = [cr EXCEPT !.gen = cr.gen + 1, !.replicas = n]
      BY <2>2, Zenon DEF Edit
    <3>2. cr # None /\ cr'.gen = cr.gen + 1
      BY <2>1, <2>2, <3>1, Zenon DEF Edit, Clusters
    <3> QED
      BY <2>1, <3>2
  <2>3. CASE DeleteResource
    <3>1. cr # None /\ (cr' = None \/ cr' = [cr EXCEPT !.deleting = TRUE])
      BY <2>3 DEF DeleteResource
    <3>2. cr' # None => cr'.gen = cr.gen
      BY <2>1, <3>1 DEF Clusters
    <3> QED
      BY <2>1, <3>1, <3>2
  <2>4. CASE cr' = cr
    BY <2>1, <2>4
  <2> QED
    BY <2>2, <2>3, <2>4, Zenon DEF Tick, StopBootstrap, DropVolume, RollOutDashboards, StopPod, Others
<1>5. events' \in Nat /\ events <= events'
  BY <1>1 DEF IInv, ShapeInv
<1> QED
  BY <1>1, <1>2, <1>3, <1>4, <1>5, QuietKeepsAll DEF Quiet, Frame

----------------------------------------------------------------------------
(* What the secrets hold after a step of tls.go. *)

LEMMA NewCertificate ==
    ASSUME NEW ca \in Int, NEW day \in Int
    PROVE  /\ CreateAndSignCertificate(ca, day) \in Certs /\ CreateAndSignCertificate(ca, day) # None
           /\ CreateAndSignCertificate(ca, day).by = ca
<1>1. CreateAndSignCertificate(ca, day) \in Certs
  BY CertificatesAssumption DEF CreateAndSignCertificate, Certs
<1> QED
  BY <1>1, CertificatesAssumption DEF CreateAndSignCertificate

LEMMA NewSecret ==
    ASSUME NEW ca \in Int, NEW cert \in Certs
    PROVE  /\ SecretData(cert, ca) \in Secrets /\ SecretData(cert, ca).ca = ca
           /\ SecretData(cert, ca).crt[Global] = cert
           /\ \A s \in Subjects \ {Global} : SecretData(cert, ca).crt[s] = None
<1> DEFINE crt == [NoCerts EXCEPT ![Global] = cert]
<1>1. Global \in Subjects
  BY DEF Subjects
<1>2. crt \in [Subjects -> Certs \cup {None}] /\ crt[Global] = cert /\ \A s \in Subjects \ {Global} : crt[s] = None
  BY <1>1 DEF NoCerts
<1>3. SecretData(cert, ca) = [ca |-> ca, crt |-> crt]
  BY DEF SecretData
<1> HIDE DEF crt
<1> QED
  BY <1>2, <1>3 DEF Secrets

(* A certificate is kept, or a new one is signed by the present CA. *)
LEMMA NeededCertificate ==
    ASSUME NEW ca \in Int, NEW day \in Int, NEW cert \in Certs \cup {None}
    PROVE  LET new == GenerateNewCertIfNeeded(ca, cert, day)
           IN  new \in Certs /\ new # None /\ (new.by = ca \/ new = cert)
BY NewCertificate, CertificatesAssumption DEF GenerateNewCertIfNeeded

(* A secret is left as it is, or has the present CA and certificates that it
   signed or that were there. *)
Signed(new, data, ca) ==
    \/ data # None /\ new = data
    \/ /\ new.ca = ca
       /\ \A s \in Subjects : new.crt[s] # None => new.crt[s].by = ca \/ (data # None /\ new.crt[s] = data.crt[s])

LEMMA NewSignedSecret ==
    ASSUME NEW data, NEW ca \in Int, NEW cert \in Certs, cert.by = ca
    PROVE  LET new == SecretData(cert, ca) IN new \in Secrets /\ new.crt[Global] # None /\ Signed(new, data, ca)
<1> DEFINE new == SecretData(cert, ca)
<1>1. /\ new \in Secrets /\ new.ca = ca /\ new.crt[Global] = cert
      /\ \A s \in Subjects \ {Global} : new.crt[s] = None
  BY NewSecret, Zenon
<1> HIDE DEF new
<1>2. cert # None
  BY CertificatesAssumption
<1>3. \A s \in Subjects : new.crt[s] # None => new.crt[s].by = ca
  BY <1>1
<1> QED
  BY <1>1, <1>2, <1>3, Zenon DEF Signed, new

LEMMA GlobalSecret ==
    ASSUME NEW data, data = None \/ data \in Secrets, NEW ca \in Int, NEW day \in Int
    PROVE  LET new == GenerateGlobal(data, ca, day)
           IN  new \in Secrets /\ new.crt[Global] # None /\ Signed(new, data, ca)
<1> DEFINE old == IF data = None THEN None ELSE data.crt[Global]
           cert == GenerateNewCertIfNeeded(ca, old, day)
<1>1. GenerateGlobal(data, ca, day) = IF cert = old THEN data ELSE SecretData(cert, ca)
  BY Zenon DEF GenerateGlobal
<1>2. old \in Certs \cup {None}
  BY DEF Secrets, Subjects
<1> HIDE DEF cert
<1>3. cert \in Certs /\ cert # None /\ (cert.by = ca \/ cert = old)
  BY <1>2, NeededCertificate DEF cert
<1>4. CASE cert = old
  BY <1>1, <1>3, <1>4 DEF Signed
<1>5. CASE cert # old
  <2>1. GenerateGlobal(data, ca, day) = SecretData(cert, ca) /\ cert.by = ca
    BY <1>1, <1>3, <1>5, Zenon
  <2> QED
    BY <1>3, <2>1, NewSignedSecret, Zenon
<1> QED
  BY <1>4, <1>5

LEMMA PerNodeSecret ==
    ASSUME NEW data, data = None \/ data \in Secrets, NEW ca \in Int, NEW replicas \in Int, NEW initialized, NEW day \in Int
    PROVE  LET new == GeneratePerNode(data, ca, replicas, initialized, day)
           IN  /\ new \in Secrets /\ Signed(new, data, ca)
               /\ \A i \in Ordinals : i < replicas => new.crt[i] # None
               /\ ~initialized => new.crt[BootstrapPod] # None
               /\ \A s \in Subjects : (data # None /\ data.crt[s] # None) => new.crt[s] # None
<1> DEFINE old == IF data = None THEN NoCerts ELSE data.crt
           cert(s) == CASE s = BootstrapPod -> GenerateBootstrapCertIfNeeded(ca, old[s], initialized, day)
                        [] s \in {i \in Ordinals : i < replicas} -> GenerateNewCertIfNeeded(ca, old[s], day)
                        [] OTHER -> old[s]
           new == GeneratePerNode(data, ca, replicas, initialized, day)
<1>1. new = [ca |-> ca, crt |-> [s \in Subjects |-> cert(s)]]
  BY Zenon DEF GeneratePerNode
<1>2. \A s \in Subjects : old[s] \in Certs \cup {None} /\ (data = None => old[s] = None) /\ (data # None => old[s] = data.crt[s])
  BY DEF NoCerts, Secrets
<1> HIDE DEF old
<1>3. BootstrapPod \in Subjects /\ BootstrapPod \notin Ordinals /\ Ordinals \subseteq Subjects
  BY CertificatesAssumption DEF Subjects, BootstrapPod
<1>4. \A s \in Subjects : /\ cert(s) \in Certs \cup {None}
                          /\ old[s] # None => cert(s) # None
                          /\ cert(s) # None => cert(s).by = ca \/ cert(s) = old[s]
  <2> SUFFICES ASSUME NEW s \in Subjects
               PROVE  /\ cert(s) \in Certs \cup {None}
                      /\ old[s] # None => cert(s) # None
                      /\ cert(s) # None => cert(s).by = ca \/ cert(s) = old[s]
    BY Zenon
  <2>1. CASE s = BootstrapPod
    <3>1. cert(BootstrapPod) = GenerateBootstrapCertIfNeeded(ca, old[BootstrapPod], initialized, day)
      BY <1>3
    <3>2. cert(s) = old[s] \/ (old[s] = None /\ cert(s) = CreateAndSignCertificate(ca, day))
      BY <2>1, <3>1 DEF GenerateBootstrapCertIfNeeded
    <3> HIDE DEF cert
    <3> QED
      BY <1>2, <3>2, NewCertificate
  <2>2. CASE s # BootstrapPod /\ s \in {i \in Ordinals : i < replicas}
    BY <1>2, <2>2, NeededCertificate
  <2>3. CASE s # BootstrapPod /\ s \notin {i \in Ordinals : i < replicas}
    BY <1>2, <2>3
  <2> QED
    BY <2>1, <2>2, <2>3
<1>5. \A i \in Ordinals : i < replicas => cert(i) # None
  BY <1>2, <1>3, NeededCertificate
<1>6. ~initialized => cert(BootstrapPod) # None
  BY <1>2, <1>3, NewCertificate DEF GenerateBootstrapCertIfNeeded
<1> HIDE DEF cert
<1>7. new.ca = ca /\ new.crt = [s \in Subjects |-> cert(s)]
  BY <1>1
<1>8. new.crt \in [Subjects -> Certs \cup {None}] /\ \A s \in Subjects : new.crt[s] = cert(s)
  BY <1>4, <1>7
<1>9. new \in Secrets
  BY <1>1, <1>8, <1>7 DEF Secrets
<1>10. (\A s \in Subjects : (data # None /\ data.crt[s] # None) => new.crt[s] # None) /\ Signed(new, data, ca)
  <2>1. \A s \in Subjects : (data # None /\ data.crt[s] # None) => new.crt[s] # None
    BY <1>2, <1>4, <1>8, Zenon
  <2>2. \A s \in Subjects : new.crt[s] # None => new.crt[s].by = ca \/ (data # None /\ new.crt[s] = data.crt[s])
    BY <1>2, <1>4, <1>8, Zenon
  <2> QED
    BY <1>7, <2>1, <2>2, Zenon DEF Signed
<1> HIDE DEF new
<1> QED
  BY <1>3, <1>5, <1>6, <1>8, <1>9, <1>10, Zenon DEF new

LEMMA AdminSecret ==
    ASSUME NEW data, data = None \/ (data \in Secrets /\ data.crt[Global] # None), NEW ca \in Int, NEW day \in Int
    PROVE  LET new == CreateAdminSecret(data, ca, day)
           IN  new \in Secrets /\ new.crt[Global] # None /\ Signed(new, data, ca)
<1> DEFINE cert == CreateAndSignCertificate(ca, day)
<1>1. cert \in Certs /\ cert # None /\ cert.by = ca
  BY NewCertificate, Zenon
<1>2. data = None => ShouldCreateAdminCert(data, ca, day)
  BY Zenon DEF ShouldCreateAdminCert
<1>3. CreateAdminSecret(data, ca, day) = IF ShouldCreateAdminCert(data, ca, day) THEN SecretData(cert, ca) ELSE data
  BY Zenon DEF CreateAdminSecret
<1> HIDE DEF cert
<1>4. CASE ShouldCreateAdminCert(data, ca, day)
  BY <1>1, <1>3, <1>4, NewSignedSecret, Zenon
<1>5. CASE ~ShouldCreateAdminCert(data, ca, day)
  BY <1>2, <1>3, <1>5, Zenon DEF Signed
<1> QED
  BY <1>4, <1>5
==============================================================================
