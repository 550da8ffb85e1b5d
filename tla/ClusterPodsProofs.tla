-------------------------- MODULE ClusterPodsProofs --------------------------
(***************************************************************************)
(* The pods of a cluster trust each other, find the certificates that they *)
(* mount, and run the configuration of their template or a later one, for  *)
(* any number of nodes, setups and bounds.                                 *)
(*                                                                         *)
(* Each is about an object that one step of a pass stores and a pod reads  *)
(* much later, perhaps after other passes.  IInv ties what a pass carries  *)
(* from step to step to what is stored: after the step of the certificates *)
(* or of the configuration, what it stored is there and is as new as the   *)
(* generation of the pass (ConfigInv, CertInv), and as long as nobody      *)
(* deletes the CA all certificates are by the one that is stored           *)
(* (TrustInv).  GotoInOrder, the lemma about the order of the steps, is    *)
(* what makes this hold: no pass comes to a step without those before it   *)
(* that the setup takes.                                                   *)
(***************************************************************************)
EXTENDS ClusterPassProofs

----------------------------------------------------------------------------
(* The steps that write what the invariant speaks of. *)

LEMMA PresentHolds ==
    ASSUME NEW k, NEW C \in SUBSET (Int \cup Secrets \cup StatefulSets), Holds(k, C), NEW d \in C
    PROVE  LET o == ReconcileResource(obj[k], d, "Present")
           IN  Stored(o, C) /\ o.content = d /\ o # None
<1> DEFINE new == [content |-> d, deleting |-> FALSE]
<1>1. ReconcileResource(obj[k], d, "Present") = new
  <2>1. CASE obj[k] = None
    BY <2>1 DEF ReconcileResource, CreateIfNotExist, Object
  <2>2. CASE obj[k] # None
    <3>1. DOMAIN obj[k] = {"content", "deleting"} /\ obj[k].deleting = FALSE
      BY <2>2 DEF Holds, Stored
    <3>2. [obj[k] EXCEPT !.content = d] = [content |-> d, deleting |-> obj[k].deleting]
      BY <3>1
    <3>3. ReconcileResource(obj[k], d, "Present") = IF obj[k].deleting THEN obj[k] ELSE [obj[k] EXCEPT !.content = d]
      BY <2>2 DEF ReconcileResource, Update
    <3> QED
      BY <3>1, <3>2, <3>3, Zenon
  <2> QED
    BY <2>1, <2>2
<1>2. DOMAIN new = {"content", "deleting"} /\ new.content = d /\ new.deleting = FALSE
  OBVIOUS
<1>3. new \in Objects
  <2>1. d \in Int \cup Secrets \cup StatefulSets /\ FALSE \in BOOLEAN
    OBVIOUS
  <2> QED
    BY <2>1, Zenon DEF Objects
<1>4. new # None
  BY <1>3, ClusterPassAssumption, Zenon
<1> HIDE DEF new
<1> QED
  BY <1>1, <1>2, <1>4, Zenon DEF Stored

(* A CA where there was none: nothing that was signed by another one is left. *)
LEMMA FirstCa ==
    ASSUME IInv, Frame, ~conf.caGiven, obj["ca"] = None, UNCHANGED <<pods, boot>>,
           obj'["transport"] = obj["transport"], obj'["http"] = obj["http"], obj'["admin"] = obj["admin"],
           worker' = Idle \/ (obj'["ca"] # None /\ worker'.ca = obj'["ca"].content)
    PROVE  TrustInv'
<1> SUFFICES ASSUME "ca" \notin causes' PROVE TrustInv'
  BY DEF TrustInv
<1>1. "ca" \notin causes /\ ~CaKnown /\ conf' = conf
  BY SMTT(30) DEF Frame, CaKnown
<1>2. /\ obj["transport"] = None /\ obj["http"] = None /\ obj["admin"] = None
      /\ Transport => (\A i \in Ordinals : pods[i] = None) /\ boot = None
  BY <1>1 DEF IInv, TrustInv, HoldsCa, TrustsCa
<1>3. ~Transport => (\A i \in Ordinals : pods[i] # None => TrustsCa(pods[i])) /\ (boot # None => TrustsCa(boot))
  BY <1>1, Zenon DEF IInv, TrustInv
<1>4. HoldsCa("transport")' /\ HoldsCa("http")' /\ HoldsCa("admin")'
  BY <1>2 DEF HoldsCa
<1>5. (Transport' <=> Transport) /\ (~Transport => NodeCa' = NodeCa)
  BY <1>1 DEF Transport, NodeCa
<1>6. \A i \in Ordinals : pods'[i] # None => TrustsCa(pods[i])'
  BY <1>2, <1>3, <1>5 DEF TrustsCa
<1>7. boot' # None => TrustsCa(boot)'
  BY <1>2, <1>3, <1>5 DEF TrustsCa
<1>8. worker'.pc \in {"transport", "http", "admin"} => CaKnown' /\ worker'.ca = TheCa'
  BY <1>1, IdleFacts DEF CaKnown, TheCa
<1> QED
  BY <1>4, <1>6, <1>7, <1>8 DEF TrustInv

LEMMA CaStepKeeps ==
    ASSUME IInv, Inv', ReadCa \/ GenerateCa \/ GenerateCaFails
    PROVE  IInv'
<1>1. /\ worker.pc \in CaSteps /\ IsStep(worker.pc)
      /\ UNCHANGED <<conf, cr, pods, boot, volume, now>>
  BY TheSteps DEF ReadCa, GenerateCa, GenerateCaFails, CaSteps, kube
<1>2. /\ \A k \in Kinds \ {"ca"} : obj'[k] = obj[k]
      /\ causes \subseteq causes' /\ events' \in {events, events + 1}
  BY SetsOne, TrackedKinds DEF ReadCa, GenerateCa, GenerateCaFails, Event, IInv, Tracked
<1>3. Frame
  BY <1>1, <1>2, FrameOfWorker
<1>4. /\ obj["ca"] # None => Stored(obj["ca"], Int) /\ obj["ca"].content \in Int
      /\ lastCa \in Int /\ ProvidedCa \in Int
  <2>1. Holds("ca", Int) /\ lastCa \in Int
    BY SMTT(30) DEF IInv, ShapeInv
  <2> QED
    BY <2>1 DEF Holds, Stored, ProvidedCa
<1>5. GenerateCa \/ obj' # obj => /\ lastCa' \in Int /\ Sets("ca", lastCa', "Present")
                                  /\ GenerateCa => worker' = With(lastCa')
                                  /\ ~GenerateCa => worker' = Idle
  BY <1>4, SMTT(30) DEF ReadCa, GenerateCa, GenerateCaFails, NewCa
<1>6. Sets("ca", lastCa', "Present") /\ lastCa' \in Int =>
          /\ Stored(obj'["ca"], Int) /\ obj'["ca"].content = lastCa' /\ obj'["ca"] # None
  <2> SUFFICES ASSUME Sets("ca", lastCa', "Present"), lastCa' \in Int
               PROVE  /\ Stored(obj'["ca"], Int) /\ obj'["ca"].content = lastCa'
                      /\ obj'["ca"] # None
    OBVIOUS
  <2>1. obj'["ca"] = ReconcileResource(obj["ca"], lastCa', "Present")
    BY SetsOne DEF IInv, Kinds
  <2>2. Holds("ca", Int) /\ Int \in SUBSET (Int \cup Secrets \cup StatefulSets)
    BY DEF IInv, ShapeInv
  <2> QED
    BY <2>1, <2>2, PresentHolds, SMTT(30)
<1>7. worker' = Idle \/ \E ca \in Int : worker' = With(ca)
  BY <1>4, <1>5, Zenon DEF ReadCa, GenerateCaFails
<1>8. Turns \/ (Proceeds /\ worker'.ca \in Int /\ worker'.volume = worker.volume)
  BY <1>1, <1>7, IdleTurns, WithProceeds DEF IInv
<1>9. ShapeInv'
  <2>1. Holds("ca", Int)'
    BY <1>4, <1>5, <1>6, SMTT(30) DEF Holds
  <2>2. lastCa' \in Int
    BY <1>4, SMTT(30) DEF ReadCa, GenerateCa, GenerateCaFails, NewCa
  <2>3. worker'.gen \in Int /\ worker'.ca \in Int /\ worker'.volume \in Int /\ worker'.replicas \in Int
    BY <1>8 DEF Turns, Proceeds, IInv, ShapeInv
  <2> QED
    BY <1>1, <1>2, <1>3, <2>1, <2>2, <2>3, TrackedKinds, Zenon DEF IInv, ShapeInv, Holds, Frame, Tracked
<1>10. ConfigInv' /\ CertInv'
  <2>1. obj'["boot"] = obj["boot"] /\ obj'["sts"] = obj["sts"] /\ obj'["config"] = obj["config"] /\ obj'["admin"] = obj["admin"]
        /\ obj'["transport"] = obj["transport"]
    BY <1>2, TrackedKinds DEF Tracked
  <2>2. worker.pc \notin {"config", "sts", "status", "transport"}
    BY <1>1 DEF CaSteps
  <2> QED
    BY <1>1, <1>3, <1>8, <2>1, <2>2, ConfigFrame, CertFrame, Zenon DEF BootFrame
<1>11. TrustInv'
  <2>1. obj'["transport"] = obj["transport"] /\ obj'["http"] = obj["http"] /\ obj'["admin"] = obj["admin"]
    BY <1>2, TrackedKinds DEF Tracked
  <2>2. CASE ReadCa
    <3>1. obj' = obj
      BY <2>2 DEF ReadCa
    <3>2. worker' = Idle \/ (CaKnown /\ worker' = With(TheCa))
      BY <2>2 DEF ReadCa, CaKnown, TheCa
    <3>3. Turns \/ (CaKnown /\ worker'.ca = TheCa)
      BY <1>1, <3>2, IdleTurns, WithProceeds, SMTT(30) DEF IInv
    <3> QED
      BY <1>1, <1>3, <3>1, <3>3, TrustFrame
  <2>3. CASE GenerateCa /\ obj["ca"] # None
    BY <2>3 DEF GenerateCa, TrustInv
  <2>4. CASE GenerateCa /\ obj["ca"] = None
    <3>1. worker' = Idle \/ (obj'["ca"] # None /\ worker'.ca = obj'["ca"].content)
      BY <1>1, <1>5, <1>6, <2>4, WithProceeds DEF IInv
    <3>2. ~conf.caGiven
      BY <2>4 DEF GenerateCa
    <3> QED
      BY <1>1, <1>3, <2>1, <2>4, <3>1, <3>2, FirstCa
  <2>5. CASE GenerateCaFails
    <3>1. worker' = Idle /\ ~conf.caGiven /\ obj["ca"] = None
      BY <2>5 DEF GenerateCaFails
    <3> QED
      BY <1>1, <1>3, <2>1, <3>1, FirstCa
  <2> QED
    BY <2>2, <2>3, <2>4, <2>5
<1> QED
  BY <1>9, <1>10, <1>11 DEF IInv

(* A secret that is written with the CA of the pass, and keeps what it had of it. *)
LEMMA SignedByTheCa ==
    ASSUME IInv, conf' = conf, obj'["ca"] = obj["ca"], NEW k \in {"transport", "http", "admin"},
           "ca" \notin causes, CaKnown, worker.ca = TheCa, Stored(obj'[k], Secrets),
           Signed(obj'[k].content, Data(k), worker.ca)
    PROVE  HoldsCa(k)'
<1>1. CaKnown' /\ TheCa' = TheCa
  BY DEF CaKnown, TheCa
<1>2. HoldsCa(k)
  BY DEF IInv, TrustInv
<1>3. (obj[k] # None => Data(k) = obj[k].content) /\ (Data(k) # None => obj[k] # None)
  BY Zenon DEF Data
<1> QED
  BY <1>1, <1>2, <1>3, Zenon DEF HoldsCa, Signed

LEMMA SecretFacts ==
    ASSUME IInv, NEW k \in {"transport", "http", "admin"}
    PROVE  /\ Holds(k, Secrets) /\ k \in Kinds /\ k # "ca"
           /\ Data(k) = None \/ Data(k) \in Secrets
           /\ obj[k] # None => Data(k) = obj[k].content /\ Data(k) # None
           /\ obj[k] = None => Data(k) = None
           /\ worker.ca \in Int /\ now \in Int /\ worker.replicas \in Int
<1>1. Holds(k, Secrets) /\ k \in Kinds /\ k # "ca"
  BY DEF IInv, ShapeInv, Kinds
<1> QED
  BY <1>1, CertificatesAssumption, Zenon DEF Holds, Stored, Data, IInv, ShapeInv

(* One write of a secret: its shape, and what the other groups keep. *)
LEMMA SecretStep ==
    ASSUME IInv, Inv', NEW k \in {"transport", "http", "admin"}, worker.pc = k,
           UNCHANGED <<conf, cr, pods, boot, volume, now, lastCa, causes>>,
           NEW new \in Secrets, Calls(k, new, "Present", Go, Idle)
    PROVE  /\ ShapeInv' /\ ConfigInv' /\ Frame /\ BootFrame
           /\ \A j \in Kinds \ {k} : obj'[j] = obj[j]
           /\ obj'[k] = obj[k] \/ (Stored(obj'[k], Secrets) /\ obj'[k].content = new /\ obj'[k] # None)
           /\ \/ Turns
              \/ Proceeds /\ Stored(obj'[k], Secrets) /\ obj'[k].content = new /\ obj'[k] # None
<1>1. Holds(k, Secrets) /\ k \in Kinds /\ k # "ca" /\ Secrets \in SUBSET (Int \cup Secrets \cup StatefulSets)
  BY SecretFacts, Zenon
<1>2. /\ \A j \in Kinds \ {k} : obj'[j] = obj[j]
      /\ obj'[k] = obj[k] \/ obj'[k] = ReconcileResource(obj[k], new, "Present")
      /\ (worker' = Go /\ obj'[k] = ReconcileResource(obj[k], new, "Present")) \/ worker' = Idle
      /\ events' \in {events, events + 1}
  BY <1>1, CallsOne DEF IInv
<1>3. LET o == ReconcileResource(obj[k], new, "Present") IN Stored(o, Secrets) /\ o.content = new /\ o # None
  BY <1>1, PresentHolds, Zenon
<1>4. obj'[k] = obj[k] \/ (Stored(obj'[k], Secrets) /\ obj'[k].content = new /\ obj'[k] # None)
  BY <1>2, <1>3, Zenon
<1>5. \/ Turns
      \/ /\ Proceeds /\ worker'.ca = worker.ca /\ worker'.volume = worker.volume
         /\ Stored(obj'[k], Secrets) /\ obj'[k].content = new /\ obj'[k] # None
  BY <1>2, <1>3, IdleTurns, GoProceeds, TheSteps, Zenon DEF IInv
<1>6. Frame
  BY <1>2, FrameOfWorker, Zenon
<1>7. BootFrame /\ obj'["config"] = obj["config"] /\ obj'["sts"] = obj["sts"] /\ obj'["ca"] = obj["ca"]
  BY <1>2, Zenon DEF BootFrame, Kinds
<1>8. ConfigInv'
  BY <1>5, <1>6, <1>7, ConfigFrame, Zenon
<1>9. ShapeInv'
  <2>1. worker'.gen \in Int /\ worker'.ca \in Int /\ worker'.volume \in Int /\ worker'.replicas \in Int
    BY <1>5, WorkerNumbers DEF IInv
  <2>2. \A j \in {"transport", "http", "admin"} : Holds(j, Secrets)'
    <3>1. \A j \in {"transport", "http", "admin"} \ {k} : obj'[j] = obj[j]
      BY <1>2, Zenon DEF Kinds
    <3> QED
      BY <1>1, <1>4, <3>1, Zenon DEF Holds, IInv, ShapeInv
  <2>3. Holds("ca", Int)' /\ Holds("config", Int)' /\ Holds("sts", StatefulSets)'
    BY <1>7, Zenon DEF Holds, IInv, ShapeInv
  <2> QED
    BY <1>6, <2>1, <2>2, <2>3, Zenon DEF Frame, IInv, ShapeInv
<1> QED
  BY <1>2, <1>4, <1>5, <1>6, <1>7, <1>8, <1>9, Zenon

LEMMA TransportStep == ASSUME IInv, Inv', HandleTransport PROVE IInv'
<1>1. worker.pc = "transport" /\ UNCHANGED <<conf, cr, pods, boot, volume, now, lastCa, causes>>
  BY DEF HandleTransport, kube
<1>2. CASE ~Transport
  <2>1. worker' \in {Go, GoFailed, Idle} /\ UNCHANGED <<obj, events>> /\ conf.transport # "perNode"
    BY <1>2 DEF HandleTransport, HandleTransportExistingCerts, Transport
  <2> QED
    BY <1>1, <2>1, QuietCall, TheSteps
<1>3. CASE Transport
  <2> DEFINE new == IF conf.transport = "perNode"
                    THEN GeneratePerNode(Data("transport"), worker.ca, worker.replicas, worker.initialized, now)
                    ELSE GenerateGlobal(Data("transport"), worker.ca, now)
  <2>1. Calls("transport", new, "Present", Go, Idle)
    BY <1>3 DEF HandleTransport, HandleTransportGenerate
  <2>2. /\ Data("transport") = None \/ Data("transport") \in Secrets
        /\ obj["transport"] # None => Data("transport") = obj["transport"].content /\ Data("transport") # None
        /\ obj["transport"] = None => Data("transport") = None
        /\ worker.ca \in Int /\ now \in Int /\ worker.replicas \in Int
    BY SecretFacts
  <2>3. /\ new \in Secrets
        /\ Signed(new, Data("transport"), worker.ca)
        /\ conf.transport = "global" => new.crt[Global] # None
        /\ conf.transport = "perNode" =>
               /\ \A i \in Ordinals : i < worker.replicas => new.crt[i] # None
               /\ ~worker.initialized => new.crt[BootstrapPod] # None
               /\ \A s \in Subjects : Has(s) => new.crt[s] # None
    <3>1. CASE conf.transport = "perNode"
      <4>1. new = GeneratePerNode(Data("transport"), worker.ca, worker.replicas, worker.initialized, now)
        BY <3>1
      <4> HIDE DEF new
      <4>2. /\ new \in Secrets /\ Signed(new, Data("transport"), worker.ca)
            /\ \A i \in Ordinals : i < worker.replicas => new.crt[i] # None
            /\ ~worker.initialized => new.crt[BootstrapPod] # None
            /\ \A s \in Subjects : (Data("transport") # None /\ Data("transport").crt[s] # None) => new.crt[s] # None
        <5> DEFINE data == Data("transport")
                   made == GeneratePerNode(data, worker.ca, worker.replicas, worker.initialized, now)
        <5>1. data = None \/ data \in Secrets
          BY <2>2
        <5> HIDE DEF data
        <5>2. /\ made \in Secrets /\ Signed(made, data, worker.ca)
              /\ \A i \in Ordinals : i < worker.replicas => made.crt[i] # None
              /\ ~worker.initialized => made.crt[BootstrapPod] # None
              /\ \A s \in Subjects : (data # None /\ data.crt[s] # None) => made.crt[s] # None
          BY <2>2, <5>1, PerNodeSecret, Zenon
        <5> QED
          BY <4>1, <5>2, Zenon DEF data
      <4>3. \A s : Has(s) => Data("transport") # None /\ Data("transport").crt[s] # None
        BY <2>2 DEF Has
      <4> QED
        BY <3>1, <4>2, <4>3, Zenon
    <3>2. CASE conf.transport # "perNode"
      <4>1. new = GenerateGlobal(Data("transport"), worker.ca, now)
        BY <3>2
      <4> HIDE DEF new
      <4> QED
        BY <2>2, <3>2, <4>1, GlobalSecret, Zenon
    <3> QED
      BY <3>1, <3>2, Zenon
  <2> HIDE DEF new
  <2>4. /\ ShapeInv' /\ ConfigInv' /\ Frame /\ BootFrame
        /\ \A j \in Kinds \ {"transport"} : obj'[j] = obj[j]
        /\ \/ obj'["transport"] = obj["transport"]
           \/ Stored(obj'["transport"], Secrets) /\ obj'["transport"].content = new /\ obj'["transport"] # None
        /\ \/ Turns
           \/ /\ Proceeds
              /\ Stored(obj'["transport"], Secrets) /\ obj'["transport"].content = new /\ obj'["transport"] # None
    BY <1>1, <2>1, <2>3, SecretStep, Zenon
  <2>5. /\ obj'["ca"] = obj["ca"] /\ obj'["http"] = obj["http"] /\ obj'["admin"] = obj["admin"] /\ obj'["sts"] = obj["sts"]
        /\ obj'["boot"] = obj["boot"]
    BY <2>4, Zenon DEF Kinds
  <2>6. CertInv'
    <3>1. (Transport' <=> Transport) /\ conf' = conf /\ \A i : Subject(i)' = Subject(i)
      BY <1>1 DEF Transport, Subject
    <3>2. Global \in Subjects /\ BootstrapPod \in Subjects /\ Ordinals \subseteq Subjects
      BY DEF Subjects
    <3>3. CASE conf.transport = "perNode"
      <4>1. \A s \in Subjects : Has(s) => Has(s)'
        BY <2>3, <2>4, <3>3 DEF Has
      <4>2. \A i \in Ordinals : Subject(i) = i
        BY <3>3 DEF Subject
      <4>3. worker'.pc \in AfterTransport =>
                  /\ \A i \in Ordinals : i < worker'.replicas => Has(i)'
                  /\ ~worker'.initialized => Has(BootstrapPod)'
        BY <1>3, <2>3, <2>4, <3>3, Zenon DEF Has, Turns, Claimless, Proceeds
      <4>4. /\ worker'.pc # "status" /\ worker'.pc \notin AfterStatus
        BY <1>1, <2>4 DEF Turns, Claimless, Proceeds, InOrder, AfterStatus
      <4> QED
        BY <1>1, <2>5, <3>1, <3>2, <3>3, <4>1, <4>2, <4>3, <4>4, Zenon DEF CertInv, IInv
    <3>4. CASE conf.transport = "global"
      <4>1. obj'["transport"] # None => Has(Global)'
        BY <2>3, <2>4, <3>4, Zenon DEF Has, IInv, CertInv
      <4>2. (\A i \in Ordinals : Subject(i) = Global) /\ (Has(Global) => Has(Global)')
        BY <2>4, <3>4, <4>1, Zenon DEF Subject, Has
      <4>3. /\ worker'.pc # "status" /\ worker'.pc \notin AfterStatus
        BY <1>1, <2>4 DEF Turns, Claimless, Proceeds, InOrder, AfterStatus
      <4> QED
        BY <1>1, <2>5, <3>1, <3>4, <4>1, <4>2, <4>3, Zenon DEF CertInv, IInv
    <3> QED
      BY <1>3, <3>3, <3>4 DEF Transport
  <2>7. TrustInv'
    <3>1. "ca" \notin causes => CaKnown /\ worker.ca = TheCa
      BY <1>1, <1>3 DEF IInv, TrustInv
    <3>2. obj'["transport"] = obj["transport"] \/ ("ca" \notin causes => HoldsCa("transport")')
      BY <1>1, <2>3, <2>4, <2>5, <3>1, SignedByTheCa, Zenon
    <3> QED
      BY <1>1, <2>4, <2>5, <3>2, TrustFrame
  <2> QED
    BY <2>4, <2>6, <2>7 DEF IInv
<1> QED
  BY <1>2, <1>3

LEMMA HttpStep == ASSUME IInv, Inv', HandleHttp PROVE IInv'
<1>1. worker.pc = "http" /\ UNCHANGED <<conf, cr, pods, boot, volume, now, lastCa, causes>>
  BY DEF HandleHttp, kube
<1>2. CASE ~Http
  <2>1. worker' \in {Go, GoFailed, Idle} /\ UNCHANGED <<obj, events>>
    BY <1>2 DEF HandleHttp
  <2> QED
    BY <1>1, <2>1, QuietCall, TheSteps
<1>3. CASE Http
  <2> DEFINE new == GenerateGlobal(Data("http"), worker.ca, now)
  <2>1. Calls("http", new, "Present", Go, Idle)
    BY <1>3 DEF HandleHttp
  <2>2. /\ Data("http") = None \/ Data("http") \in Secrets
        /\ obj["http"] # None => Data("http") = obj["http"].content
        /\ obj["http"] = None => Data("http") = None
        /\ worker.ca \in Int /\ now \in Int
    BY SecretFacts
  <2>3. /\ new \in Secrets
        /\ Signed(new, Data("http"), worker.ca)
    BY <2>2, GlobalSecret, Zenon
  <2> HIDE DEF new
  <2>4. /\ ShapeInv' /\ ConfigInv' /\ Frame /\ BootFrame
        /\ \A j \in Kinds \ {"http"} : obj'[j] = obj[j]
        /\ \/ obj'["http"] = obj["http"]
           \/ Stored(obj'["http"], Secrets) /\ obj'["http"].content = new /\ obj'["http"] # None
        /\ Turns \/ Proceeds
    BY <1>1, <2>1, <2>3, SecretStep, Zenon
  <2>5. /\ obj'["ca"] = obj["ca"] /\ obj'["transport"] = obj["transport"] /\ obj'["admin"] = obj["admin"]
        /\ obj'["sts"] = obj["sts"]
    BY <2>4 DEF Kinds
  <2>6. CertInv'
    BY <1>1, <2>4, <2>5, CertFrame, Zenon
  <2>7. TrustInv'
    <3>1. "ca" \notin causes => CaKnown /\ worker.ca = TheCa
      BY <1>1, <1>3, SMTT(30) DEF IInv, TrustInv
    <3>2. obj'["http"] = obj["http"] \/ ("ca" \notin causes => HoldsCa("http")')
      BY <1>1, <2>3, <2>4, <2>5, <3>1, SignedByTheCa
    <3> QED
      BY <1>1, <2>4, <2>5, <3>2, TrustFrame, Zenon
  <2> QED
    BY <2>4, <2>6, <2>7 DEF IInv
<1> QED
  BY <1>2, <1>3

LEMMA AdminStep == ASSUME IInv, Inv', HandleAdminCertificate PROVE IInv'
<1>1. worker.pc = "admin" /\ UNCHANGED <<conf, cr, pods, boot, volume, now, lastCa, causes>>
  BY DEF HandleAdminCertificate, kube
<1> DEFINE new == CreateAdminSecret(Data("admin"), worker.ca, now)
<1>2. Calls("admin", new, "Present", Go, Idle)
  BY DEF HandleAdminCertificate
<1>3. /\ Data("admin") = None \/ Data("admin") \in Secrets
      /\ obj["admin"] # None => Data("admin") = obj["admin"].content
      /\ obj["admin"] = None => Data("admin") = None
      /\ worker.ca \in Int /\ now \in Int
  BY SecretFacts
<1>4. Data("admin") # None => Data("admin").crt[Global] # None
  BY <1>3, Zenon DEF IInv, CertInv
<1>5. new \in Secrets /\ new.crt[Global] # None /\ Signed(new, Data("admin"), worker.ca)
  BY <1>3, <1>4, AdminSecret, Zenon
<1> HIDE DEF new
<1>6. /\ ShapeInv' /\ ConfigInv' /\ Frame /\ BootFrame
      /\ \A j \in Kinds \ {"admin"} : obj'[j] = obj[j]
      /\ \/ obj'["admin"] = obj["admin"]
         \/ Stored(obj'["admin"], Secrets) /\ obj'["admin"].content = new /\ obj'["admin"] # None
      /\ Turns \/ Proceeds
  BY <1>1, <1>2, <1>5, SecretStep, Zenon
<1>7. obj'["ca"] = obj["ca"] /\ obj'["transport"] = obj["transport"] /\ obj'["http"] = obj["http"] /\ obj'["sts"] = obj["sts"]
  BY <1>6 DEF Kinds
<1>8. CertInv'
  BY <1>1, <1>5, <1>6, <1>7, CertFrame, Zenon
<1>9. TrustInv'
  <2>1. "ca" \notin causes => CaKnown /\ worker.ca = TheCa
    BY <1>1 DEF IInv, TrustInv
  <2>2. obj'["admin"] = obj["admin"] \/ ("ca" \notin causes => HoldsCa("admin")')
    BY <1>1, <1>5, <1>6, <1>7, <2>1, SignedByTheCa, Zenon
  <2> QED
    BY <1>1, <1>6, <1>7, <2>2, TrustFrame
<1> QED
  BY <1>6, <1>8, <1>9, Zenon DEF IInv

(* The config map is written with a configuration that is not older than what it had. *)
LEMMA LaterConfig ==
    ASSUME NEW a, NEW b, a # None, b # None, a.content \in Int, b.content \in Int, a.content <= b.content, NEW mounted, NEW vol, NEW n
    PROVE  /\ \A t : Serves(t, a, mounted, vol, n) => Serves(t, b, mounted, vol, n)
           /\ \A p : RunsWell(p, a, mounted, vol, n) => RunsWell(p, b, mounted, vol, n)
<1>1. \A t : Serves(t, a, mounted, vol, n) => Serves(t, b, mounted, vol, n)
  <2> SUFFICES ASSUME NEW t, Serves(t, a, mounted, vol, n) PROVE Serves(t, b, mounted, vol, n)
    OBVIOUS
  <2>1. t.hash[1] \in Int
    BY DEF Serves
  <2> QED
    BY <2>1 DEF Serves
<1> QED
  BY <1>1, Zenon DEF RunsWell

LEMMA ConfigStep == ASSUME IInv, Inv', Configuration PROVE IInv'
<1>1. worker.pc = "config" /\ UNCHANGED <<conf, cr, pods, boot, volume, now, lastCa, causes>>
  BY DEF Configuration, kube
<1> DEFINE w == [worker EXCEPT !.volume = CreateAdditionalVolumes]
<1>2. Calls("config", worker.gen, "Present", Goto("config", w), Idle)
  BY DEF Configuration, ConfigData
<1>3. /\ DOMAIN w = Fields /\ w.gen = worker.gen /\ w.replicas = worker.replicas /\ w.initialized = worker.initialized
      /\ w.ca = worker.ca /\ w.volume = volume
  BY DEF IInv, Inv, Fields, CreateAdditionalVolumes
<1> HIDE DEF w
<1>4. Holds("config", Int) /\ worker.gen \in Int /\ Int \in SUBSET (Int \cup Secrets \cup StatefulSets) /\ "config" \in Kinds
  BY DEF IInv, ShapeInv, Kinds
<1>5. /\ \A j \in Kinds \ {"config"} : obj'[j] = obj[j]
      /\ obj'["config"] = obj["config"] \/ obj'["config"] = ReconcileResource(obj["config"], worker.gen, "Present")
      /\ \/ worker' = Goto("config", w) /\ obj'["config"] = ReconcileResource(obj["config"], worker.gen, "Present")
         \/ worker' = Idle
      /\ events' \in {events, events + 1}
  BY <1>2, <1>4, CallsOne, Zenon DEF IInv
<1>6. LET o == ReconcileResource(obj["config"], worker.gen, "Present")
      IN  Stored(o, Int) /\ o.content = worker.gen /\ o # None
  BY <1>4, PresentHolds, SMTT(30)
<1>7. \/ obj'["config"] = obj["config"]
      \/ Stored(obj'["config"], Int) /\ obj'["config"].content = worker.gen /\ obj'["config"] # None
  BY <1>5, <1>6
<1>8. \/ worker' = Idle
      \/ /\ Proceeds /\ worker'.ca = worker.ca /\ worker'.volume = volume
         /\ obj'["config"].content = worker.gen /\ obj'["config"] # None
  BY <1>1, <1>3, <1>5, <1>6, GotoProceeds, TheSteps, Zenon DEF IInv
<1>9. Frame
  BY <1>1, <1>5, FrameOfWorker, Zenon
<1>10. /\ obj'["ca"] = obj["ca"] /\ obj'["transport"] = obj["transport"] /\ obj'["http"] = obj["http"]
       /\ obj'["admin"] = obj["admin"] /\ obj'["sts"] = obj["sts"] /\ obj'["boot"] = obj["boot"]
  BY <1>5, SMTT(30) DEF Kinds
<1>11. ShapeInv'
  <2>1. worker'.gen \in Int /\ worker'.ca \in Int /\ worker'.volume \in Int /\ worker'.replicas \in Int
    BY <1>8, IdleTurns DEF Turns, Proceeds, IInv, ShapeInv
  <2>2. Holds("config", Int)'
    BY <1>4, <1>7, SMTT(30) DEF Holds
  <2>3. Holds("ca", Int)' /\ Holds("sts", StatefulSets)' /\ Holds("transport", Secrets)' /\ Holds("http", Secrets)'
        /\ Holds("admin", Secrets)'
    BY <1>10, SMTT(30) DEF Holds, IInv, ShapeInv
  <2> QED
    BY <1>1, <1>9, <2>1, <2>2, <2>3, SMTT(30) DEF Frame, IInv, ShapeInv
<1>12. CertInv'
  BY <1>1, <1>8, <1>9, <1>10, CertFrame, IdleTurns DEF BootFrame
<1>13. TrustInv'
  BY <1>1, <1>8, <1>9, <1>10, TrustFrame, IdleTurns, Zenon
<1>14. ConfigInv'
  <2>1. /\ HasConfig' <=> HasConfig
        /\ volume \in Nat /\ events \in Nat /\ events' \in Nat /\ events <= events' /\ volume <= events + 1
    BY <1>1, <1>9, Zenon DEF HasConfig, Frame, IInv, ShapeInv, ConfigInv
  <2>2. cr # None /\ cr.gen \in Int /\ worker.gen <= cr.gen /\ (obj["config"] # None => obj["config"].content <= worker.gen)
    BY <1>1, Zenon DEF IInv, Inv, ConfigInv, Clusters
  <2>3. /\ obj["config"] # None => obj'["config"] # None /\ obj["config"].content <= obj'["config"].content
                                   /\ obj["config"].content \in Int /\ obj'["config"].content \in Int
        /\ obj'["config"] # None => obj'["config"].content <= worker.gen /\ obj'["config"].content \in Int
    BY <1>4, <1>7, <2>2 DEF Holds, Stored
  <2>4. \A t : Serves(t, obj["config"], conf.volume, volume, events) => Serves(t, obj'["config"], conf.volume, volume, events)
    BY <2>3, LaterConfig, Zenon DEF Serves
  <2>5. \A p : RunsWell(p, obj["config"], conf.volume, volume, events) => RunsWell(p, obj'["config"], conf.volume, volume, events)
    BY <2>3, LaterConfig, Zenon DEF Serves, RunsWell
  <2>6. \A t : Serves(t, obj["config"], conf.volume, volume, events) => Serves(t, obj'["config"], conf'.volume, volume', events')
    BY <1>1, <2>1, <2>4, FreshKept, Zenon
  <2>7. \A p : RunsWell(p, obj["config"], conf.volume, volume, events) => RunsWell(p, obj'["config"], conf'.volume, volume', events')
    BY <1>1, <2>1, <2>5, FreshKept, Zenon
  <2>8. volume' <= events' + 1 /\ Fresh(worker'.volume, conf'.volume, volume', events')
    <3>1. Fresh(volume, conf.volume, volume, events)
      BY <2>1, SMTT(30) DEF Fresh
    <3>2. worker'.volume \in {0, volume}
      BY <1>8 DEF Idle
    <3> QED
      BY <1>1, <2>1, <3>1, <3>2, FreshKept, Zenon
  <2>9. worker'.pc \notin {"idle", "delete"} => worker' # Idle
    BY IdleFacts
  <2>10. worker' # Idle => worker'.gen = worker.gen
    BY <1>8 DEF Proceeds
  <2>11. worker'.pc \in AfterConfig => worker' # Idle
    BY IdleFacts, SMTT(30) DEF AfterConfig
  <2>12. (obj'["config"] # None /\ cr' # None) => obj'["config"].content <= cr'.gen
    BY <1>1, <2>2, <2>3 DEF IInv, ShapeInv
  <2>13. worker'.pc \notin {"idle", "delete"} =>
             worker'.gen <= cr'.gen /\ (obj'["config"] # None => obj'["config"].content <= worker'.gen)
    BY <1>1, <2>2, <2>3, <2>9, <2>10
  <2>14. worker'.pc \in AfterConfig => obj'["config"] # None /\ obj'["config"].content = worker'.gen
    BY <1>8, <2>10, <2>11
  <2>15. HasConfig =>
             /\ obj'["boot"] # None => obj'["config"] # None
             /\ obj'["sts"] # None => Serves(obj'["sts"].content.template, obj'["config"], conf'.volume, volume', events')
             /\ \A i \in Ordinals : pods'[i] # None => RunsWell(pods'[i], obj'["config"], conf'.volume, volume', events')
    BY <1>1, <1>10, <2>3, <2>6, <2>7, Zenon DEF IInv, ConfigInv
  <2> QED
    BY <2>1, <2>8, <2>12, <2>13, <2>14, <2>15, Zenon DEF ConfigInv
<1> QED
  BY <1>11, <1>12, <1>13, <1>14 DEF IInv

(* A bootstrap pod may be created. *)
LEMMA BootStep ==
    ASSUME IInv, Inv', worker.pc = "boot", ~worker.initialized,
           UNCHANGED <<conf, cr, pods, boot, volume, now, lastCa, causes>>,
           \A k \in Kinds \ {"boot"} : obj'[k] = obj[k], events' \in {events, events + 1},
           Turns \/ (Proceeds /\ worker'.ca = worker.ca /\ worker'.volume = worker.volume)
    PROVE  IInv'
<1>1. \A k \in Tracked : obj'[k] = obj[k]
  BY TrackedKinds, Zenon
<1>2. Frame
  BY FrameOfWorker
<1>3. BootFrame
  BY DEF BootFrame
<1>4. ShapeInv'
  <2>1. worker'.gen \in Int /\ worker'.ca \in Int /\ worker'.volume \in Int /\ worker'.replicas \in Int
    BY WorkerNumbers, Zenon DEF IInv
  <2> QED
    BY <1>1, <1>2, <2>1, Zenon DEF IInv, ShapeInv, Holds, Tracked, Frame
<1>5. ConfigInv'
  BY <1>1, <1>2, <1>3, ConfigFrame, Zenon DEF Tracked
<1>6. CertInv'
  BY <1>1, <1>2, <1>3, CertFrame, Zenon DEF Tracked
<1>7. TrustInv'
  BY <1>1, <1>2, TrustFrame DEF Tracked
<1> QED
  BY <1>4, <1>5, <1>6, <1>7, Zenon DEF IInv

LEMMA BootCreation ==
    ASSUME IInv, Inv', (BootstrapPodStep /\ ~worker.initialized) \/ RecreateBootstrapPod
    PROVE  IInv'
<1>1. CASE BootstrapPodStep /\ ~worker.initialized
  <2>1. worker.pc = "boot" /\ UNCHANGED <<conf, cr, pods, boot, volume, now, lastCa, causes>>
    BY <1>1 DEF BootstrapPodStep, kube
  <2>2. Calls("boot", NewBootstrapPod, "Created", Go, GoFailed)
    BY <1>1 DEF BootstrapPodStep
  <2>3. /\ \A k \in Kinds \ {"boot"} : obj'[k] = obj[k]
        /\ worker' \in {Go, GoFailed, Idle} /\ events' \in {events, events + 1}
    BY <2>2, CallsOne, TrackedKinds, Zenon DEF IInv
  <2>4. Turns \/ (Proceeds /\ worker'.ca = worker.ca /\ worker'.volume = worker.volume)
    BY <2>1, <2>3, WorkerGoes, TheSteps, SMTT(30) DEF IInv
  <2> QED
    BY <1>1, <2>1, <2>3, <2>4, BootStep, Zenon
<1>2. CASE RecreateBootstrapPod
  <2>1. worker.pc = "boot" /\ worker.recreate /\ UNCHANGED <<conf, cr, pods, boot, volume, now, lastCa, causes>>
    BY <1>2 DEF RecreateBootstrapPod, kube
  <2>2. ~worker.initialized
    BY <2>1, Zenon DEF IInv, Inv
  <2> DEFINE w == [worker EXCEPT !.recreate = FALSE]
             v == [w EXCEPT !.failed = TRUE]
  <2>3. /\ DOMAIN w = Fields /\ w.gen = worker.gen /\ w.replicas = worker.replicas /\ w.initialized = worker.initialized
        /\ w.ca = worker.ca /\ w.volume = worker.volume
    BY DEF IInv, Inv, Fields
  <2>4. \/ Calls("boot", NewBootstrapPod, "Created", Goto("boot", w), Goto("boot", v))
        \/ Event /\ worker' = Goto("boot", v) /\ UNCHANGED obj
    BY <1>2 DEF RecreateBootstrapPod
  <2> HIDE DEF w
  <2>5. /\ DOMAIN v = Fields /\ v.gen = worker.gen /\ v.replicas = worker.replicas /\ v.initialized = worker.initialized
        /\ v.ca = worker.ca /\ v.volume = worker.volume
    BY <2>3, SMTT(30) DEF Fields
  <2> HIDE DEF v
  <2>6. /\ \A k \in Kinds \ {"boot"} : obj'[k] = obj[k]
        /\ worker' \in {Goto("boot", w), Goto("boot", v)} /\ events' \in {events, events + 1}
    <3>1. CASE Calls("boot", NewBootstrapPod, "Created", Goto("boot", w), Goto("boot", v))
      BY <3>1, CallsOne, TrackedKinds, Zenon DEF IInv
    <3>2. CASE Event /\ worker' = Goto("boot", v) /\ UNCHANGED obj
      BY <3>2 DEF Event
    <3> QED
      BY <2>4, <3>1, <3>2
  <2>7. IsStep("boot") /\ worker.pc = "boot"
    BY <2>1, TheSteps, SMTT(30)
  <2>8. worker' = Goto("boot", w) => Turns \/ (Proceeds /\ worker'.ca = worker.ca /\ worker'.volume = worker.volume)
    BY <2>3, <2>7, GotoProceeds, IdleTurns, SMTT(30) DEF IInv
  <2>9. worker' = Goto("boot", v) => Turns \/ (Proceeds /\ worker'.ca = worker.ca /\ worker'.volume = worker.volume)
    BY <2>5, <2>7, GotoProceeds, IdleTurns DEF IInv
  <2> QED
    BY <2>1, <2>2, <2>6, <2>8, <2>9, BootStep
<1> QED
  BY <1>1, <1>2

(* A step that may change the StatefulSet, and nothing else that is stored. *)
LEMMA StsStep ==
    ASSUME IInv, Inv', UNCHANGED <<conf, cr, pods, boot, volume, now, lastCa, causes>>,
           \A k \in Kinds \ {"sts"} : obj'[k] = obj[k], events' \in {events, events + 1},
           Holds("sts", StatefulSets)', obj["sts"] # None => obj'["sts"] # None,
           (HasConfig /\ obj'["sts"] # None) =>
               \/ obj'["sts"] = obj["sts"]
               \/ Serves(obj'["sts"].content.template, obj["config"], conf.volume, volume, events),
           (conf.transport = "perNode" /\ obj'["sts"] # None) =>
               \/ obj'["sts"] = obj["sts"]
               \/ \A i \in Ordinals : i < obj'["sts"].content.replicas => Has(i),
           worker.pc \in {"sts", "scaler"},
           \/ Turns
           \/ /\ Proceeds /\ worker'.ca = worker.ca /\ worker'.volume = worker.volume
              /\ worker.pc = "sts" => worker'.failed = TRUE \/ obj'["sts"] # None
    PROVE  IInv'
<1>1. /\ obj'["ca"] = obj["ca"] /\ obj'["transport"] = obj["transport"] /\ obj'["http"] = obj["http"]
      /\ obj'["admin"] = obj["admin"] /\ obj'["config"] = obj["config"] /\ obj'["boot"] = obj["boot"]
  BY Zenon DEF Kinds
<1>2. Frame /\ BootFrame
  BY <1>1, FrameOfWorker, Zenon DEF BootFrame
<1>3. ShapeInv'
  <2>1. worker'.gen \in Int /\ worker'.ca \in Int /\ worker'.volume \in Int /\ worker'.replicas \in Int
    BY WorkerNumbers, Zenon DEF IInv
  <2>2. Holds("ca", Int)' /\ Holds("config", Int)' /\ Holds("transport", Secrets)' /\ Holds("http", Secrets)'
        /\ Holds("admin", Secrets)'
    BY <1>1, Zenon DEF Holds, IInv, ShapeInv
  <2> QED
    BY <1>2, <2>1, <2>2, Zenon DEF Frame, IInv, ShapeInv
<1>4. ConfigInv'
  BY <1>1, <1>2, ConfigFrame, Zenon
<1>5. CertInv'
  BY <1>1, <1>2, CertFrame, Zenon
<1>6. TrustInv'
  BY <1>1, <1>2, TrustFrame, Zenon
<1> QED
  BY <1>3, <1>4, <1>5, <1>6, Zenon DEF IInv

LEMMA StatefulSetStep == ASSUME IInv, Inv', NodeStatefulSet PROVE IInv'
<1>1. worker.pc = "sts" /\ UNCHANGED <<conf, cr, pods, boot, volume, now, lastCa, causes>>
  BY SMTT(30) DEF NodeStatefulSet, kube
<1> DEFINE replicas == IF obj["sts"] = None THEN worker.replicas ELSE obj["sts"].content.replicas
           new == [template |-> Template, replicas |-> replicas]
<1>2. Calls("sts", new, "Present", Go, GoFailed)
  BY DEF NodeStatefulSet
<1>3. worker.gen \in Int /\ worker.volume \in Int /\ worker.replicas \in Int /\ Holds("sts", StatefulSets)
  BY DEF IInv, ShapeInv
<1>4. replicas \in Int
  BY <1>3 DEF Holds, Stored, StatefulSets
<1>5. Template \in [gen : Int, hash : Seq(Int)] /\ Template.hash = ConfigHash
  <2>1. ConfigHash \in Seq(Int)
    BY <1>3, SMTT(30) DEF ConfigHash, ConfigData
  <2> QED
    BY <1>3, <2>1, Zenon DEF Template
<1>6. new \in StatefulSets /\ new.template = Template /\ new.replicas = replicas
  BY <1>4, <1>5, SMTT(30) DEF StatefulSets
<1>7. HasConfig => Serves(Template, obj["config"], conf.volume, volume, events)
  <2> SUFFICES ASSUME HasConfig PROVE Serves(Template, obj["config"], conf.volume, volume, events)
    OBVIOUS
  <2>1. obj["config"] # None /\ obj["config"].content = worker.gen /\ Fresh(worker.volume, conf.volume, volume, events)
    BY <1>1, Zenon DEF IInv, ConfigInv, AfterConfig
  <2>2. ConfigHash = <<worker.gen, worker.volume>>
    BY DEF ConfigHash, ConfigData
  <2>3. ConfigHash \in Seq(Int) /\ Len(ConfigHash) = 2 /\ ConfigHash[1] = worker.gen /\ ConfigHash[2] = worker.volume
    BY <1>3, <2>2
  <2> QED
    BY <1>3, <1>5, <2>1, <2>3 DEF Serves
<1>8. conf.transport = "perNode" => \A i \in Ordinals : i < replicas => Has(i)
  BY <1>1, Zenon DEF IInv, CertInv, AfterTransport
<1> HIDE DEF new, replicas
<1>9. "sts" \in Kinds /\ StatefulSets \in SUBSET (Int \cup Secrets \cup StatefulSets)
  BY DEF Kinds
<1>10. /\ \A j \in Kinds \ {"sts"} : obj'[j] = obj[j]
       /\ obj'["sts"] = obj["sts"] \/ obj'["sts"] = ReconcileResource(obj["sts"], new, "Present")
       /\ (worker' = Go /\ obj'["sts"] = ReconcileResource(obj["sts"], new, "Present")) \/ worker' = GoFailed
       /\ events' \in {events, events + 1}
  BY <1>2, <1>9, CallsOne, Zenon DEF IInv
<1>11. LET o == ReconcileResource(obj["sts"], new, "Present") IN Stored(o, StatefulSets) /\ o.content = new /\ o # None
  BY <1>3, <1>6, <1>9, PresentHolds, Zenon
<1>12. obj'["sts"] = obj["sts"] \/ (Stored(obj'["sts"], StatefulSets) /\ obj'["sts"].content = new /\ obj'["sts"] # None)
  BY <1>10, <1>11
<1>13. \/ Turns
       \/ /\ Proceeds /\ worker'.ca = worker.ca /\ worker'.volume = worker.volume
          /\ worker'.failed = TRUE \/ obj'["sts"] # None
  BY <1>1, <1>10, <1>11, GoProceeds, GoFailedProceeds, IdleTurns, TheSteps, Zenon DEF IInv
<1>14. Holds("sts", StatefulSets)'
  BY <1>3, <1>12 DEF Holds
<1> QED
  BY <1>1, <1>6, <1>7, <1>8, <1>10, <1>12, <1>13, <1>14, StsStep, Zenon

LEMMA ScalingStep == ASSUME IInv, Inv', ScalerStep PROVE IInv'
<1>1. worker.pc = "scaler" /\ UNCHANGED <<conf, cr, pods, boot, volume, now, lastCa, causes>>
  BY DEF ScalerStep, kube
<1> DEFINE n == obj["sts"].content.replicas
           m == IF n < worker.replicas THEN n + 1 ELSE IF n > worker.replicas THEN n - 1 ELSE n
           old == obj["sts"].content
           new == [old EXCEPT !.replicas = m]
<1>2. Calls("sts", new, "Present", Go, Idle)
  BY DEF ScalerStep
<1>3. obj["sts"] # None
  BY <1>1, Zenon DEF IInv, CertInv, AfterStatus
<1>4. Holds("sts", StatefulSets) /\ old \in StatefulSets /\ worker.replicas \in Int
  BY <1>3, SMTT(30) DEF IInv, ShapeInv, Holds, Stored
<1>5. n \in Int /\ m \in Int /\ (m <= n \/ m <= worker.replicas)
  BY <1>4 DEF StatefulSets
<1> HIDE DEF m
<1>6. new \in StatefulSets /\ new.template = old.template /\ new.replicas = m
  BY <1>4, <1>5 DEF StatefulSets
<1>7. HasConfig => Serves(new.template, obj["config"], conf.volume, volume, events)
  BY <1>3, <1>6 DEF IInv, ConfigInv
<1>8. conf.transport = "perNode" => \A i \in Ordinals : i < m => Has(i)
  <2>1. conf.transport = "perNode" => /\ \A i \in Ordinals : i < n => Has(i)
                                      /\ \A i \in Ordinals : i < worker.replicas => Has(i)
    BY <1>1, <1>3, Zenon DEF IInv, CertInv, AfterTransport
  <2>2. \A i \in Ordinals : i < m => i < n \/ i < worker.replicas
    BY <1>4, <1>5, CertificatesAssumption, SMTT(30)
  <2> QED
    BY <2>1, <2>2
<1> HIDE DEF new
<1>9. "sts" \in Kinds /\ StatefulSets \in SUBSET (Int \cup Secrets \cup StatefulSets)
  BY DEF Kinds
<1>10. /\ \A j \in Kinds \ {"sts"} : obj'[j] = obj[j]
       /\ obj'["sts"] = obj["sts"] \/ obj'["sts"] = ReconcileResource(obj["sts"], new, "Present")
       /\ worker' \in {Go, GoFailed, Idle} /\ events' \in {events, events + 1}
  BY <1>2, <1>9, CallsOne DEF IInv
<1>11. LET o == ReconcileResource(obj["sts"], new, "Present") IN Stored(o, StatefulSets) /\ o.content = new /\ o # None
  BY <1>4, <1>6, <1>9, PresentHolds, Zenon
<1>12. obj'["sts"] = obj["sts"] \/ (Stored(obj'["sts"], StatefulSets) /\ obj'["sts"].content = new /\ obj'["sts"] # None)
  BY <1>10, <1>11
<1>13. Turns \/ (Proceeds /\ worker'.ca = worker.ca /\ worker'.volume = worker.volume)
  BY <1>1, <1>10, WorkerGoes, TheSteps, Zenon DEF IInv
<1>14. Holds("sts", StatefulSets)' /\ obj'["sts"] # None
  BY <1>3, <1>4, <1>12 DEF Holds
<1>15. /\ (HasConfig /\ obj'["sts"] # None) =>
              \/ obj'["sts"] = obj["sts"]
              \/ Serves(obj'["sts"].content.template, obj["config"], conf.volume, volume, events)
       /\ (conf.transport = "perNode" /\ obj'["sts"] # None) =>
              \/ obj'["sts"] = obj["sts"]
              \/ \A i \in Ordinals : i < obj'["sts"].content.replicas => Has(i)
  BY <1>6, <1>7, <1>8, <1>12, Zenon
<1> HIDE DEF n, old
<1> QED
  BY <1>1, <1>10, <1>13, <1>14, <1>15, StsStep, Zenon

LEMMA StatusStep == ASSUME IInv, Inv', UpdateClusterStatus PROVE IInv'
<1>1. worker.pc = "status" /\ UNCHANGED <<conf, cr, obj, pods, boot, volume, now, lastCa, causes>>
  BY DEF UpdateClusterStatus, kube
<1>2. (worker' = Idle \/ (worker' = Go /\ worker.failed # TRUE)) /\ events' \in {events, events + 1}
  BY Zenon DEF UpdateClusterStatus, Event
<1>3. Turns \/ (Proceeds /\ worker'.ca = worker.ca /\ worker'.volume = worker.volume /\ worker.failed # TRUE)
  BY <1>1, <1>2, IdleTurns, GoProceeds, TheSteps, Zenon DEF IInv
<1>4. Frame /\ BootFrame
  BY <1>1, <1>2, FrameOfWorker DEF BootFrame
<1>5. ShapeInv'
  <2>1. worker'.gen \in Int /\ worker'.ca \in Int /\ worker'.volume \in Int /\ worker'.replicas \in Int
    BY <1>3, WorkerNumbers, Zenon DEF IInv
  <2> QED
    BY <1>1, <1>4, <2>1, Zenon DEF IInv, ShapeInv, Holds, Frame
<1>6. ConfigInv'
  BY <1>1, <1>3, <1>4, ConfigFrame, Zenon
<1>7. CertInv'
  BY <1>1, <1>3, <1>4, CertFrame, Zenon
<1>8. TrustInv'
  BY <1>1, <1>3, <1>4, TrustFrame, Zenon
<1> QED
  BY <1>5, <1>6, <1>7, <1>8 DEF IInv

----------------------------------------------------------------------------
(* Users, Kubernetes and the nodes. *)

LEMMA VolumeEdit == ASSUME IInv, Inv', EditVolume PROVE IInv'
<1>1. /\ UNCHANGED <<conf, cr, obj, worker, pods, boot, now, lastCa, causes>>
      /\ conf.volume /\ events' = events + 1 /\ volume' \in {0, events' + 1}
  BY DEF EditVolume, Event, kube
<1>2. events \in Nat /\ volume \in Nat /\ volume' \in Nat /\ volume' <= events' + 1 /\ events' \in Nat
  BY <1>1 DEF IInv, ShapeInv
<1>3. \A v : Fresh(v, conf.volume, volume, events) => Fresh(v, conf'.volume, volume', events')
  BY <1>1, <1>2 DEF Fresh
<1>4. /\ \A t : Serves(t, obj["config"], conf.volume, volume, events) => Serves(t, obj'["config"], conf'.volume, volume', events')
      /\ \A p : RunsWell(p, obj["config"], conf.volume, volume, events) => RunsWell(p, obj'["config"], conf'.volume, volume', events')
  BY <1>1, <1>3, Zenon DEF Serves, RunsWell
<1>5. Frame /\ BootFrame
  BY <1>1, FrameOfWorker DEF BootFrame
<1>6. ShapeInv'
  BY <1>1, <1>2, Zenon DEF IInv, ShapeInv, Holds
<1>7. CertInv' /\ TrustInv'
  BY <1>1, <1>5, CertFrame, TrustFrame, Zenon
<1>8. HasConfig' <=> HasConfig
  BY <1>1 DEF HasConfig
<1>9. ConfigInv'
  BY <1>1, <1>2, <1>3, <1>4, <1>8, Zenon DEF IInv, ConfigInv
<1> QED
  BY <1>6, <1>7, <1>9 DEF IInv

LEMMA CaLoss == ASSUME IInv, Inv', LoseCa PROVE IInv'
<1>1. /\ UNCHANGED <<conf, cr, worker, pods, boot, volume, now, lastCa>>
      /\ "ca" \in causes' /\ causes \subseteq causes' /\ events' \in {events, events + 1}
  BY DEF LoseCa, Event, kube
<1>2. obj'["ca"] = None /\ \A k \in Kinds \ {"ca"} : obj'[k] = obj[k]
  BY Zenon DEF LoseCa, IInv, Inv, Kinds
<1>3. /\ obj'["transport"] = obj["transport"] /\ obj'["http"] = obj["http"] /\ obj'["admin"] = obj["admin"]
      /\ obj'["sts"] = obj["sts"] /\ obj'["config"] = obj["config"] /\ obj'["boot"] = obj["boot"]
  BY <1>2, Zenon DEF Kinds
<1>4. Frame /\ BootFrame
  BY <1>1, <1>3, FrameOfWorker DEF BootFrame
<1>5. ShapeInv'
  BY <1>1, <1>2, <1>3, <1>4, Zenon DEF IInv, ShapeInv, Holds, Frame
<1>6. ConfigInv' /\ CertInv'
  BY <1>1, <1>3, <1>4, ConfigFrame, CertFrame, Zenon
<1>7. TrustInv'
  BY <1>1 DEF TrustInv
<1> QED
  BY <1>5, <1>6, <1>7 DEF IInv

(* One pod changes. *)
LEMMA PodStep ==
    ASSUME IInv, Inv', NEW i \in Ordinals, NEW p, pods' = [pods EXCEPT ![i] = p],
           UNCHANGED <<conf, cr, obj, worker, boot, volume, now, lastCa, causes>>, events' \in {events, events + 1},
           DOMAIN p = PodFields,
           HasConfig => RunsWell(p, obj["config"], conf.volume, volume, events),
           Transport => Has(Subject(i)),
           "ca" \notin causes => TrustsCa(p)
    PROVE  IInv'
<1>1. DOMAIN pods' = Ordinals /\ \A j \in Ordinals : pods'[j] = pods[j] \/ (j = i /\ pods'[j] = p)
  BY DEF IInv, ShapeInv
<1>2. Frame /\ BootFrame
  <2>1. events' \in Nat /\ events <= events'
    BY DEF IInv, ShapeInv
  <2>2. cr \in Clusters => cr.gen \in Int /\ cr.gen <= cr.gen
    BY SMT DEF Clusters
  <2>3. cr' # None => cr # None /\ cr.gen <= cr'.gen /\ cr'.gen \in Int
    BY <2>2, Zenon DEF IInv, Inv
  <2> QED
    BY <1>1, <2>1, <2>3, Zenon DEF Frame, BootFrame
<1>3. ShapeInv'
  BY <1>1, <1>2, Zenon DEF IInv, ShapeInv, Holds, Frame
<1>4. ConfigInv'
  BY <1>1, <1>2, ConfigFrame, Zenon
<1>5. CertInv'
  BY <1>1, <1>2, CertFrame, Zenon
<1>6. TrustInv'
  BY <1>1, <1>2, TrustFrame
<1> QED
  BY <1>3, <1>4, <1>5, <1>6 DEF IInv

(* What a node that starts loads was signed by the CA of the cluster. *)
LEMMA LoadedTrusts ==
    ASSUME IInv, NEW s, Subject(s) \in Subjects, Transport => Has(Subject(s)), "ca" \notin causes
    PROVE  TrustsCa(Loaded(s))
<1>1. CASE Transport
  <2>1. CaKnown /\ obj["transport"].content.ca = TheCa /\ obj["transport"].content.crt[Subject(s)].by = TheCa
    BY <1>1, Zenon DEF IInv, TrustInv, HoldsCa, Has
  <2> QED
    BY <1>1, <2>1, Zenon DEF Loaded, TrustsCa, NodeCa
<1>2. CASE ~Transport
  BY <1>2, Zenon DEF Loaded, TrustsCa, NodeCa
<1> QED
  BY <1>1, <1>2

LEMMA StartedFields ==
    ASSUME NEW i
    PROVE  /\ DOMAIN Started(i) = PodFields
           /\ Started(i).template = obj["sts"].content.template /\ Started(i).config = ConfigLoaded
           /\ Started(i).volume = volume /\ Started(i).ca = Loaded(i).ca /\ Started(i).by = Loaded(i).by
BY Zenon DEF Started, PodFields

LEMMA SubjectOfPod == \A i \in Ordinals \cup {BootstrapPod} : Subject(i) \in Subjects
BY DEF Subject, Subjects

LEMMA PodStarts == ASSUME IInv, Inv', NEW i \in Ordinals, StartPod(i) PROVE IInv'
<1>1. /\ UNCHANGED <<conf, cr, obj, worker, boot, volume, now, lastCa, causes, events>>
      /\ pods' = [pods EXCEPT ![i] = Started(i)] /\ Mounted(i) /\ obj["sts"] # None
  BY Zenon DEF StartPod, Others
<1>2. (Transport => Has(Subject(i))) /\ (conf.volume => volume # 0) /\ (HasConfig => obj["config"] # None)
  BY <1>1, Zenon DEF Mounted, HasCertificate, Has
<1>3. HasConfig => RunsWell(Started(i), obj["config"], conf.volume, volume, events)
  <2> SUFFICES ASSUME HasConfig PROVE RunsWell(Started(i), obj["config"], conf.volume, volume, events)
    OBVIOUS
  <2>1. Serves(obj["sts"].content.template, obj["config"], conf.volume, volume, events)
    BY <1>1, Zenon DEF IInv, ConfigInv
  <2>2. ConfigLoaded = obj["config"].content /\ obj["config"].content \in Int /\ volume \in Nat
    BY <1>2, Zenon DEF ConfigLoaded, IInv, ShapeInv, Holds, Stored
  <2> QED
    BY <1>2, <2>1, <2>2, StartedFields, StartsWell, Zenon
<1>4. "ca" \notin causes => TrustsCa(Started(i))
  BY <1>2, LoadedTrusts, StartedFields, SubjectOfPod, Zenon DEF TrustsCa
<1> QED
  BY <1>1, <1>2, <1>3, <1>4, StartedFields, PodStep, Zenon

LEMMA PodRestarts == ASSUME IInv, Inv', NEW i \in Ordinals, PodFails(i) PROVE IInv'
<1> DEFINE v == IF volume = 0 THEN pods[i].volume ELSE volume
           p == [Started(i) EXCEPT !.template = pods[i].template, !.volume = v]
<1>1. /\ UNCHANGED <<conf, cr, obj, worker, boot, volume, now, lastCa, causes>> /\ events' \in {events, events + 1}
      /\ pods' = [pods EXCEPT ![i] = p] /\ pods[i] # None
  BY DEF PodFails, Others, Event
<1>2. /\ DOMAIN p = PodFields /\ p.template = pods[i].template /\ p.volume = v /\ p.config = ConfigLoaded
      /\ p.ca = Loaded(i).ca /\ p.by = Loaded(i).by
  BY StartedFields DEF PodFields
<1> HIDE DEF p
<1>3. Transport => Has(Subject(i))
  BY <1>1, Zenon DEF IInv, CertInv
<1>4. HasConfig => RunsWell(p, obj["config"], conf.volume, volume, events)
  <2> SUFFICES ASSUME HasConfig PROVE RunsWell(p, obj["config"], conf.volume, volume, events)
    OBVIOUS
  <2>1. RunsWell(pods[i], obj["config"], conf.volume, volume, events)
    BY <1>1, Zenon DEF IInv, ConfigInv
  <2>2. ConfigLoaded = obj["config"].content /\ obj["config"].content \in Int /\ volume \in Nat
    BY <2>1, Zenon DEF ConfigLoaded, IInv, ShapeInv, Holds, Stored, RunsWell, Serves
  <2> QED
    BY <1>2, <2>1, <2>2, RestartsWell, Zenon
<1>5. "ca" \notin causes => TrustsCa(p)
  BY <1>2, <1>3, LoadedTrusts, SubjectOfPod DEF TrustsCa
<1> QED
  BY <1>1, <1>2, <1>3, <1>4, <1>5, PodStep, Zenon

LEMMA PodJoins == ASSUME IInv, Inv', NEW i \in Ordinals, Join(i) PROVE IInv'
<1> DEFINE p == [pods[i] EXCEPT !.ready = TRUE]
<1>1. /\ UNCHANGED <<conf, cr, obj, worker, boot, volume, now, lastCa, causes, events>>
      /\ pods' = [pods EXCEPT ![i] = p] /\ pods[i] # None
  BY DEF Join, Others
<1>2. DOMAIN pods[i] = PodFields
  BY <1>1 DEF IInv, ShapeInv
<1>3. /\ DOMAIN p = PodFields /\ p.template = pods[i].template /\ p.volume = pods[i].volume /\ p.config = pods[i].config
      /\ p.ca = pods[i].ca /\ p.by = pods[i].by
  BY <1>2 DEF PodFields
<1> HIDE DEF p
<1>4. Transport => Has(Subject(i))
  BY <1>1, Zenon DEF IInv, CertInv
<1>5. HasConfig => RunsWell(p, obj["config"], conf.volume, volume, events)
  BY <1>1, <1>3, Zenon DEF IInv, ConfigInv, RunsWell
<1>6. "ca" \notin causes => TrustsCa(p)
  BY <1>1, <1>3, Zenon DEF IInv, TrustInv, TrustsCa
<1> QED
  BY <1>1, <1>3, <1>4, <1>5, <1>6, PodStep, Zenon

LEMMA BootStarts == ASSUME IInv, Inv', StartBootstrap PROVE IInv'
<1>1. /\ UNCHANGED <<conf, cr, obj, worker, pods, volume, now, lastCa, causes, events>>
      /\ boot' = Loaded(BootstrapPod) /\ Mounted(BootstrapPod)
  BY DEF StartBootstrap, Others
<1>2. Transport => Has(Subject(BootstrapPod))
  BY <1>1 DEF Mounted, HasCertificate, Has
<1>3. "ca" \notin causes => TrustsCa(Loaded(BootstrapPod))
  BY <1>2, LoadedTrusts, SubjectOfPod
<1>4. Frame /\ BootFrame
  BY <1>1, FrameOfWorker DEF BootFrame
<1>5. ShapeInv'
  BY <1>1, Zenon DEF IInv, ShapeInv, Holds
<1>6. ConfigInv' /\ CertInv'
  BY <1>1, <1>4, ConfigFrame, CertFrame, Zenon
<1>7. TrustInv'
  BY <1>1, <1>3, <1>4, TrustFrame
<1> QED
  BY <1>5, <1>6, <1>7 DEF IInv

LEMMA Collection == ASSUME IInv, Inv', CollectGarbage PROVE IInv'
<1>1. /\ UNCHANGED <<conf, cr, worker, volume, now, lastCa, causes, events>> /\ cr = None
      /\ (\A k \in Kinds : obj'[k] = None) /\ (\A i \in Ordinals : pods'[i] = None) /\ DOMAIN pods' = Ordinals /\ boot' = None
  BY DEF CollectGarbage, Others
<1>2. worker.pc = "idle"
  BY <1>1, Zenon DEF IInv, Inv
<1>3. /\ obj'["ca"] = None /\ obj'["transport"] = None /\ obj'["http"] = None /\ obj'["admin"] = None /\ obj'["sts"] = None
      /\ obj'["config"] = None /\ obj'["boot"] = None
  BY <1>1 DEF Kinds
<1>4. ShapeInv'
  BY <1>1, <1>3, Zenon DEF IInv, ShapeInv, Holds
<1>5. ConfigInv'
  BY <1>1, <1>2, <1>3, Zenon DEF IInv, ConfigInv, AfterConfig
<1>6. CertInv'
  BY <1>1, <1>2, <1>3, Zenon DEF CertInv, AfterTransport, AfterStatus
<1>7. TrustInv'
  BY <1>1, <1>2, <1>3, Zenon DEF TrustInv, HoldsCa
<1> QED
  BY <1>4, <1>5, <1>6, <1>7 DEF IInv

----------------------------------------------------------------------------
LEMMA InitIInv == Init => IInv
<1> SUFFICES ASSUME Init PROVE IInv
  OBVIOUS
<1>1. Inv
  BY InitInv
<1>2. /\ worker.pc = "idle" /\ worker.gen = 1 /\ worker.replicas = 0 /\ worker.ca = 0 /\ worker.volume = 0
      /\ now = 0 /\ lastCa = 0 /\ events = 0 /\ volume \in {0, 1} /\ boot = None
      /\ DOMAIN pods = Ordinals /\ \A i \in Ordinals : pods[i] = None
  BY Zenon DEF Init, Idle
<1>3. /\ obj["ca"] = None /\ obj["transport"] = None /\ obj["http"] = None /\ obj["admin"] = None /\ obj["sts"] = None
      /\ obj["config"] = None /\ obj["boot"] = None
  BY SMTT(30) DEF Init, Kinds
<1>4. ShapeInv
  BY <1>2, <1>3, SMTT(30) DEF ShapeInv, Holds
<1>5. ConfigInv
  BY <1>2, <1>3 DEF ConfigInv, AfterConfig, Fresh
<1>6. CertInv
  BY <1>2, <1>3, Zenon DEF CertInv, AfterTransport, AfterStatus
<1>7. TrustInv
  BY <1>2, <1>3, Zenon DEF TrustInv, HoldsCa
<1> QED
  BY <1>1, <1>4, <1>5, <1>6, <1>7 DEF IInv

LEMMA NextIInv == IInv /\ [Next]_vars => IInv'
<1> SUFFICES ASSUME IInv, [Next]_vars PROVE IInv'
  OBVIOUS
<1>1. Inv'
  BY NextInv DEF IInv
<1>2. CASE Worker
  <2>1. CASE Fetch \/ DeleteExternalResources \/ FinishDeletion \/ Phase \/ UpdateInitialized
    BY <1>1, <2>1, QuietController
  <2>2. CASE ReadCa \/ GenerateCa \/ GenerateCaFails
    BY <1>1, <2>2, CaStepKeeps
  <2>3. CASE HandleTransport \/ HandleHttp \/ HandleAdminCertificate
    BY <1>1, <2>3, TransportStep, HttpStep, AdminStep
  <2>4. CASE Configuration \/ Services
    BY <1>1, <2>4, ConfigStep, QuietServices
  <2>5. CASE BootstrapPVC \/ SnapshotRepositories \/ Dashboards
    BY <1>1, <2>5, QuietCluster
  <2>6. CASE BootstrapPodStep \/ ReconcileBootstrapPod \/ RecreateBootstrapPod
    BY <1>1, <2>6, QuietBootstrap, BootCreation
  <2>7. CASE NodeStatefulSet \/ UpdateClusterStatus \/ ScalerStep
    BY <1>1, <2>7, StatefulSetStep, StatusStep, ScalingStep
  <2>8. CASE DashboardsCertificate \/ DashboardsConfig \/ RestartStep
    BY <1>1, <2>8, QuietDashboards, QuietRestart
  <2> QED
    BY <1>2, <2>1, <2>2, <2>3, <2>4, <2>5, <2>6, <2>7, <2>8 DEF Worker
<1>3. CASE Crash
  BY <1>1, <1>3, QuietController
<1>4. CASE \/ Edit \/ DeleteResource \/ Tick \/ StopBootstrap \/ DropVolume \/ RollOutDashboards
           \/ \E i \in Ordinals : StopPod(i)
  BY <1>1, <1>4, QuietEnvironment
<1>5. CASE EditVolume \/ LoseCa \/ StartBootstrap \/ CollectGarbage
  BY <1>1, <1>5, VolumeEdit, CaLoss, BootStarts, Collection
<1>6. CASE \E i \in Ordinals : StartPod(i) \/ PodFails(i) \/ Join(i)
  BY <1>1, <1>6, PodStarts, PodRestarts, PodJoins
<1>7. CASE UNCHANGED vars
  <2>1. UNCHANGED <<conf, cr, obj, worker, pods, boot, volume, now, lastCa, causes, events>>
    BY <1>7 DEF vars
  <2>2. ShapeInv' /\ ConfigInv'
    <3>1. ShapeInv'
      BY <2>1, Zenon DEF IInv, ShapeInv, Holds
    <3>2. ConfigInv'
      BY <2>1, Zenon DEF IInv, ConfigInv, HasConfig
    <3> QED
      BY <3>1, <3>2, Zenon
  <2>3. CertInv'
    BY <2>1, Zenon DEF IInv, CertInv, Has, Transport, Subject
  <2>4. TrustInv'
    BY <2>1, Zenon DEF IInv, TrustInv, HoldsCa, TrustsCa, CaKnown, TheCa, NodeCa, Http, Transport
  <2> QED
    BY <1>1, <2>2, <2>3, <2>4, Zenon DEF IInv
<1> QED
  BY <1>2, <1>3, <1>4, <1>5, <1>6, <1>7 DEF Next

LEMMA AlwaysIInv == Spec => []IInv
BY InitIInv, NextIInv, PTL DEF Spec

(* tls.go:296-459 and util.go:67-93 sign whatever they sign with the one CA of the
   cluster: as long as nobody loses it and no error of a read is taken for its
   absence, any two nodes trust each other and the admin is trusted, from
   whichever generations of the secrets they were started. *)
THEOREM NodesOfOneCa == Spec => []NodesTrustEachOther
<1>1. IInv => NodesTrustEachOther
  <2> SUFFICES ASSUME IInv, "ca" \notin causes
               PROVE  /\ \A p, q \in Running : Trusts(p, q)
                      /\ (obj["admin"] # None /\ obj["http"] # None) =>
                             obj["admin"].content.crt[Global].by = obj["http"].content.ca
    BY SMTT(30) DEF NodesTrustEachOther
  <2>1. \A p \in Running : TrustsCa(p)
    BY DEF Running, IInv, TrustInv
  <2>2. \A p, q \in Running : Trusts(p, q)
    BY <2>1 DEF Trusts, TrustsCa
  <2>3. (obj["admin"] # None /\ obj["http"] # None) => obj["admin"].content.crt[Global].by = obj["http"].content.ca
    BY Zenon DEF IInv, TrustInv, CertInv, HoldsCa, Subjects
  <2> QED
    BY <2>2, <2>3, SMTT(30)
<1> QED
  BY <1>1, AlwaysIInv, PTL

(* With certificates per node, tls.go:371-422 has made the certificate of a node
   before cluster.go or the scaler lets a StatefulSet have its pod, and the
   configuration is there as well: a pod never hangs for want of its secret. *)
THEOREM EveryPodHasItsCertificate == Spec => []PodsFindTheirCertificate
<1>1. IInv => PodsFindTheirCertificate
  BY Zenon DEF IInv, PodsFindTheirCertificate, HasCertificate, CertInv, ConfigInv, Has, Subject, Serves, HasConfig, Transport
<1> QED
  BY <1>1, AlwaysIInv, PTL

(* configuration.go:162-256 comes before cluster.go:140 in a pass: no pod runs with
   a configuration older than the one its template's checksum stands for, so a
   template that has been rolled out is one whose configuration is in force. *)
THEOREM ConfigIsInForce == Spec => []PodsRunTheirConfig
<1>1. IInv => PodsRunTheirConfig
  <2> SUFFICES ASSUME IInv, HasConfig, NEW i \in Ordinals, pods[i] # None
               PROVE  pods[i].config >= pods[i].template.hash[1] /\ pods[i].volume >= pods[i].template.hash[2]
    BY DEF PodsRunTheirConfig
  <2>1. RunsWell(pods[i], obj["config"], conf.volume, volume, events)
    BY Zenon DEF IInv, ConfigInv
  <2> QED
    BY <2>1, RunsItsConfig, Zenon
<1> QED
  BY <1>1, AlwaysIInv, PTL
==============================================================================
