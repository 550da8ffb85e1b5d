---------------------------- MODULE Certificates ----------------------------
(***************************************************************************)
(* The certificates of a cluster (pkg/tls/pki.go, pkg/reconcilers/tls.go): *)
(* how they are signed, when they are replaced, and what the secrets hold. *)
(* A CA is a number; a certificate is the CA that signed it and the day on *)
(* which it expires, with its key.  A secret has the certificate of a CA   *)
(* and a certificate of each subject: the cluster, or each pod.  Every     *)
(* reading of a certificate happens later in the day than its making, so   *)
(* that a certificate of n days has n - 1 whole days left on its first.    *)
(***************************************************************************)
EXTENDS Integers, Resource

CONSTANTS
    Ordinals,        \* of the pods
    Validity,        \* spec.security.tls.*.duration in days
    RotateDays,      \* rotateDaysBeforeExpiry, not positive to turn it off
    AdminThreshold   \* days before expiry when the certificate of the admin is replaced

(* The subjects beside the nodes: the bootstrap pod, and the cluster as a whole. *)
BootstrapPod == -1
Global == -2
Subjects == Ordinals \cup {BootstrapPod, Global}

(* A certificate: the CA that signed it and its last day; and a secret. *)
Certs == [by : Int, until : Int]
Secrets == [ca : Int, crt : [Subjects -> Certs \cup {None}]]

ASSUME CertificatesAssumption ==
    /\ Ordinals \subseteq Nat /\ Validity \in Nat \ {0} /\ RotateDays \in Int /\ AdminThreshold \in Nat
    /\ None \notin Certs \cup Secrets

(* The CA that the user provides has a subject of its own; the CAs that are
   generated are all named after the cluster. *)
ProvidedCa == 0
CaName(ca) == IF ca = ProvidedCa THEN "provided" ELSE "cluster"

CreateAndSignCertificate(ca, now) == [by |-> ca, until |-> now + Validity]

NoCerts == [s \in Subjects |-> None]
SecretData(cert, ca) == [ca |-> ca, crt |-> [NoCerts EXCEPT ![Global] = cert]]

DaysRemaining(cert, now) == cert.until - now - 1

(* Mutant of CertShouldBeRenewed: only a certificate without days left is renewed. *)
CertRenewedWhenOver(cert, now) == RotateDays > 0 /\ DaysRemaining(cert, now) < 0

(* The remaining days decide, never the CA that signed. *)
CertShouldBeRenewed(cert, now) == RotateDays > 0 /\ DaysRemaining(cert, now) < RotateDays

GenerateNewCertIfNeeded(ca, cert, now) ==
    IF cert # None THEN IF CertShouldBeRenewed(cert, now) THEN CreateAndSignCertificate(ca, now) ELSE cert
                   ELSE CreateAndSignCertificate(ca, now)

(* One certificate of the cluster: with the CA that signed it, also when the
   CA of the cluster has changed since. *)
GenerateGlobal(data, ca, now) ==
    LET old == IF data = None THEN None ELSE data.crt[Global]
        new == GenerateNewCertIfNeeded(ca, old, now)
    IN  IF new = old THEN data ELSE SecretData(new, ca)

(* The bootstrap pod gets a certificate while the cluster is not initialized. *)
GenerateBootstrapCertIfNeeded(ca, cert, initialized, now) ==
    IF ~initialized /\ cert = None THEN CreateAndSignCertificate(ca, now) ELSE cert

(* Mutant of GeneratePerNode: the last node is forgotten. *)
GenerateButLast(data, ca, replicas, initialized, now) ==
    LET old == IF data = None THEN NoCerts ELSE data.crt
    IN  [ca |-> ca,
         crt |-> [s \in Subjects |->
                    CASE s = BootstrapPod -> GenerateBootstrapCertIfNeeded(ca, old[s], initialized, now)
                      [] s \in {i \in Ordinals : i < replicas - 1} -> GenerateNewCertIfNeeded(ca, old[s], now)
                      [] OTHER -> old[s]]]

(* A certificate of each node of the specification, and always the present CA.
   The certificates are made at the same time, but none is stored unless all are. *)
GeneratePerNode(data, ca, replicas, initialized, now) ==
    LET old == IF data = None THEN NoCerts ELSE data.crt
    IN  [ca |-> ca,
         crt |-> [s \in Subjects |->
                    CASE s = BootstrapPod -> GenerateBootstrapCertIfNeeded(ca, old[s], initialized, now)
                      [] s \in {i \in Ordinals : i < replicas} -> GenerateNewCertIfNeeded(ca, old[s], now)
                      [] OTHER -> old[s]]]

IsExpiringSoon(cert, now) == cert.until - now <= AdminThreshold

(* Compares the names of issuer and subject only. *)
IsSignedByCA(cert, ca) == CaName(cert.by) = CaName(ca)

ShouldCreateAdminCert(data, ca, now) ==
    IF data = None THEN TRUE
    ELSE IsExpiringSoon(data.crt[Global], now) \/ ~IsSignedByCA(data.crt[Global], ca)

CreateAdminSecret(data, ca, now) ==
    IF ShouldCreateAdminCert(data, ca, now) THEN SecretData(CreateAndSignCertificate(ca, now), ca) ELSE data
=============================================================================
