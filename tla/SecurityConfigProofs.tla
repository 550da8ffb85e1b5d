----------------------- MODULE SecurityConfigProofs -----------------------
(***************************************************************************)
(* What holds of the security configuration for any passwords, sources and *)
(* bounds: the first job fills the index completely, and Ready is said of  *)
(* a content that is there.                                                *)
(***************************************************************************)
EXTENDS SecurityConfig, TLAPS

Rest == {"absent", "a", "b"}

\* What the pass, the generated secret and the pod of a job hold of the user's files.
FilesInv ==
    /\ DOMAIN read = {"source", "admin", "dash"}
    /\ pc = "write" => read.source \in Source
    /\ source \in Source \cup {None}
    /\ generated # None => generated.rest \in Rest
    /\ job # None => /\ DOMAIN job = {"sum", "all", "state", "read", "gone"}
                     /\ job.state # "new" => job.read.rest \in Rest

\* Until the index is filled, no node was ever ready: the cluster is not initialized, neither in the
\* resource nor in what the pass has read of it, so that every job was told to upload all files.
EmptyInv ==
    index.rest = None =>
        /\ index.users = None /\ nodes # "ready" /\ ~initialized /\ ~inst.initialized
        /\ job # None => job.all

FillInv == FilesInv /\ EmptyInv

\* A job that succeeded with the content it was made for has left it in the index.
AppliedInv ==
    /\ job # None => DOMAIN job = {"sum", "all", "state", "read", "gone"}
    /\ job # None /\ job.state = "succeeded" /\ job.read = job.sum => Holds(job.sum)
-----------------------------------------------------------------------------
(* The files *)

\* Steps that change neither what the pass has read nor the secrets.
LEMMA SameFiles ==
    ASSUME FilesInv, UNCHANGED <<source, generated, job>>,
           DOMAIN read' = {"source", "admin", "dash"},
           pc' = "write" => read'.source \in Source
    PROVE  FilesInv'
BY DEF FilesInv

LEMMA NoReadDomain == DOMAIN NoRead = {"source", "admin", "dash"}
BY DEF NoRead

LEMMA PassFilesStep == ASSUME FilesInv, Reconcile PROVE FilesInv'
<1> USE DEF Answered, EndPass, Goto, secrets, status, KeepsJob, AtJob
<1>r. DOMAIN read = {"source", "admin", "dash"} /\ DOMAIN NoRead = {"source", "admin", "dash"}
  BY NoReadDomain DEF FilesInv
<1>1. CASE StartPass
  BY <1>1, <1>r, SameFiles DEF StartPass
<1>2. CASE EnsureAdminCredentialsSecret
  <2>1. DOMAIN read' = {"source", "admin", "dash"} /\ pc' # "write" /\ UNCHANGED <<source, generated, job>>
    BY <1>2, <1>r DEF EnsureAdminCredentialsSecret
  <2> QED
    BY <2>1, SameFiles
<1>3. CASE AdminCredentialsFail
  BY <1>3, <1>r, SameFiles DEF AdminCredentialsFail
<1>4. CASE RecordAdminSecret
  BY <1>4, <1>r, SameFiles DEF RecordAdminSecret
<1>5. CASE EnsureDashboardsCredentialsSecret
  <2>1. /\ DOMAIN read' = {"source", "admin", "dash"} /\ read'.source = source /\ source # None
        /\ UNCHANGED <<source, generated, job>>
    BY <1>5, <1>r DEF EnsureDashboardsCredentialsSecret
  <2>2. read'.source \in Source
    BY <2>1 DEF FilesInv
  <2> QED
    BY <2>1, <2>2, SameFiles
<1>6. CASE DashboardsCredentialsFail
  BY <1>6, <1>r, SameFiles DEF DashboardsCredentialsFail
<1>7. CASE WriteGenerated
  <2>1. /\ generated' = BuildGeneratedSecurityConfigSecret /\ pc = "write" /\ pc' # "write"
        /\ UNCHANGED <<source, job>> /\ (read' = read \/ read' = NoRead)
    BY <1>7 DEF WriteGenerated
  <2>2. generated'.rest = read.source.rest
    BY <2>1 DEF BuildGeneratedSecurityConfigSecret
  <2>3. read.source.rest \in Rest
    BY <2>1 DEF FilesInv, Source, Rest
  <2> QED
    BY <1>r, <2>1, <2>2, <2>3 DEF FilesInv
<1>8. CASE RecordContextSecret
  BY <1>8, <1>r, SameFiles DEF RecordContextSecret
<1>9. CASE WaitForSecret
  BY <1>9, <1>r, SameFiles DEF WaitForSecret
<1>10. CASE NoJob
  BY <1>10, <1>r, SameFiles DEF NoJob
<1>11. CASE OtherJob
  BY <1>11, <1>r, SameFiles DEF OtherJob
<1>12. CASE JobSucceeded
  BY <1>12, <1>r, SameFiles DEF JobSucceeded
<1>13. CASE JobActive
  BY <1>13, <1>r, SameFiles DEF JobActive
<1>14. CASE JobBacksOff
  BY <1>14, <1>r, SameFiles DEF JobBacksOff
<1>15. CASE JobRetried
  BY <1>15, <1>r, SameFiles DEF JobRetried
<1>16. CASE DeleteJob
  <2>1. /\ job # None /\ job' = [job EXCEPT !.gone = TRUE] /\ pc' # "write"
        /\ UNCHANGED <<source, generated>> /\ (read' = read \/ read' = NoRead)
    BY <1>16 DEF DeleteJob
  <2>2. DOMAIN job' = DOMAIN job /\ job'.state = job.state /\ job'.read = job.read
    BY <2>1 DEF FilesInv
  <2> QED
    BY <1>r, <2>1, <2>2 DEF FilesInv
<1>17. CASE JobNotFound
  BY <1>17, <1>r, SameFiles DEF JobNotFound
<1>18. CASE SetRunning
  BY <1>18, <1>r, SameFiles DEF SetRunning
<1>19. CASE CreateJob
  <2>1. /\ job' = job \/ job' = NewJob
        /\ pc' # "write" /\ UNCHANGED <<source, generated>> /\ (read' = read \/ read' = NoRead)
    BY <1>19 DEF CreateJob
  <2>2. DOMAIN NewJob = {"sum", "all", "state", "read", "gone"} /\ NewJob.state = "new"
    BY DEF NewJob
  <2> QED
    BY <1>r, <2>1, <2>2 DEF FilesInv
<1>20. CASE BuildNodes
  BY <1>20, <1>r, SameFiles DEF BuildNodes
<1> QED
  BY <1>1, <1>2, <1>3, <1>4, <1>5, <1>6, <1>7, <1>8, <1>9, <1>10, <1>11, <1>12, <1>13, <1>14, <1>15, <1>16,
     <1>17, <1>18, <1>19, <1>20 DEF Reconcile

\* What the job controller does to the job.
JobMoves == JobStarts \/ JobApplies \/ JobFails \/ JobGone

LEMMA JobFilesStep == ASSUME FilesInv, JobMoves PROVE FilesInv'
<1> USE DEF secrets, worker
<1>1. CASE JobStarts
  <2>1. /\ job # None /\ job' = [job EXCEPT !.state = "active", !.read = generated] /\ generated # None
        /\ UNCHANGED <<source, generated, pc, read>>
    BY <1>1 DEF JobStarts
  <2>2. DOMAIN job' = DOMAIN job /\ job'.read = generated
    BY <2>1 DEF FilesInv
  <2> QED
    BY <2>1, <2>2 DEF FilesInv
<1>2. CASE JobApplies \/ JobFails
  <2>1. /\ job # None /\ job.state = "active"
        /\ job' = [job EXCEPT !.state = "succeeded"] \/ job' = [job EXCEPT !.state = "failed"]
        /\ UNCHANGED <<source, generated, pc, read>>
    BY <1>2 DEF JobApplies, JobFails
  <2>2. DOMAIN job' = DOMAIN job /\ job'.read = job.read
    BY <2>1 DEF FilesInv
  <2> QED
    BY <2>1, <2>2 DEF FilesInv
<1>3. CASE JobGone
  BY <1>3 DEF JobGone, FilesInv
<1> QED
  BY <1>1, <1>2, <1>3 DEF JobMoves

LEMMA FilesStep == ASSUME FilesInv, [Next]_vars PROVE FilesInv'
<1>1. CASE Reconcile
  BY <1>1, PassFilesStep
<1>2. CASE JobMoves
  BY <1>2, JobFilesStep
<1>3. CASE PassFails
  BY <1>3, NoReadDomain, SameFiles DEF PassFails, Refused, EndPass, secrets
<1>4. CASE Edit
  <2>1. /\ source' \in Sources \cup {None, source} /\ (generated' = generated \/ generated' = None)
        /\ UNCHANGED <<job, pc, read>>
    BY <1>4 DEF Edit, secrets, worker
  <2> QED
    BY <2>1, SecurityConfigAssumption DEF FilesInv
<1>5. CASE NodesReady \/ NodesUnready \/ SyncMount \/ Tick \/ UNCHANGED vars
  <2>1. UNCHANGED <<source, generated, job, pc, read>>
    BY <1>5 DEF NodesReady, NodesUnready, SyncMount, Tick, vars, secrets, worker
  <2> QED
    BY <2>1 DEF FilesInv
<1> QED
  BY <1>1, <1>2, <1>3, <1>4, <1>5 DEF Next, Surroundings, JobMoves
-----------------------------------------------------------------------------
(* The empty index *)

LEMMA SameEmpty ==
    ASSUME EmptyInv, index' = index, initialized' = initialized,
           nodes' = "ready" => nodes = "ready",
           inst' = inst \/ inst' = NoInst,
           job' # None => job # None /\ job'.all = job.all
    PROVE  EmptyInv'
<1>1. ~NoInst.initialized
  BY DEF NoInst
<1> QED
  BY <1>1 DEF EmptyInv

LEMMA PassEmptyStep == ASSUME FilesInv, EmptyInv, Reconcile PROVE EmptyInv'
<1> USE DEF Answered, EndPass, Goto, secrets, status, built, KeepsJob, AtJob
<1>1. CASE StartPass
  <2>1. /\ UNCHANGED <<index, nodes, job>> /\ initialized' = (initialized \/ nodes = "ready")
        /\ inst' = [initialized |-> initialized', conditions |-> component.conditions, made |-> made]
    BY <1>1 DEF StartPass
  <2>2. inst'.initialized = initialized'
    BY <2>1
  <2> QED
    BY <2>1, <2>2, Zenon DEF EmptyInv
<1>2. CASE EnsureAdminCredentialsSecret BY <1>2, SameEmpty DEF EnsureAdminCredentialsSecret
<1>3. CASE AdminCredentialsFail BY <1>3, SameEmpty DEF AdminCredentialsFail
<1>4. CASE RecordAdminSecret BY <1>4, SameEmpty DEF RecordAdminSecret
<1>5. CASE EnsureDashboardsCredentialsSecret BY <1>5, SameEmpty DEF EnsureDashboardsCredentialsSecret
<1>6. CASE DashboardsCredentialsFail BY <1>6, SameEmpty DEF DashboardsCredentialsFail
<1>7. CASE WriteGenerated BY <1>7, SameEmpty DEF WriteGenerated
<1>8. CASE RecordContextSecret BY <1>8, SameEmpty DEF RecordContextSecret
<1>9. CASE WaitForSecret BY <1>9, SameEmpty DEF WaitForSecret
<1>10. CASE NoJob BY <1>10, SameEmpty DEF NoJob
<1>11. CASE OtherJob BY <1>11, SameEmpty DEF OtherJob
<1>12. CASE JobSucceeded BY <1>12, SameEmpty DEF JobSucceeded
<1>13. CASE JobActive BY <1>13, SameEmpty DEF JobActive
<1>14. CASE JobBacksOff BY <1>14, SameEmpty DEF JobBacksOff
<1>15. CASE JobRetried BY <1>15, SameEmpty DEF JobRetried
<1>16. CASE DeleteJob
  <2>1. /\ job # None /\ job' = [job EXCEPT !.gone = TRUE]
        /\ UNCHANGED <<index, nodes, initialized>> /\ (inst' = inst \/ inst' = NoInst)
    BY <1>16 DEF DeleteJob
  <2>2. job'.all = job.all
    BY <2>1 DEF FilesInv
  <2> QED
    BY <2>1, <2>2, SameEmpty
<1>17. CASE JobNotFound BY <1>17, SameEmpty DEF JobNotFound
<1>18. CASE SetRunning BY <1>18, SameEmpty DEF SetRunning
<1>19. CASE CreateJob
  <2>1. /\ job' = job \/ job' = NewJob
        /\ UNCHANGED <<index, nodes, initialized>> /\ (inst' = inst \/ inst' = NoInst)
    BY <1>19 DEF CreateJob
  <2>2. NewJob.all = ~inst.initialized
    BY DEF NewJob
  <2>3. CASE job' = job
    BY <2>1, <2>3, SameEmpty
  <2>4. CASE job' = NewJob
    <3>1. ~NoInst.initialized
      BY DEF NoInst
    <3> QED
      BY <2>1, <2>2, <2>4, <3>1, Zenon DEF EmptyInv
  <2> QED
    BY <2>1, <2>3, <2>4
<1>20. CASE BuildNodes
  BY <1>20, SameEmpty DEF BuildNodes
<1> QED
  BY <1>1, <1>2, <1>3, <1>4, <1>5, <1>6, <1>7, <1>8, <1>9, <1>10, <1>11, <1>12, <1>13, <1>14, <1>15, <1>16,
     <1>17, <1>18, <1>19, <1>20 DEF Reconcile

\* A job that is told to upload all files leaves none out.
LEMMA AppliesFills == ASSUME FilesInv, EmptyInv, JobApplies PROVE index'.rest # None
<1>1. /\ job # None /\ job.state = "active"
      /\ index' = [users |-> UsersOf(job.read),
                   rest |-> IF ~job.all /\ "rest" \notin Files(job.sum) THEN index.rest
                            ELSE IF job.read.rest = "absent" THEN "default" ELSE job.read.rest]
  BY DEF JobApplies
<1>2. index'.rest = IF ~job.all /\ "rest" \notin Files(job.sum) THEN index.rest
                    ELSE IF job.read.rest = "absent" THEN "default" ELSE job.read.rest
  BY <1>1
<1>3. job.read.rest \in {"absent", "a", "b"}
  BY <1>1 DEF FilesInv, Rest
<1>4. job.read.rest # None /\ "default" # None
  BY <1>3, SecurityConfigAssumption
<1>5. ~job.all => index.rest # None
  BY <1>1 DEF EmptyInv
<1> QED
  BY <1>2, <1>4, <1>5, Zenon

LEMMA FillStep == FillInv /\ [Next]_vars => FillInv'
<1> SUFFICES ASSUME FilesInv, EmptyInv, [Next]_vars PROVE FillInv'
  BY DEF FillInv
<1>f. FilesInv'
  BY FilesStep
<1> USE DEF secrets, status, built, worker
<1>1. CASE Reconcile
  BY <1>1, <1>f, PassEmptyStep DEF FillInv
<1>2. CASE JobApplies
  <2>1. index'.rest # None
    BY <1>2, AppliesFills
  <2> QED
    BY <1>f, <2>1 DEF FillInv, EmptyInv
<1>3. CASE JobStarts \/ JobFails \/ JobGone
  <2>1. /\ UNCHANGED <<index, nodes, initialized, inst>>
        /\ \/ job # None /\ (\/ job' = [job EXCEPT !.state = "active", !.read = generated]
                             \/ job' = [job EXCEPT !.state = "failed"])
           \/ job' = None
    BY <1>3 DEF JobStarts, JobFails, JobGone
  <2>2. job' = None \/ (job # None /\ job'.all = job.all)
    BY <2>1 DEF FilesInv
  <2> QED
    BY <1>f, <2>1, <2>2, SameEmpty DEF FillInv
<1>4. CASE NodesReady
  <2>1. UNCHANGED <<index, initialized, inst, job>> /\ index.users # None
    BY <1>4 DEF NodesReady, Opens
  <2> QED
    BY <1>f, <2>1 DEF FillInv, EmptyInv
<1>5. CASE PassFails \/ Edit \/ NodesUnready \/ SyncMount \/ Tick \/ UNCHANGED vars
  <2>1. /\ UNCHANGED <<index, initialized, job>> /\ (nodes' = nodes \/ nodes' = "started")
        /\ inst' = inst \/ inst' = NoInst
    BY <1>5 DEF PassFails, Refused, EndPass, Edit, NodesUnready, SyncMount, Tick, vars
  <2> QED
    BY <1>f, <2>1, SameEmpty DEF FillInv
<1> QED
  BY <1>1, <1>2, <1>3, <1>4, <1>5 DEF Next, Surroundings

\* A security index that holds anything holds all files: as long as it is empty, no node can have become
\* ready, so that the cluster is not initialized and every job was made to upload the files of the image
\* where the secret has none (Reconcile, while Status.Initialized is not set).
THEOREM FirstJobFillsTheIndex == Spec => []FilledCompletely
<1>1. Init => FillInv
  <2> SUFFICES ASSUME Init PROVE FillInv
    OBVIOUS
  <2>1. FilesInv
    BY NoReadDomain, SecurityConfigAssumption DEF Init, FilesInv
  <2>2. EmptyInv
    BY DEF Init, EmptyInv, NoInst
  <2> QED
    BY <2>1, <2>2 DEF FillInv
<1>2. FillInv => FilledCompletely
  BY DEF FillInv, EmptyInv, FilledCompletely
<1> QED
  BY <1>1, <1>2, FillStep, PTL DEF Spec
-----------------------------------------------------------------------------
(* The content of a job that succeeded *)

LEMMA AppliedStep == AppliedInv /\ [Next]_vars => AppliedInv'
<1> SUFFICES ASSUME AppliedInv, [Next]_vars PROVE AppliedInv'
  OBVIOUS
<1>1. CASE JobApplies
  <2>1. /\ job # None /\ job' = [job EXCEPT !.state = "succeeded"]
        /\ index' = [users |-> UsersOf(job.read),
                     rest |-> IF ~job.all /\ "rest" \notin Files(job.sum) THEN index.rest
                              ELSE IF job.read.rest = "absent" THEN "default" ELSE job.read.rest]
    BY <1>1 DEF JobApplies
  <2>2. DOMAIN job' = DOMAIN job /\ job'.sum = job.sum /\ job'.read = job.read
    BY <2>1 DEF AppliedInv
  <2>3. index'.users = UsersOf(job.read)
    BY <2>1
  <2>4. index'.rest = IF ~job.all /\ "rest" \notin Files(job.sum) THEN index.rest
                      ELSE IF job.read.rest = "absent" THEN "default" ELSE job.read.rest
    BY <2>1
  <2>5. job.read = job.sum /\ job.sum.rest # "absent" => index'.rest = job.sum.rest
    BY <2>4 DEF Files
  <2>6. job.read = job.sum => Holds(job.sum)'
    BY <2>2, <2>3, <2>5 DEF Holds, UsersOf
  <2> QED
    BY <2>1, <2>2, <2>6 DEF AppliedInv
<1>2. ASSUME index' = index,
             \/ job' = job \/ job' = None \/ job' = NewJob
             \/ job # None /\ (\/ job' = [job EXCEPT !.gone = TRUE]
                               \/ job' = [job EXCEPT !.state = "active", !.read = generated]
                               \/ job' = [job EXCEPT !.state = "failed"])
      PROVE  AppliedInv'
  <2>1. CASE job' = job \/ job' = None
    BY <1>2, <2>1 DEF AppliedInv, Holds
  <2>2. CASE job' = NewJob
    <3>1. DOMAIN NewJob = {"sum", "all", "state", "read", "gone"} /\ NewJob.state = "new"
      BY DEF NewJob
    <3> QED
      BY <2>2, <3>1 DEF AppliedInv
  <2>3. CASE job # None /\ job' = [job EXCEPT !.gone = TRUE]
    <3>1. DOMAIN job' = DOMAIN job /\ job'.sum = job.sum /\ job'.read = job.read /\ job'.state = job.state
      BY <2>3 DEF AppliedInv
    <3> QED
      BY <1>2, <2>3, <3>1 DEF AppliedInv, Holds
  <2>4. CASE job # None /\ (\/ job' = [job EXCEPT !.state = "active", !.read = generated]
                            \/ job' = [job EXCEPT !.state = "failed"])
    <3>1. DOMAIN job' = DOMAIN job /\ job'.state \in {"active", "failed"}
      BY <2>4 DEF AppliedInv
    <3> QED
      BY <3>1, <2>4 DEF AppliedInv
  <2> QED
    BY <1>2, <2>1, <2>2, <2>3, <2>4
<1>3. CASE Reconcile
  <2>1. index' = index
    BY <1>3 DEF Reconcile, StartPass, EnsureAdminCredentialsSecret, AdminCredentialsFail, RecordAdminSecret,
       EnsureDashboardsCredentialsSecret, DashboardsCredentialsFail, WriteGenerated, RecordContextSecret,
       WaitForSecret, NoJob, OtherJob, JobSucceeded, JobActive, JobBacksOff, JobRetried, DeleteJob, JobNotFound,
       SetRunning, CreateJob, BuildNodes, KeepsJob
  <2>2. job' = job \/ job' = NewJob \/ (job # None /\ job' = [job EXCEPT !.gone = TRUE])
    BY <1>3 DEF Reconcile, StartPass, EnsureAdminCredentialsSecret, AdminCredentialsFail, RecordAdminSecret,
       EnsureDashboardsCredentialsSecret, DashboardsCredentialsFail, WriteGenerated, RecordContextSecret,
       WaitForSecret, NoJob, OtherJob, JobSucceeded, JobActive, JobBacksOff, JobRetried, DeleteJob, JobNotFound,
       SetRunning, CreateJob, BuildNodes, KeepsJob
  <2> QED
    BY <1>2, <2>1, <2>2
<1>4. CASE ~Reconcile /\ ~JobApplies
  BY <1>2, <1>4 DEF Next, Surroundings, PassFails, Refused, Edit, JobStarts, JobFails, JobGone, NodesReady,
     NodesUnready, SyncMount, Tick, vars
<1> QED
  BY <1>1, <1>3, <1>4

\* The entry is set to Ready only when the index holds the content of the generated secret, or the pod of the
\* job has read another content than the job was made for (handleExistingSecurityConfigJob compares only what
\* the job was made for).
THEOREM ReadyConfigIsApplied == Spec => ReadyMeansApplied
<1> DEFINE Ready == (pc = "job" /\ worker' # worker /\ component'.state = "Ready" /\ component.state # "Ready")
                        => (Holds(generated) \/ job.read # job.sum)
<1>1. Init => AppliedInv
  BY DEF Init, AppliedInv
<1>2. ASSUME AppliedInv, Next PROVE Ready
  <2> SUFFICES ASSUME pc = "job", worker' # worker, component'.state = "Ready", component.state # "Ready"
               PROVE  JobSucceeded
    BY <1>2 DEF JobSucceeded, UpToDate, AppliedInv
  <2>1. component' # component
    OBVIOUS
  <2>2. JobSucceeded \/ JobActive \/ JobBacksOff \/ JobRetried
    BY <1>2, <2>1 DEF Next, Reconcile, Surroundings, StartPass, EnsureAdminCredentialsSecret, AdminCredentialsFail,
       RecordAdminSecret, EnsureDashboardsCredentialsSecret, DashboardsCredentialsFail, WriteGenerated,
       RecordContextSecret, WaitForSecret, NoJob, OtherJob, DeleteJob, JobNotFound, SetRunning, CreateJob,
       BuildNodes, PassFails, Refused, Edit, JobStarts, JobApplies, JobFails, JobGone, NodesReady, NodesUnready,
       SyncMount, Tick, status, KeepsJob
  <2>3. ~JobActive /\ ~JobBacksOff /\ ~JobRetried
    BY DEF JobActive, JobBacksOff, JobRetried, Record
  <2> QED
    BY <2>2, <2>3
<1>3. AppliedInv /\ [Next]_vars => [Ready]_vars
  BY <1>2
<1> QED
  BY <1>1, <1>3, AppliedStep, PTL DEF Spec, ReadyMeansApplied
=============================================================================
