-------------------------- MODULE BackofficeProofs --------------------------
(***************************************************************************)
(* Theorems about Exports, Tokens, Contracts and Publishing, for any       *)
(* jobs, workers, logins, tokens, texts, versions and requests, and the    *)
(* type invariant of all that MCBackoffice brings together.                *)
(*                                                                         *)
(* The inductive invariant of Exports says that no two workers have the    *)
(* same job, that a job is pending until the claim of it commits, and how  *)
(* far the file and the status are at each step of the worker that has it. *)
(*                                                                         *)
(* The inductive invariant of Tokens says that a token whose row is locked *)
(* for its rotation still works, and that one request has that lock: its   *)
(* successor then takes the place of the only token that works.            *)
(*                                                                         *)
(* Contracts and Publishing implement VersionLog.  Both keep their         *)
(* versions in a table indexed by version; their inductive invariants say  *)
(* that the versions in use are 1..k and that the k-th is the one in       *)
(* force: a request that read an older k and still goes through would need *)
(* a version that is taken.                                                *)
(***************************************************************************)
EXTENDS MCBackoffice, SettlementProofs, Sequences, FiniteSetTheorems

-----------------------------------------------------------------------------
(* Exports *)

HasJob == {"claiming", "storing", "writing", "completing", "failing"}
Owns(w, j) == worker[w].at \in HasJob /\ worker[w].job = j

OneOwner == \A w, v \in Workers, j \in Jobs : Owns(w, j) /\ Owns(v, j) => w = v

\* What is so of a job, whoever has it, and of the job a worker has.
JobSound(j) ==
    /\ claims[j] = IF job[j] \in {"none", "pending"} THEN 0 ELSE 1
    /\ job[j] = "completed" => file[j] = "whole"

WorkerSound(w) ==
    /\ worker[w].at = "claiming" => job[worker[w].job] = "pending"
    /\ worker[w].at \in {"storing", "writing", "completing"} =>
          job[worker[w].job] = "processing"
    /\ worker[w].at = "completing" => file[worker[w].job] = "whole"
    /\ worker[w].at = "failing" => job[worker[w].job] \notin {"none", "pending"}

EInv == /\ ExportsTypeOK /\ OneOwner
        /\ \A j \in Jobs : JobSound(j)
        /\ \A w \in Workers : WorkerSound(w)

-----------------------------------------------------------------------------
LEMMA WorkerKinds ==
    ASSUME NEW t \in WorkerType
    PROVE  /\ t.at \in HasJob => t \in [at : HasJob, job : Jobs]
           /\ t.at \in HasJob \cup {"waiting", "dead"}
           /\ t.at = "waiting" => t = Waiting
BY DEF WorkerType, HasJob, Waiting, Dead

LEMMA WorkersBack ==
    /\ Waiting \in WorkerType /\ Waiting.at \notin HasJob
    /\ Dead \in WorkerType /\ Dead.at \notin HasJob
    /\ \A a \in HasJob, j \in Jobs : [at |-> a, job |-> j] \in WorkerType
BY DEF WorkerType, HasJob, Waiting, Dead

LEMMA JobOf ==
    ASSUME ExportsTypeOK, NEW w \in Workers, worker[w].at \in HasJob
    PROVE  \E j \in Jobs : j = worker[w].job
BY WorkerKinds DEF ExportsTypeOK

\* A worker goes on to the step a of the job it has.
LEMMA GoesOn ==
    ASSUME ExportsTypeOK, NEW w \in Workers, worker[w].at \in HasJob,
           NEW a \in HasJob, On(w, a)
    PROVE  /\ worker[w].job \in Jobs
           /\ [at |-> a, job |-> worker[w].job] \in WorkerType
           /\ Works(w, [at |-> a, job |-> worker[w].job])
<1>1. worker[w] \in [at : HasJob, job : Jobs]
  BY WorkerKinds DEF ExportsTypeOK
<1>2. [worker[w] EXCEPT !.at = a] = [at |-> a, job |-> worker[w].job]
  BY <1>1
<1> QED
  BY <1>1, <1>2, WorkersBack DEF On

-----------------------------------------------------------------------------
\* A step of a worker that touches its own job only.
LEMMA OnOwnJob ==
    ASSUME EInv, NEW w \in Workers, NEW j \in Jobs, Owns(w, j),
           NEW t \in WorkerType, Works(w, t), t.at \in HasJob => t.job = j,
           job' \in [Jobs -> {"none", "pending", "processing", "completed", "failed"}],
           file' \in [Jobs -> {"none", "partial", "whole"}],
           claims' \in [Jobs -> Nat],
           \A k \in Jobs \ {j} : /\ job'[k] = job[k] /\ file'[k] = file[k]
                                 /\ claims'[k] = claims[k],
           JobSound(j)', WorkerSound(w)'
    PROVE  EInv'
<1>1. worker' = [worker EXCEPT ![w] = t] /\ worker \in [Workers -> WorkerType]
  BY DEF Works, EInv, ExportsTypeOK
<1>2. ExportsTypeOK'
  BY <1>1 DEF ExportsTypeOK
<1>3. \A v \in Workers, k \in Jobs : Owns(v, k)' => Owns(v, k)
  BY <1>1 DEF Owns
<1>4. OneOwner'
  BY <1>3 DEF EInv, OneOwner
<1>5. \A k \in Jobs : JobSound(k)'
  <2>1. \A k \in Jobs \ {j} : JobSound(k)'
    BY DEF EInv, JobSound
  <2> QED
    BY <2>1
<1>6. ASSUME NEW v \in Workers PROVE WorkerSound(v)'
  <2>1. CASE v = w
    BY <2>1
  <2>2. CASE v # w
    <3>1. worker'[v] = worker[v]
      BY <1>1, <2>2
    <3>2. CASE worker[v].at \notin HasJob
      BY <3>1, <3>2 DEF WorkerSound, HasJob
    <3>3. CASE worker[v].at \in HasJob
      <4>1. worker[v].job \in Jobs \ {j}
        BY <1>1, <2>2, <3>3, WorkerKinds DEF EInv, OneOwner, Owns
      <4> QED
        BY <3>1, <4>1 DEF EInv, WorkerSound
    <3> QED
      BY <3>2, <3>3
  <2> QED
    BY <2>1, <2>2
<1> QED
  BY <1>2, <1>4, <1>5, <1>6 DEF EInv

\* A worker that lets go of whatever it had.
LEMMA LetsGo ==
    ASSUME EInv, NEW w \in Workers, NEW t \in {Waiting, Dead}, Works(w, t),
           UNCHANGED <<job, file, claims>>
    PROVE  EInv'
<1>1. /\ worker' = [worker EXCEPT ![w] = t] /\ worker \in [Workers -> WorkerType]
      /\ t \in WorkerType /\ t.at \notin HasJob
  BY WorkersBack DEF Works, EInv, ExportsTypeOK
<1>2. ExportsTypeOK'
  BY <1>1 DEF EInv, ExportsTypeOK
<1>3. \A v \in Workers, k \in Jobs : Owns(v, k)' => Owns(v, k)
  BY <1>1 DEF Owns
<1>4. OneOwner' /\ \A k \in Jobs : JobSound(k)'
  BY <1>3 DEF EInv, OneOwner, JobSound
<1>5. \A v \in Workers : WorkerSound(v)'
  BY <1>1 DEF EInv, WorkerSound, HasJob
<1> QED
  BY <1>2, <1>4, <1>5 DEF EInv

-----------------------------------------------------------------------------
LEMMA ExportsStart == ExportsInit => EInv
<1> SUFFICES ASSUME ExportsInit PROVE EInv
  OBVIOUS
<1>1. \A w \in Workers : worker[w] = Waiting /\ worker[w].at = "waiting"
  BY DEF ExportsInit, Waiting
<1>2. ExportsTypeOK
  BY WorkersBack DEF ExportsInit, ExportsTypeOK
<1>3. OneOwner /\ \A w \in Workers : WorkerSound(w)
  BY <1>1, WorkersBack DEF OneOwner, Owns, WorkerSound
<1>4. \A j \in Jobs : JobSound(j)
  BY DEF ExportsInit, JobSound
<1> QED
  BY <1>2, <1>3, <1>4 DEF EInv

LEMMA CreateExportJobKeeps == EInv /\ CreateExportJob => EInv'
<1> SUFFICES ASSUME EInv, CreateExportJob PROVE EInv'
  OBVIOUS
<1>1. PICK j \in Jobs : /\ job[j] = "none" /\ job' = [job EXCEPT ![j] = "pending"]
                        /\ UNCHANGED <<file, claims, worker>>
  BY DEF CreateExportJob
<1>2. ExportsTypeOK' /\ OneOwner'
  BY <1>1 DEF EInv, ExportsTypeOK, OneOwner, Owns
<1>3. \A k \in Jobs : JobSound(k)'
  BY <1>1 DEF EInv, ExportsTypeOK, JobSound
<1>4. ASSUME NEW w \in Workers PROVE WorkerSound(w)'
  <2>1. worker'[w] = worker[w]
    BY <1>1
  <2>2. CASE worker[w].at \notin HasJob
    BY <2>1, <2>2 DEF WorkerSound, HasJob
  <2>3. CASE worker[w].at \in HasJob
    <3>1. worker[w].job \in Jobs
      BY <2>3, WorkerKinds DEF EInv, ExportsTypeOK
    <3>2. WorkerSound(w)
      BY DEF EInv
    <3>3. job[worker[w].job] # "none"
      BY <2>3, <3>2 DEF WorkerSound, HasJob
    <3>4. job'[worker[w].job] = job[worker[w].job]
      BY <1>1, <3>1, <3>3 DEF EInv, ExportsTypeOK
    <3> QED
      BY <1>1, <3>2, <3>4 DEF WorkerSound
  <2> QED
    BY <2>2, <2>3
<1> QED
  BY <1>2, <1>3, <1>4 DEF EInv

LEMMA ClaimKeeps ==
    ASSUME EInv, NEW w \in Workers, NEW j \in Jobs, ClaimPendingExportJob(w, j)
    PROVE  EInv'
<1> DEFINE t == [at |-> "claiming", job |-> j]
<1>1. /\ worker' = [worker EXCEPT ![w] = t] /\ worker \in [Workers -> WorkerType]
      /\ t \in WorkerType /\ job[j] = "pending" /\ j \notin Locked
      /\ UNCHANGED <<job, file, claims>>
  BY WorkersBack DEF ClaimPendingExportJob, Works, EInv, ExportsTypeOK, HasJob
<1>2. ExportsTypeOK'
  BY <1>1 DEF EInv, ExportsTypeOK
<1>3. ASSUME NEW v \in Workers PROVE ~Owns(v, j)
  <2> SUFFICES ASSUME Owns(v, j) PROVE FALSE
    OBVIOUS
  <2>1. WorkerSound(v) /\ worker[v] \in [at : HasJob, job : Jobs]
    BY WorkerKinds DEF EInv, ExportsTypeOK, Owns
  <2>2. worker[v].at = "claiming"
    BY <1>1, <2>1 DEF Owns, WorkerSound, HasJob
  <2>3. worker[v] = [at |-> "claiming", job |-> j]
    BY <2>1, <2>2 DEF Owns
  <2> QED
    BY <1>1, <2>3 DEF Locked
<1>4. \A v \in Workers, k \in Jobs : Owns(v, k)' => (v # w /\ Owns(v, k)) \/ (v = w /\ k = j)
  BY <1>1 DEF Owns
<1>5. OneOwner'
  BY <1>3, <1>4 DEF EInv, OneOwner
<1>6. \A k \in Jobs : JobSound(k)'
  BY <1>1 DEF EInv, JobSound
<1>7. \A v \in Workers : WorkerSound(v)'
  BY <1>1 DEF EInv, WorkerSound
<1> QED
  BY <1>2, <1>5, <1>6, <1>7 DEF EInv

LEMMA ClaimCommitKeeps ==
    ASSUME EInv, NEW w \in Workers, ClaimCommit(w) PROVE EInv'
<1>0. PICK j \in Jobs : j = worker[w].job
  BY JobOf DEF ClaimCommit, EInv, HasJob
<1>1. /\ Works(w, [at |-> "storing", job |-> j])
      /\ [at |-> "storing", job |-> j] \in WorkerType
  BY <1>0, GoesOn DEF ClaimCommit, EInv, HasJob
<1>2. /\ job[j] = "pending" /\ claims[j] = 0 /\ Owns(w, j)
      /\ job' = [job EXCEPT ![j] = "processing"]
      /\ claims' = [claims EXCEPT ![j] = claims[j] + 1] /\ file' = file
  BY <1>0, <1>1 DEF ClaimCommit, EInv, WorkerSound, JobSound, Owns, HasJob
<1>3. JobSound(j)'
  BY <1>1, <1>2 DEF JobSound, EInv, ExportsTypeOK
<1>4. WorkerSound(w)'
  BY <1>1, <1>2 DEF WorkerSound, Works, EInv, ExportsTypeOK
<1> QED
  BY <1>1, <1>2, <1>3, <1>4, OnOwnJob DEF EInv, ExportsTypeOK

LEMMA CreateFileKeeps ==
    ASSUME EInv, NEW w \in Workers, CreateFile(w) PROVE EInv'
<1>0. PICK j \in Jobs : j = worker[w].job
  BY JobOf DEF CreateFile, EInv, HasJob
<1>1. /\ Works(w, [at |-> "writing", job |-> j])
      /\ [at |-> "writing", job |-> j] \in WorkerType
  BY <1>0, GoesOn DEF CreateFile, EInv, HasJob
<1>2. /\ job[j] = "processing" /\ Owns(w, j)
      /\ file' = [file EXCEPT ![j] = "partial"] /\ job' = job /\ claims' = claims
  BY <1>0, <1>1 DEF CreateFile, EInv, WorkerSound, Owns, HasJob
<1>3. JobSound(j)'
  BY <1>1, <1>2 DEF JobSound, EInv, ExportsTypeOK
<1>4. WorkerSound(w)'
  BY <1>1, <1>2 DEF WorkerSound, Works, EInv, ExportsTypeOK
<1> QED
  BY <1>1, <1>2, <1>3, <1>4, OnOwnJob DEF EInv, ExportsTypeOK

LEMMA WriteFileKeeps ==
    ASSUME EInv, NEW w \in Workers, WriteFile(w) PROVE EInv'
<1>0. PICK j \in Jobs : j = worker[w].job
  BY JobOf DEF WriteFile, EInv, HasJob
<1>1. /\ Works(w, [at |-> "completing", job |-> j])
      /\ [at |-> "completing", job |-> j] \in WorkerType
  BY <1>0, GoesOn DEF WriteFile, EInv, HasJob
<1>2. /\ job[j] = "processing" /\ Owns(w, j)
      /\ file' = [file EXCEPT ![j] = "whole"] /\ job' = job /\ claims' = claims
  BY <1>0, <1>1 DEF WriteFile, EInv, WorkerSound, Owns, HasJob
<1>3. JobSound(j)'
  BY <1>1, <1>2 DEF JobSound, EInv, ExportsTypeOK
<1>4. WorkerSound(w)'
  BY <1>1, <1>2 DEF WorkerSound, Works, EInv, ExportsTypeOK
<1> QED
  BY <1>1, <1>2, <1>3, <1>4, OnOwnJob DEF EInv, ExportsTypeOK

LEMMA ExportFailsKeeps ==
    ASSUME EInv, NEW w \in Workers, ExportFails(w) PROVE EInv'
<1>0. PICK j \in Jobs : j = worker[w].job
  BY JobOf DEF ExportFails, EInv, HasJob
<1>1. /\ Works(w, [at |-> "failing", job |-> j])
      /\ [at |-> "failing", job |-> j] \in WorkerType
  BY <1>0, GoesOn DEF ExportFails, EInv, HasJob
<1>2. /\ job[j] = "processing" /\ Owns(w, j) /\ UNCHANGED <<job, file, claims>>
  BY <1>0, <1>1 DEF ExportFails, EInv, WorkerSound, Owns, HasJob
<1>3. JobSound(j)'
  BY <1>1, <1>2 DEF JobSound, EInv
<1>4. WorkerSound(w)'
  BY <1>1, <1>2 DEF WorkerSound, Works, EInv, ExportsTypeOK
<1> QED
  BY <1>1, <1>2, <1>3, <1>4, OnOwnJob DEF EInv, ExportsTypeOK

LEMMA CompleteKeeps ==
    ASSUME EInv, NEW w \in Workers, CompleteExportJob(w) PROVE EInv'
<1>0. PICK j \in Jobs : j = worker[w].job
  BY JobOf DEF CompleteExportJob, EInv, HasJob
<1>1. worker[w] \in [at : HasJob, job : Jobs]
  BY WorkerKinds DEF CompleteExportJob, EInv, ExportsTypeOK, HasJob
<1>2. /\ job[j] = "processing" /\ file[j] = "whole" /\ Owns(w, j)
      /\ job' = [job EXCEPT ![j] = "completed"] /\ file' = file /\ claims' = claims
  BY <1>0, <1>1 DEF CompleteExportJob, EInv, WorkerSound, Owns, HasJob
<1>3. JobSound(j)'
  BY <1>2 DEF JobSound, EInv, ExportsTypeOK
<1>4. CASE Works(w, Waiting)
  <2>1. WorkerSound(w)'
    BY <1>4 DEF WorkerSound, Works, EInv, ExportsTypeOK, Waiting
  <2> QED
    BY <1>2, <1>3, <1>4, <2>1, OnOwnJob, WorkersBack DEF EInv, ExportsTypeOK
<1>5. CASE On(w, "failing")
  <2>1. /\ Works(w, [at |-> "failing", job |-> j])
        /\ [at |-> "failing", job |-> j] \in WorkerType
    BY <1>0, <1>1, <1>5, GoesOn DEF EInv, HasJob
  <2>2. WorkerSound(w)'
    BY <1>2, <2>1 DEF WorkerSound, Works, EInv, ExportsTypeOK
  <2> QED
    BY <1>2, <1>3, <2>1, <2>2, OnOwnJob DEF EInv, ExportsTypeOK
<1> QED
  BY <1>4, <1>5 DEF CompleteExportJob

LEMMA FailExportJobKeeps ==
    ASSUME EInv, NEW w \in Workers, FailExportJob(w) PROVE EInv'
<1>0. PICK j \in Jobs : j = worker[w].job
  BY JobOf DEF FailExportJob, EInv, HasJob
<1>1. worker[w] \in [at : HasJob, job : Jobs]
  BY WorkerKinds DEF FailExportJob, EInv, ExportsTypeOK, HasJob
<1>2. /\ job[j] \notin {"none", "pending"} /\ Owns(w, j)
      /\ job' \in {job, [job EXCEPT ![j] = "failed"]} /\ file' = file /\ claims' = claims
  BY <1>0, <1>1 DEF FailExportJob, EInv, WorkerSound, Owns, HasJob
<1>3. JobSound(j)'
  BY <1>2 DEF JobSound, EInv, ExportsTypeOK
<1>4. Works(w, Waiting)
  BY DEF FailExportJob
<1>5. WorkerSound(w)'
  BY <1>4 DEF WorkerSound, Works, EInv, ExportsTypeOK, Waiting
<1> QED
  BY <1>2, <1>3, <1>4, <1>5, OnOwnJob, WorkersBack DEF EInv, ExportsTypeOK

-----------------------------------------------------------------------------
LEMMA ExportsSteps == EInv /\ [ExportsNext]_exportVars => EInv'
<1> SUFFICES ASSUME EInv, [ExportsNext]_exportVars PROVE EInv'
  OBVIOUS
<1>1. CASE UNCHANGED exportVars
  BY <1>1 DEF exportVars, EInv, ExportsTypeOK, OneOwner, Owns, JobSound, WorkerSound
<1>2. ASSUME NEW w \in Workers, Die(w) \/ Restart(w) PROVE EInv'
  BY <1>2, LetsGo DEF Die, Restart
<1> QED
  BY <1>1, <1>2, CreateExportJobKeeps, ClaimKeeps, ClaimCommitKeeps, CreateFileKeeps,
     WriteFileKeeps, ExportFailsKeeps, CompleteKeeps, FailExportJobKeeps
     DEF ExportsNext, Process, Proceed

LEMMA ExportsInvariant == ExportsSpec => []EInv
BY ExportsStart, ExportsSteps, PTL DEF ExportsSpec

\* The type invariant of Exports.
THEOREM ExportsTypeCorrect == ExportsSpec => []ExportsTypeOK
<1>1. EInv => ExportsTypeOK
  BY DEF EInv
<1> QED
  BY <1>1, ExportsInvariant, PTL

\* FOR UPDATE SKIP LOCKED hands each job to one worker, ever.
THEOREM JobsAreClaimedOnce == ExportsSpec => []ClaimedOnce
<1>1. EInv => ClaimedOnce
  BY DEF EInv, JobSound, ClaimedOnce, ExportsTypeOK
<1> QED
  BY <1>1, ExportsInvariant, PTL

\* A completed job has its whole file, whichever workers died.
THEOREM CompletedJobsAreStored == ExportsSpec => []CompletedIsStored
<1>1. EInv => CompletedIsStored
  BY DEF EInv, JobSound, CompletedIsStored
<1> QED
  BY <1>1, ExportsInvariant, PTL

-----------------------------------------------------------------------------
(* Tokens *)

OneLive == \A t, u \in Numbered :
    token[t].live /\ token[u].live /\ token[t].family = token[u].family => t = u

LiveIsIssued == \A t \in Numbered : token[t].live => token[t].family \in Families

Rotates(d, t) == device[d].at = "rotating" /\ device[d].token = t

LockedIsLive == \A d \in Devices, t \in Numbered : Rotates(d, t) =>
    /\ token[t].live
    /\ \A b \in Devices : Rotates(b, t) => b = d

TInv == TokensTypeOK /\ OneLive /\ LiveIsIssued /\ LockedIsLive

-----------------------------------------------------------------------------
TokenType == [family : Families \cup {"none"}, live : BOOLEAN]
DeviceType ==
    {AtRest} \cup [at : {"rotate", "rotating"}, token : Numbered]
    \cup [at : {"logout"}, family : Families]
    \cup [at : {"revoking"}, tokens : SUBSET Numbered]

\* What a request remembers is told by the step it is at.
LEMMA DeviceKinds ==
    ASSUME NEW t \in DeviceType
    PROVE  /\ t.at \in {"rotate", "rotating"} =>
                t \in [at : {"rotate", "rotating"}, token : Numbered]
           /\ t.at = "logout" => t.family \in Families
           /\ t.at = "revoking" => t.tokens \subseteq Numbered
BY DEF DeviceType, AtRest

LEMMA DevicesBack ==
    /\ AtRest \in DeviceType /\ AtRest.at = "rest"
    /\ \A a \in {"rotate", "rotating"}, t \in Numbered : [at |-> a, token |-> t] \in DeviceType
    /\ \A f \in Families : [at |-> "logout", family |-> f] \in DeviceType
    /\ \A T \in SUBSET Numbered : [at |-> "revoking", tokens |-> T] \in DeviceType
BY DEF DeviceType, AtRest

LEMMA TokensTypes ==
    TokensTypeOK <=> token \in [Numbered -> TokenType] /\ device \in [Devices -> DeviceType]
BY DEF TokensTypeOK, TokenType, DeviceType

LEMMA LocksAreRotations ==
    ASSUME TokensTypeOK
    PROVE  \A t \in Numbered : t \in RowLocks <=> \E d \in Devices : Rotates(d, t)
<1> SUFFICES ASSUME NEW t \in Numbered, NEW d \in Devices
             PROVE  device[d] = [at |-> "rotating", token |-> t] <=> Rotates(d, t)
  BY DEF RowLocks
<1>1. device[d].at = "rotating" => device[d] \in [at : {"rotate", "rotating"}, token : Numbered]
  BY TokensTypes, DeviceKinds
<1> QED
  BY <1>1 DEF Rotates

\* A request remembers what does not lock a row.
LEMMA Turns ==
    ASSUME TInv, NEW d \in Devices, NEW s \in DeviceType, Turn(d, s),
           s.at # "rotating", token' = token
    PROVE  TInv'
<1>1. device' = [device EXCEPT ![d] = s] /\ device \in [Devices -> DeviceType]
  BY TokensTypes DEF Turn, TInv
<1>2. TokensTypeOK'
  BY <1>1 DEF TInv, TokensTypeOK, DeviceType
<1>3. \A b \in Devices, t \in Numbered : Rotates(b, t)' => Rotates(b, t)
  BY <1>1 DEF Rotates
<1> QED
  BY <1>2, <1>3 DEF TInv, OneLive, LiveIsIssued, LockedIsLive

\* Tokens are only ever revoked, and none whose row is locked.
LEMMA Revokes ==
    ASSUME TInv, token' \in [Numbered -> TokenType], device' \in [Devices -> DeviceType],
           \A t \in Numbered : /\ token'[t].live => token'[t] = token[t]
                               /\ t \in RowLocks => token'[t] = token[t],
           \A d \in Devices, t \in Numbered : Rotates(d, t)' => Rotates(d, t)
    PROVE  TInv'
<1>1. TokensTypeOK'
  BY DEF TokensTypeOK, TokenType, DeviceType
<1>2. OneLive' /\ LiveIsIssued'
  BY DEF TInv, OneLive, LiveIsIssued
<1>3. \A d \in Devices, t \in Numbered : Rotates(d, t)' => t \in RowLocks
  BY LocksAreRotations DEF TInv
<1>4. LockedIsLive'
  BY <1>3 DEF TInv, LockedIsLive
<1> QED
  BY <1>1, <1>2, <1>4 DEF TInv

-----------------------------------------------------------------------------
LEMMA TokensStart == TokensInit => TInv
<1> SUFFICES ASSUME TokensInit PROVE TInv
  OBVIOUS
<1>1. /\ \A t \in Numbered : token[t] = Unissued /\ ~token[t].live
      /\ \A d \in Devices : device[d] = AtRest /\ device[d].at = "rest"
  BY DEF TokensInit, Unissued, AtRest
<1>2. TokensTypeOK
  BY DEF TokensInit, TokensTypeOK, Unissued
<1> QED
  BY <1>1, <1>2 DEF TInv, OneLive, LiveIsIssued, LockedIsLive, Rotates

LEMMA GenerateTokensKeeps ==
    ASSUME TInv, NEW f \in Families, GenerateTokens(f) PROVE TInv'
<1>1. PICK t \in Numbered :
        /\ token[t] = Unissued /\ \A u \in Numbered : token[u].family # f
        /\ token' = [token EXCEPT ![t] = [family |-> f, live |-> TRUE]]
        /\ device' = device
  BY DEF GenerateTokens, IsNext
<1>2. token \in [Numbered -> TokenType]
  BY TokensTypes DEF TInv
<1>3. \A u \in Numbered : token'[u] = IF u = t THEN [family |-> f, live |-> TRUE] ELSE token[u]
  BY <1>1, <1>2
<1>4. TokensTypeOK'
  BY <1>1 DEF TInv, TokensTypeOK
<1>5. OneLive' /\ LiveIsIssued'
  BY <1>1, <1>3 DEF TInv, OneLive, LiveIsIssued
<1>6. LockedIsLive'
  BY <1>1, <1>3 DEF TInv, LockedIsLive, Rotates
<1> QED
  BY <1>4, <1>5, <1>6 DEF TInv

LEMMA ReplaceRefreshTokenKeeps ==
    ASSUME TInv, NEW d \in Devices, ReplaceRefreshToken(d) PROVE TInv'
<1>1. device \in [Devices -> DeviceType]
  BY TokensTypes DEF TInv
<1>2. PICK t \in Numbered :
        /\ t = device[d].token /\ t \notin RowLocks /\ token[t].live /\ token' = token
        /\ device' = [device EXCEPT ![d] = [at |-> "rotating", token |-> t]]
  <2>1. device[d] \in [at : {"rotate", "rotating"}, token : Numbered]
    BY <1>1, DeviceKinds DEF ReplaceRefreshToken
  <2>2. [device[d] EXCEPT !.at = "rotating"] = [at |-> "rotating", token |-> device[d].token]
    BY <2>1
  <2> QED
    BY <2>1, <2>2 DEF ReplaceRefreshToken, Turn
<1>3. TokensTypeOK'
  BY <1>1, <1>2 DEF TInv, TokensTypeOK, DeviceType
<1>4. \A b \in Devices, u \in Numbered :
        Rotates(b, u)' => (b # d /\ Rotates(b, u)) \/ (b = d /\ u = t)
  BY <1>1, <1>2 DEF Rotates
<1>5. \A b \in Devices : ~Rotates(b, t)
  BY <1>2, LocksAreRotations DEF TInv
<1>6. LockedIsLive'
  BY <1>2, <1>4, <1>5 DEF TInv, LockedIsLive
<1> QED
  BY <1>2, <1>3, <1>6 DEF TInv, OneLive, LiveIsIssued

LEMMA ReplaceCommitKeeps ==
    ASSUME TInv, NEW d \in Devices, ReplaceCommit(d) PROVE TInv'
<1>1. /\ device \in [Devices -> DeviceType] /\ token \in [Numbered -> TokenType]
      /\ device[d].token \in Numbered
  BY TokensTypes, DeviceKinds DEF TInv, ReplaceCommit
<1>2. PICK old \in Numbered, t \in Numbered :
        /\ Rotates(d, old) /\ token[t] = Unissued
        /\ token' = [token EXCEPT ![old].live = FALSE,
                                  ![t] = [family |-> token[old].family, live |-> TRUE]]
        /\ device' = [device EXCEPT ![d] = AtRest]
  BY <1>1 DEF ReplaceCommit, IsNext, Rotates, Turn
<1>3. /\ token[old].live /\ token[old].family \in Families
      /\ ~token[t].live /\ t # old
      /\ \A b \in Devices : Rotates(b, old) => b = d
  BY <1>2 DEF TInv, LockedIsLive, LiveIsIssued, Unissued
<1>4. /\ token'[t] = [family |-> token[old].family, live |-> TRUE]
      /\ token'[old] = [token[old] EXCEPT !.live = FALSE]
      /\ token'[old].family = token[old].family /\ ~token'[old].live
      /\ \A u \in Numbered \ {t, old} : token'[u] = token[u]
  BY <1>1, <1>2, <1>3 DEF TokenType
<1>5. token' \in [Numbered -> TokenType] /\ device' \in [Devices -> DeviceType]
  <2>1. token'[t] \in TokenType
    BY <1>3, <1>4 DEF TokenType
  <2>2. token'[old] \in TokenType
    BY <1>1, <1>4 DEF TokenType
  <2>3. \A u \in Numbered : token'[u] \in TokenType
    BY <1>1, <1>4, <2>1, <2>2
  <2>4. token' \in [Numbered -> TokenType]
    BY <1>1, <1>2, <2>3
  <2> QED
    BY <2>4, <1>1, <1>2, DevicesBack
<1>6. OneLive' /\ LiveIsIssued'
  <2>0. token'[t].family = token[old].family
    BY <1>4
  <2>1. ASSUME NEW u \in Numbered, token'[u].live, u # t
        PROVE  u # old /\ token[u].live /\ token'[u] = token[u]
    <3>1. u # old
      BY <1>4, <2>1
    <3>2. token'[u] = token[u]
      BY <1>4, <2>1, <3>1
    <3> QED
      BY <2>1, <3>1, <3>2
  <2>2. \A u \in Numbered : token'[u].live /\ u # t => token[u].family # token[old].family
    BY <2>1, <1>3 DEF TInv, OneLive
  <2> QED
    BY <2>0, <2>1, <2>2, <1>3 DEF TInv, OneLive, LiveIsIssued
<1>7. \A b \in Devices, u \in Numbered : Rotates(b, u)' => b # d /\ Rotates(b, u)
  BY <1>1, <1>2, DevicesBack DEF Rotates
<1>8. LockedIsLive'
  <2> SUFFICES ASSUME NEW b \in Devices, NEW u \in Numbered, Rotates(b, u)'
               PROVE  token'[u].live /\ \A c \in Devices : Rotates(c, u)' => c = b
    BY DEF LockedIsLive
  <2>1. b # d /\ Rotates(b, u) /\ token[u].live
    BY <1>7 DEF TInv, LockedIsLive
  <2>2. u # old /\ u # t
    BY <2>1, <1>3
  <2>3. token'[u] = token[u]
    BY <2>2, <1>4
  <2> QED
    BY <2>1, <2>3, <1>7 DEF TInv, LockedIsLive
<1> QED
  BY <1>5, <1>6, <1>8 DEF TInv, TokensTypeOK, TokenType, DeviceType

LEMMA RevokeCommitKeeps ==
    ASSUME TInv, NEW d \in Devices, RevokeCommit(d) PROVE TInv'
<1>1. /\ device \in [Devices -> DeviceType] /\ token \in [Numbered -> TokenType]
  BY TokensTypes DEF TInv
<1>2. /\ device' = [device EXCEPT ![d] = AtRest]
      /\ device[d].tokens \cap RowLocks = {}
      /\ \A t \in Numbered : token'[t] =
            IF t \in device[d].tokens THEN [token[t] EXCEPT !.live = FALSE] ELSE token[t]
  BY DEF RevokeCommit, Turn
<1>3. token' \in [Numbered -> TokenType]
  BY <1>1 DEF RevokeCommit, TokenType
<1>4. device' \in [Devices -> DeviceType]
  BY <1>1, <1>2, DevicesBack
<1>5. \A t \in Numbered : /\ token'[t].live => token'[t] = token[t]
                          /\ t \in RowLocks => token'[t] = token[t]
  <2> SUFFICES ASSUME NEW t \in Numbered, t \in device[d].tokens
               PROVE  ~token'[t].live
    BY <1>2
  <2>1. token'[t] = [token[t] EXCEPT !.live = FALSE] /\ token[t] \in TokenType
    BY <1>1, <1>2
  <2> QED
    BY <2>1 DEF TokenType
<1>6. \A b \in Devices, t \in Numbered : Rotates(b, t)' => Rotates(b, t)
  BY <1>1, <1>2, DevicesBack DEF Rotates
<1> QED
  BY <1>3, <1>4, <1>5, <1>6, Revokes

-----------------------------------------------------------------------------
LEMMA TokensSteps == TInv /\ [TokensNext]_tokenVars => TInv'
<1> SUFFICES ASSUME TInv, [TokensNext]_tokenVars PROVE TInv'
  OBVIOUS
<1>1. CASE UNCHANGED tokenVars
  BY <1>1 DEF tokenVars, TInv, TokensTypeOK, OneLive, LiveIsIssued, LockedIsLive, Rotates
<1>2. ASSUME NEW d \in Devices, NEW t \in Numbered, RefreshToken(d, t) PROVE TInv'
  <2>1. [at |-> "rotate", token |-> t].at # "rotating"
    OBVIOUS
  <2> QED
    BY <1>2, <2>1, Turns, DevicesBack DEF RefreshToken
<1>3. ASSUME NEW d \in Devices, NEW t \in Numbered, Logout(d, t) PROVE TInv'
  <2>1. token[t].family \in Families
    BY <1>3 DEF Logout, TInv, LiveIsIssued
  <2>2. [at |-> "logout", family |-> token[t].family].at # "rotating"
    OBVIOUS
  <2> QED
    BY <1>3, <2>1, <2>2, Turns, DevicesBack DEF Logout
<1>4. ASSUME NEW d \in Devices, RevokeRefreshTokenFamily(d) PROVE TInv'
  <2>1. Live(device[d].family) \in SUBSET Numbered
    BY DEF Live
  <2>2. \A T \in SUBSET Numbered : [at |-> "revoking", tokens |-> T].at # "rotating"
    OBVIOUS
  <2> QED
    BY <1>4, <2>1, <2>2, Turns, DevicesBack DEF RevokeRefreshTokenFamily
<1>5. ASSUME NEW d \in Devices, Abandon(d) PROVE TInv'
  BY <1>5, Turns, DevicesBack DEF Abandon
<1> QED
  BY <1>1, <1>2, <1>3, <1>4, <1>5, GenerateTokensKeeps, ReplaceRefreshTokenKeeps,
     ReplaceCommitKeeps, RevokeCommitKeeps DEF TokensNext

LEMMA TokensInvariant == TokensSpec => []TInv
BY TokensStart, TokensSteps, PTL DEF TokensSpec

\* Refreshes and logouts that race leave a family one token that works at most:
\* ReplaceRefreshToken revokes the old row and inserts its successor at once.
THEOREM OneTokenPerFamily == TokensSpec => []OneLivePerFamily
<1>1. TInv => OneLivePerFamily
  <2> SUFFICES ASSUME TInv, NEW f \in Families PROVE Cardinality(Live(f)) <= 1
    BY DEF OneLivePerFamily
  <2>1. \A t, u \in Live(f) : t = u
    BY DEF Live, TInv, OneLive
  <2>2. CASE Live(f) = {}
    BY <2>2, FS_EmptySet
  <2>3. CASE Live(f) # {}
    <3>1. PICK t \in Live(f) : TRUE
      BY <2>3
    <3>2. Live(f) = {t}
      BY <2>1, <3>1
    <3>3. Cardinality({t}) = 1
      BY FS_Singleton
    <3> QED
      BY <3>2, <3>3
  <2> QED
    BY <2>2, <2>3
<1> QED
  BY <1>1, TokensInvariant, PTL

-----------------------------------------------------------------------------
(* Contracts and Publishing *)

LEMMA CountTo ==
    ASSUME NEW k \in Nat PROVE Cardinality(1..k) = k
BY FS_Interval

\* A table with one more entry is the sequence with one more element.
LEMMA OneMore ==
    ASSUME NEW S, NEW k \in Nat, NEW f, NEW g, NEW x \in S,
           \A n \in 1..k : f[n] \in S /\ g[n] = f[n], g[k + 1] = x
    PROVE  [n \in 1..(k + 1) |-> g[n]] = Append([n \in 1..k |-> f[n]], x)
<1> DEFINE s == [n \in 1..k |-> f[n]]
           t == [n \in 1..(k + 1) |-> g[n]]
<1>1. s \in Seq(S) /\ Len(s) = k
  OBVIOUS
<1>2. t \in Seq(S) /\ Len(t) = k + 1
  OBVIOUS
<1>3. Append(s, x) \in Seq(S) /\ Len(Append(s, x)) = k + 1
  BY <1>1
<1>4. \A n \in 1..(k + 1) : t[n] = Append(s, x)[n]
  BY <1>1
<1> QED
  BY <1>2, <1>3, <1>4

LEMMA NoneYet == ASSUME NEW f PROVE [n \in 1..0 |-> f[n]] = <<>>
OBVIOUS

-----------------------------------------------------------------------------
(* Contracts *)

Minting(k) == /\ k \in Nat /\ k <= LastContract
              /\ Minted = 1..k
              /\ CurrentContracts = IF k = 0 THEN {} ELSE {k}
              /\ \A n \in 1..k : contract[n].terms \in Terms

MintedSoFar ==
    /\ ContractsTypeOK
    /\ Minting(CurrentContractVersion)
    /\ \A a \in Actors : minting[a].at = "mint" =>
         minting[a].version \in 1..(CurrentContractVersion + 1)

MintType == {NotMinting} \cup [at : {"mint"}, version : Nat, terms : Terms]

LEMMA MintKinds ==
    ASSUME NEW t \in MintType, t.at = "mint"
    PROVE  t.version \in Nat /\ t.terms \in Terms
BY DEF MintType, NotMinting

LEMMA ContractsStart == ContractsInit => MintedSoFar /\ ContractLog!LogInit
<1> SUFFICES ASSUME ContractsInit PROVE MintedSoFar /\ ContractLog!LogInit
  OBVIOUS
<1>1. Minted = {} /\ CurrentContracts = {}
  BY DEF ContractsInit, Minted, CurrentContracts, NoContract
<1>2. CurrentContractVersion = 0
  BY <1>1, FS_EmptySet DEF CurrentContractVersion
<1>3. ContractsTypeOK
  BY DEF ContractsInit, ContractsTypeOK, NoContract
<1>4. Minting(0)
  BY <1>1, LastContractAssumption DEF Minting
<1>5. TermsLog = <<>>
  BY <1>2 DEF TermsLog
<1>6. \A a \in Actors : minting[a].at # "mint"
  BY DEF ContractsInit, NotMinting
<1> QED
  BY <1>1, <1>2, <1>3, <1>4, <1>5, <1>6 DEF MintedSoFar, ContractLog!LogInit

\* Whoever mints has the next version: an older one is taken.
LEMMA MintsTheNext ==
    ASSUME MintedSoFar, NEW a \in Actors, MintContract(a)
    PROVE  /\ minting[a].version = CurrentContractVersion + 1
           /\ minting[a].terms \in Terms
           /\ CurrentContractVersion \in Nat
           /\ CurrentContractVersion + 1 \in Versions
<1> DEFINE v == minting[a].version
<1>1. minting[a] \in MintType
  BY DEF MintedSoFar, ContractsTypeOK, MintType
<1>2. /\ v \in Versions /\ contract[v] = NoContract /\ v \in 1..(CurrentContractVersion + 1)
      /\ CurrentContractVersion \in Nat /\ Minted = 1..CurrentContractVersion
  BY DEF MintContract, MintedSoFar, Minting
<1>3. v \notin 1..CurrentContractVersion
  BY <1>2 DEF Minted
<1> QED
  BY <1>1, <1>2, <1>3, MintKinds DEF MintContract

LEMMA MintContractKeeps ==
    ASSUME MintedSoFar, NEW a \in Actors, MintContract(a)
    PROVE  MintedSoFar' /\ ContractLog!NewVersion
<1>1. PICK k \in Nat : k = CurrentContractVersion
  BY MintsTheNext
<1>2. PICK x \in Terms : x = minting[a].terms
  BY MintsTheNext
<1>3. /\ contract' = [n \in Versions |->
            IF n = k + 1 THEN [terms |-> x, current |-> TRUE]
                         ELSE [terms |-> contract[n].terms, current |-> FALSE]]
      /\ minting' = [minting EXCEPT ![a] = NotMinting]
  <2>1. minting[a].version = k + 1 /\ minting[a].terms = x
    BY <1>1, <1>2, MintsTheNext
  <2> QED
    BY <2>1 DEF MintContract
<1>4. contract \in [Versions -> [terms : Terms \cup {NoTerms}, current : BOOLEAN]]
  BY DEF MintedSoFar, ContractsTypeOK
<1>5. /\ Minted = 1..k /\ k <= LastContract
      /\ CurrentContracts = IF k = 0 THEN {} ELSE {k}
      /\ \A n \in 1..k : contract[n].terms \in Terms
      /\ k + 1 \in Versions /\ k + 1 <= LastContract
      /\ \A n \in 1..k : n \in Versions /\ n # k + 1
      /\ \A n \in 1..(k + 1) : n = k + 1 \/ n \in 1..k
  <2>1. Minting(k)
    BY <1>1 DEF MintedSoFar
  <2>2. k + 1 \in Versions
    BY <1>1, MintsTheNext
  <2> QED
    BY <2>1, <2>2, LastContractAssumption DEF Minting, Versions
<1>6. /\ contract'[k + 1].terms = x /\ contract'[k + 1].current
      /\ \A n \in Versions \ {k + 1} :
           contract'[n].terms = contract[n].terms /\ ~contract'[n].current
  BY <1>3, <1>4, <1>5
<1>7. contract' \in [Versions -> [terms : Terms \cup {NoTerms}, current : BOOLEAN]]
  <2>1. \A n \in Versions : [terms |-> contract[n].terms, current |-> FALSE]
                                \in [terms : Terms \cup {NoTerms}, current : BOOLEAN]
    BY <1>4
  <2> QED
    BY <1>3, <2>1
<1>8. \A n \in 1..k : contract[n].terms \in Terms /\ contract'[n].terms = contract[n].terms
  BY <1>5, <1>6
<1>9. Minted' = 1..(k + 1)
  <2>1. ASSUME NEW n \in 1..(k + 1) PROVE n \in Minted'
    <3>1. contract'[n].terms \in Terms /\ n \in Versions
      BY <1>5, <1>6, <1>8
    <3>2. contract'[n] # NoContract
      BY <3>1, LastContractAssumption DEF NoContract, NoTerms
    <3> QED
      BY <3>1, <3>2 DEF Minted
  <2>2. ASSUME NEW n \in Versions, n \notin 1..(k + 1) PROVE contract'[n] = NoContract
    <3>1. contract[n] = NoContract
      BY <2>2, <1>5 DEF Minted, Versions
    <3>2. contract'[n] = [terms |-> contract[n].terms, current |-> FALSE]
      BY <1>3, <1>5, <2>2
    <3> QED
      BY <3>1, <3>2 DEF NoContract
  <2> QED
    BY <2>1, <2>2 DEF Minted
<1>10. CurrentContractVersion' = k + 1
  BY <1>9, CountTo DEF CurrentContractVersion
<1>11. CurrentContracts' = {k + 1}
  BY <1>5, <1>6 DEF CurrentContracts
<1>12. TermsLog' = Append(TermsLog, x)
  <2>1. TermsLog = [n \in 1..k |-> contract[n].terms]
    BY <1>1 DEF TermsLog
  <2>2. TermsLog' = [n \in 1..(k + 1) |-> contract'[n].terms]
    BY <1>10 DEF TermsLog
  <2> DEFINE f == [n \in 1..k |-> contract[n].terms]
             g == [n \in 1..(k + 1) |-> contract'[n].terms]
  <2>3. \A n \in 1..k : f[n] \in Terms /\ g[n] = f[n]
    BY <1>8
  <2>4. g[k + 1] = x
    BY <1>6
  <2> HIDE DEF f, g
  <2>5. [n \in 1..(k + 1) |-> g[n]] = Append([n \in 1..k |-> f[n]], x)
    BY <2>3, <2>4, OneMore
  <2> QED
    BY <2>1, <2>2, <2>5 DEF f, g
<1>13. Len(TermsLog) = k
  BY <1>1 DEF TermsLog
<1>14. ContractsTypeOK'
  BY <1>3, <1>7 DEF MintedSoFar, ContractsTypeOK
<1>15. Minting(k + 1)'
  BY <1>5, <1>6, <1>8, <1>9, <1>11 DEF Minting
<1>16. ASSUME NEW b \in Actors, minting'[b].at = "mint"
       PROVE  minting'[b].version \in 1..(k + 2)
  <2>1. minting'[b] = minting[b] /\ minting[b].at = "mint"
    BY <1>3, <1>16 DEF MintedSoFar, ContractsTypeOK, NotMinting
  <2>2. minting[b].version \in 1..(k + 1)
    BY <1>1, <2>1 DEF MintedSoFar
  <2> QED
    BY <2>1, <2>2
<1> QED
  BY <1>10, <1>11, <1>12, <1>13, <1>14, <1>15, <1>16 DEF MintedSoFar, ContractLog!NewVersion

LEMMA SetContractKeeps ==
    ASSUME MintedSoFar, NEW a \in Actors, NEW t \in Terms, SetContract(a, t)
    PROVE  MintedSoFar'
<1>1. /\ CurrentContractVersion \in Nat
      /\ minting' = [minting EXCEPT ![a] =
            [at |-> "mint", version |-> CurrentContractVersion + 1, terms |-> t]]
      /\ UNCHANGED contract
  BY DEF SetContract, MintedSoFar, Minting
<1>2. ContractsTypeOK'
  BY <1>1 DEF MintedSoFar, ContractsTypeOK
<1>3. UNCHANGED <<CurrentContractVersion, Minted, CurrentContracts>>
  BY <1>1 DEF CurrentContractVersion, Minted, CurrentContracts
<1>4. Minting(CurrentContractVersion)'
  BY <1>1, <1>3 DEF MintedSoFar, Minting
<1> QED
  BY <1>1, <1>2, <1>3, <1>4 DEF MintedSoFar, ContractsTypeOK

LEMMA MintingFailsKeeps ==
    ASSUME MintedSoFar, NEW a \in Actors, MintingFails(a) PROVE MintedSoFar'
<1>1. minting' = [minting EXCEPT ![a] = NotMinting] /\ UNCHANGED contract
  BY DEF MintingFails
<1>2. ContractsTypeOK'
  BY <1>1 DEF MintedSoFar, ContractsTypeOK
<1>3. UNCHANGED <<CurrentContractVersion, Minted, CurrentContracts>>
  BY <1>1 DEF CurrentContractVersion, Minted, CurrentContracts
<1>4. Minting(CurrentContractVersion)'
  BY <1>1, <1>3 DEF MintedSoFar, Minting
<1> QED
  BY <1>1, <1>2, <1>3, <1>4 DEF MintedSoFar, ContractsTypeOK, NotMinting

LEMMA ContractsSteps ==
    ASSUME MintedSoFar, [ContractsNext]_contractVars
    PROVE  MintedSoFar' /\ [ContractLog!NewVersion]_<<TermsLog, CurrentContracts>>
<1>0. ASSUME MintedSoFar, UNCHANGED contract
      PROVE  UNCHANGED <<TermsLog, CurrentContracts>>
  BY <1>0 DEF TermsLog, CurrentContracts, CurrentContractVersion, Minted
<1>1. CASE UNCHANGED contractVars
  <2>1. UNCHANGED <<contract, minting>>
    BY <1>1 DEF contractVars
  <2>2. MintedSoFar'
    BY <2>1 DEF MintedSoFar, ContractsTypeOK, Minting, CurrentContractVersion,
                      Minted, CurrentContracts
  <2> QED
    BY <1>0, <2>1, <2>2
<1>2. ASSUME NEW a \in Actors, NEW t \in Terms, SetContract(a, t)
      PROVE  MintedSoFar' /\ UNCHANGED <<TermsLog, CurrentContracts>>
  BY <1>0, <1>2, SetContractKeeps DEF SetContract
<1>3. ASSUME NEW a \in Actors, MintingFails(a)
      PROVE  MintedSoFar' /\ UNCHANGED <<TermsLog, CurrentContracts>>
  BY <1>0, <1>3, MintingFailsKeeps DEF MintingFails
<1> QED
  BY <1>1, <1>2, <1>3, MintContractKeeps DEF ContractsNext

\* SetContract implements a log of versions: whatever read of an older version
\* it raced with, it mints the next one and deactivates all others.
THEOREM ContractsImplementTheLog == ContractsSpec => ContractsAreALog
BY ContractsStart, ContractsSteps, PTL
   DEF ContractsSpec, ContractsAreALog, ContractLog!LogSpec

-----------------------------------------------------------------------------
(* Publishing *)

PublishedVersions == {n \in Numbers : version[n].status = "published"}

Released(k) == /\ k \in Nat /\ k <= LastVersion
               /\ Existing = 1..k
               /\ document.current = k
               /\ PublishedVersions = IF k = 0 THEN {} ELSE {k}
               /\ \A n \in 1..k : version[n].text \in Drafts

ReadIsCounted(e) == editor[e].at = "edit" => editor[e].updated = editor[e].writes

ReleasedSoFar ==
    /\ PublishingTypeOK
    /\ Released(Cardinality(Existing))
    /\ document.updated = writes
    /\ \A e \in Editors : ReadIsCounted(e)

LEMMA InForceAreCounted ==
    ASSUME NEW k \in Nat, Released(k)
    PROVE  VersionsInForce = IF k = 0 THEN {} ELSE {k}
BY DEF Released, VersionsInForce, PublishedVersions

LEMMA PublishingStarts == PublishingInit => ReleasedSoFar /\ DocumentLog!LogInit
<1> SUFFICES ASSUME PublishingInit PROVE ReleasedSoFar /\ DocumentLog!LogInit
  OBVIOUS
<1>1. Existing = {} /\ PublishedVersions = {}
  BY DEF PublishingInit, Existing, PublishedVersions, NoVersion
<1>2. Cardinality(Existing) = 0
  BY <1>1, FS_EmptySet
<1>3. PublishingTypeOK
  BY DEF PublishingInit, PublishingTypeOK, NoVersion
<1>4. document.current = 0 /\ document.updated = 0 /\ writes = 0
  BY DEF PublishingInit
<1>5. Released(0)
  BY <1>1, <1>4, LastVersionAssumption DEF Released
<1>6. VersionTexts = <<>>
  BY <1>2 DEF VersionTexts
<1>7. VersionsInForce = {}
  BY <1>5, InForceAreCounted
<1>8. \A e \in Editors : ReadIsCounted(e)
  BY DEF PublishingInit, ReadIsCounted, NotEditing
<1> QED
  BY <1>2, <1>3, <1>4, <1>5, <1>6, <1>7, <1>8 DEF ReleasedSoFar, DocumentLog!LogInit

LEMMA PublishKeeps ==
    ASSUME ReleasedSoFar, PublishLegalDocumentDraft
    PROVE  ReleasedSoFar' /\ DocumentLog!NewVersion
<1>1. PICK k \in Nat : k = Cardinality(Existing) /\ Released(k)
  BY DEF ReleasedSoFar, Released
<1>2. PICK x \in Drafts : x = document.draft
  BY DEF PublishLegalDocumentDraft, ReleasedSoFar, PublishingTypeOK
<1>3. /\ k + 1 \in Numbers
      /\ version' = [m \in Numbers |->
            IF m = k + 1 THEN [text |-> x, status |-> "published"]
            ELSE IF version[m].status = "published"
                 THEN [version[m] EXCEPT !.status = "superseded"] ELSE version[m]]
      /\ document' = [draft |-> NoDraft, current |-> k + 1, updated |-> writes + 1]
      /\ writes' = writes + 1
      /\ UNCHANGED editor
  BY <1>1, <1>2 DEF PublishLegalDocumentDraft, GetNextVersion
<1>4. /\ version \in [Numbers -> [text : Drafts \cup {NoDraft},
                                  status : {"none", "published", "superseded"}]]
      /\ writes \in Nat
  BY DEF ReleasedSoFar, PublishingTypeOK
<1>5. /\ \A n \in 1..k : n \in Numbers /\ n # k + 1
      /\ \A n \in 1..(k + 1) : n = k + 1 \/ n \in 1..k
      /\ k + 1 <= LastVersion /\ 1..k \subseteq 1..(k + 1) /\ k + 1 \in 1..(k + 1)
  BY <1>1, <1>3, LastVersionAssumption DEF Released, Numbers
<1>6. /\ version'[k + 1].text = x /\ version'[k + 1].status = "published"
      /\ \A n \in Numbers \ {k + 1} :
           /\ version'[n].text = version[n].text /\ version'[n].status # "published"
           /\ version'[n].status = "none" <=> version[n].status = "none"
  BY <1>3, <1>4
<1>7. version' \in [Numbers -> [text : Drafts \cup {NoDraft},
                               status : {"none", "published", "superseded"}]]
  <2>1. \A n \in Numbers : [version[n] EXCEPT !.status = "superseded"] \in
          [text : Drafts \cup {NoDraft}, status : {"none", "published", "superseded"}]
    BY <1>4
  <2>2. [text |-> x, status |-> "published"] \in
          [text : Drafts \cup {NoDraft}, status : {"none", "published", "superseded"}]
    OBVIOUS
  <2> QED
    BY <1>3, <1>4, <2>1, <2>2
<1>8. \A n \in 1..k : version[n].text \in Drafts /\ version'[n].text = version[n].text
  BY <1>1, <1>5, <1>6 DEF Released
<1>9. Existing' = 1..(k + 1)
  <2>1. ASSUME NEW n \in 1..(k + 1) PROVE n \in Existing'
    <3>1. CASE n = k + 1
      BY <3>1, <1>3, <1>6 DEF Existing
    <3>2. CASE n \in 1..k
      <4>1. n \in Existing
        BY <3>2, <1>1 DEF Released
      <4> QED
        BY <3>2, <4>1, <1>5, <1>6 DEF Existing
    <3> QED
      BY <3>1, <3>2, <1>5
  <2>2. ASSUME NEW n \in Numbers, n \notin 1..(k + 1) PROVE n \notin Existing'
    <3>1. n \notin 1..k /\ n # k + 1
      BY <2>2, <1>5
    <3>2. n \notin Existing
      BY <3>1, <1>1 DEF Released
    <3> QED
      BY <3>1, <3>2, <1>6 DEF Existing
  <2> QED
    BY <2>1, <2>2 DEF Existing
<1>10. Cardinality(Existing)' = k + 1
  BY <1>9, CountTo
<1>11. PublishedVersions' = {k + 1}
  BY <1>3, <1>6 DEF PublishedVersions
<1>12. Released(k + 1)'
  <2>1. document'.current = k + 1
    BY <1>3
  <2>2. \A n \in 1..(k + 1) : version'[n].text \in Drafts
    BY <1>5, <1>6, <1>8
  <2> QED
    BY <2>1, <2>2, <1>5, <1>9, <1>11 DEF Released
<1>13. VersionsInForce' = {k + 1}
  BY <1>3, <1>11 DEF VersionsInForce, PublishedVersions
<1>14. VersionTexts' = Append(VersionTexts, x)
  <2> DEFINE f == [n \in 1..k |-> version[n].text]
             g == [n \in 1..(k + 1) |-> version'[n].text]
  <2>1. VersionTexts = f
    BY <1>1 DEF VersionTexts
  <2>2. VersionTexts' = g
    BY <1>10 DEF VersionTexts
  <2>3. \A n \in 1..k : f[n] \in Drafts /\ g[n] = f[n]
    BY <1>8
  <2>4. g[k + 1] = x
    BY <1>6
  <2>5. f = [n \in 1..k |-> f[n]] /\ g = [n \in 1..(k + 1) |-> g[n]]
    OBVIOUS
  <2> HIDE DEF f, g
  <2>6. [n \in 1..(k + 1) |-> g[n]] = Append([n \in 1..k |-> f[n]], x)
    BY <2>3, <2>4, OneMore
  <2> QED
    BY <2>1, <2>2, <2>5, <2>6
<1>15. Len(VersionTexts) = k
  BY <1>1 DEF VersionTexts
<1>16. PublishingTypeOK'
  BY <1>3, <1>4, <1>7 DEF ReleasedSoFar, PublishingTypeOK
<1>17. document'.updated = writes' /\ \A e \in Editors : ReadIsCounted(e)'
  BY <1>3 DEF ReleasedSoFar, ReadIsCounted
<1>18. DocumentLog!NewVersion
  BY <1>13, <1>14, <1>15 DEF DocumentLog!NewVersion
<1> QED
  BY <1>10, <1>12, <1>16, <1>17, <1>18 DEF ReleasedSoFar

\* Every other step leaves the versions alone.
LEMMA VersionsStay ==
    ASSUME ReleasedSoFar, UNCHANGED version, document'.current = document.current,
           PublishingTypeOK', document'.updated = writes',
           \A e \in Editors : ReadIsCounted(e)'
    PROVE  ReleasedSoFar' /\ UNCHANGED <<VersionTexts, VersionsInForce>>
<1>1. UNCHANGED <<Existing, PublishedVersions>>
  BY DEF Existing, PublishedVersions
<1>2. Released(Cardinality(Existing))'
  BY <1>1 DEF ReleasedSoFar, Released
<1> QED
  BY <1>1, <1>2 DEF ReleasedSoFar, VersionTexts, VersionsInForce, PublishedVersions

EditorType == {NotEditing} \cup [at : {"edit"}, updated : Nat, writes : Nat]

\* SetDraft writes the row, once.
LEMMA SetDraftWrites ==
    ASSUME ReleasedSoFar, NEW d \in Drafts, SetDraft(d)
    PROVE  /\ document' \in [draft : Drafts \cup {NoDraft}, current : Nat, updated : Nat]
           /\ document'.current = document.current
           /\ document'.updated = writes' /\ writes' = writes + 1 /\ writes' \in Nat
           /\ UNCHANGED version
<1>1. /\ document \in [draft : Drafts \cup {NoDraft}, current : Nat, updated : Nat]
      /\ writes \in Nat
  BY DEF ReleasedSoFar, PublishingTypeOK
<1>2. /\ document' = [document EXCEPT !.draft = d, !.updated = writes + 1]
      /\ writes' = writes + 1 /\ UNCHANGED version
  BY DEF SetDraft
<1>3. /\ document' \in [draft : Drafts \cup {NoDraft}, current : Nat, updated : Nat]
      /\ document'.current = document.current /\ document'.updated = writes + 1
  <2>1. \A r \in [draft : Drafts \cup {NoDraft}, current : Nat, updated : Nat], u \in Nat :
          /\ [r EXCEPT !.draft = d, !.updated = u]
                \in [draft : Drafts \cup {NoDraft}, current : Nat, updated : Nat]
          /\ [r EXCEPT !.draft = d, !.updated = u].current = r.current
          /\ [r EXCEPT !.draft = d, !.updated = u].updated = u
    OBVIOUS
  <2>2. writes + 1 \in Nat
    BY <1>1
  <2> QED
    BY <1>1, <1>2, <2>1, <2>2
<1> QED
  BY <1>1, <1>2, <1>3

LEMMA OtherPublishingSteps ==
    ASSUME ReleasedSoFar,
           \/ \E e \in Editors :
                GetLegalDocument(e) \/ SaveRefused(e) \/ \E d \in Drafts : SaveDraft(e, d)
           \/ \E d \in Drafts : ReplaceDraft(d)
    PROVE  ReleasedSoFar' /\ UNCHANGED <<VersionTexts, VersionsInForce>>
<1>1. /\ editor \in [Editors -> EditorType] /\ NotEditing \in EditorType
      /\ NotEditing.at # "edit" /\ writes \in Nat /\ document.updated = writes
  BY DEF ReleasedSoFar, PublishingTypeOK, EditorType, NotEditing
<1>2. ASSUME NEW e \in Editors, GetLegalDocument(e)
      PROVE  ReleasedSoFar' /\ UNCHANGED <<VersionTexts, VersionsInForce>>
  <2>1. editor' = [editor EXCEPT ![e] =
                     [at |-> "edit", updated |-> document.updated, writes |-> writes]]
    BY <1>2 DEF GetLegalDocument
  <2>2. PublishingTypeOK' /\ \A b \in Editors : ReadIsCounted(b)'
    BY <1>1, <1>2, <2>1 DEF GetLegalDocument, ReleasedSoFar, PublishingTypeOK, EditorType,
                            ReadIsCounted
  <2> QED
    BY <1>1, <1>2, <2>2, VersionsStay DEF GetLegalDocument
<1>3. ASSUME NEW e \in Editors, SaveRefused(e)
      PROVE  ReleasedSoFar' /\ UNCHANGED <<VersionTexts, VersionsInForce>>
  <2>1. PublishingTypeOK' /\ \A b \in Editors : ReadIsCounted(b)'
    BY <1>1, <1>3 DEF SaveRefused, ReleasedSoFar, PublishingTypeOK, EditorType, ReadIsCounted
  <2> QED
    BY <1>1, <1>3, <2>1, VersionsStay DEF SaveRefused
<1>4. ASSUME NEW e \in Editors, NEW d \in Drafts, SaveDraft(e, d)
      PROVE  ReleasedSoFar' /\ UNCHANGED <<VersionTexts, VersionsInForce>>
  <2>1. editor' = [editor EXCEPT ![e] = NotEditing] /\ SetDraft(d)
    BY <1>4 DEF SaveDraft
  <2>2. PublishingTypeOK' /\ \A b \in Editors : ReadIsCounted(b)'
    BY <1>1, <2>1, SetDraftWrites DEF ReleasedSoFar, PublishingTypeOK, EditorType, ReadIsCounted
  <2> QED
    BY <2>1, <2>2, SetDraftWrites, VersionsStay
<1>5. ASSUME NEW d \in Drafts, ReplaceDraft(d)
      PROVE  ReleasedSoFar' /\ UNCHANGED <<VersionTexts, VersionsInForce>>
  <2>1. UNCHANGED editor /\ SetDraft(d)
    BY <1>5 DEF ReplaceDraft
  <2>2. PublishingTypeOK' /\ \A b \in Editors : ReadIsCounted(b)'
    BY <1>1, <2>1, SetDraftWrites DEF ReleasedSoFar, PublishingTypeOK, ReadIsCounted
  <2> QED
    BY <2>1, <2>2, SetDraftWrites, VersionsStay
<1> QED
  BY <1>2, <1>3, <1>4, <1>5

LEMMA PublishingSteps ==
    ASSUME ReleasedSoFar, [PublishingNext]_publishingVars
    PROVE  ReleasedSoFar' /\ [DocumentLog!NewVersion]_<<VersionTexts, VersionsInForce>>
<1>1. CASE UNCHANGED publishingVars
  <2>1. UNCHANGED <<document, version, writes, editor>>
    BY <1>1 DEF publishingVars
  <2>2. PublishingTypeOK' /\ \A e \in Editors : ReadIsCounted(e)'
    BY <2>1 DEF ReleasedSoFar, PublishingTypeOK, ReadIsCounted
  <2> QED
    BY <2>1, <2>2, VersionsStay DEF ReleasedSoFar
<1>2. CASE PublishLegalDocumentDraft
  BY <1>2, PublishKeeps
<1> QED
  BY <1>1, <1>2, OtherPublishingSteps DEF PublishingNext

\* PublishLegalDocumentDraft implements a log of versions: the newest is the
\* one published and the document's current one, and none is ever edited.
THEOREM PublishingImplementsTheLog == PublishingSpec => VersionsAreALog
BY PublishingStarts, PublishingSteps, PTL
   DEF PublishingSpec, VersionsAreALog, DocumentLog!LogSpec

\* UpdateLegalDocumentDraft: a save under the optimistic check follows no write
\* that its editor has not seen.
THEOREM SavesFollowReads == PublishingSpec => SavedAsRead
<1>1. ASSUME ReleasedSoFar, [PublishingNext]_publishingVars, NEW e \in Editors,
             writes' # writes, editor'[e] # editor[e]
      PROVE  editor[e].writes = writes
  <2>1. PICK b \in Editors, d \in Drafts : SaveDraft(b, d)
    BY <1>1 DEF PublishingNext, publishingVars, GetLegalDocument, SaveRefused, ReplaceDraft,
                PublishLegalDocumentDraft
  <2>2. b = e
    BY <1>1, <2>1 DEF SaveDraft, ReleasedSoFar, PublishingTypeOK
  <2>3. editor[e].at = "edit" /\ document.updated = editor[e].updated
    BY <2>1, <2>2 DEF SaveDraft
  <2>4. document.updated = writes /\ ReadIsCounted(e)
    BY <1>1 DEF ReleasedSoFar
  <2> QED
    BY <2>3, <2>4 DEF ReadIsCounted
<1>2. ReleasedSoFar /\ [PublishingNext]_publishingVars =>
        [\A e \in Editors :
           writes' # writes /\ editor'[e] # editor[e] => editor[e].writes = writes]_publishingVars
  BY <1>1
<1> QED
  BY <1>2, PublishingStarts, PublishingSteps, PTL DEF PublishingSpec, SavedAsRead

-----------------------------------------------------------------------------
(* All of MCBackoffice: a step of one component leaves the others as they are *)

BackofficeInv == SInv /\ EInv /\ TInv /\ MintedSoFar /\ ReleasedSoFar

LEMMA BackofficeStarts == BackofficeInit => BackofficeInv
BY SettlementStarts, ExportsStart, TokensStart, ContractsStart, PublishingStarts
   DEF BackofficeInit, BackofficeInv

LEMMA BackofficeSteps ==
    /\ BackofficeInv
    /\ [SettlementOnly \/ ExportsOnly \/ PublishingOnly \/ ContractsOnly \/ TokensOnly]_
         <<settlementVars, exportVars, publishingVars, contractVars, tokenVars>>
    => BackofficeInv'
<1> SUFFICES
      ASSUME BackofficeInv,
             [SettlementOnly \/ ExportsOnly \/ PublishingOnly \/ ContractsOnly \/ TokensOnly]_
               <<settlementVars, exportVars, publishingVars, contractVars, tokenVars>>
      PROVE  BackofficeInv'
  OBVIOUS
<1>1. /\ [SettlementNext]_settlementVars /\ [ExportsNext]_exportVars
      /\ [PublishingNext]_publishingVars /\ [ContractsNext]_contractVars
      /\ [TokensNext]_tokenVars
  BY DEF SettlementOnly, ExportsOnly, PublishingOnly, ContractsOnly, TokensOnly
<1>2. MintedSoFar'
  BY <1>1, ContractsSteps DEF BackofficeInv
<1>3. ReleasedSoFar'
  BY <1>1, PublishingSteps DEF BackofficeInv
<1>4. SInv' /\ EInv' /\ TInv'
  BY <1>1, SettlementSteps, ExportsSteps, TokensSteps DEF BackofficeInv
<1> QED
  BY <1>2, <1>3, <1>4 DEF BackofficeInv

\* The type invariant of all that MCBackoffice brings together.
THEOREM BackofficeTypeCorrect == BackofficeSpec => []BackofficeTypeOK
<1>1. BackofficeInv => BackofficeTypeOK
  BY DEF BackofficeInv, SInv, EInv, TInv, MintedSoFar, ReleasedSoFar, BackofficeTypeOK
<1> QED
  BY <1>1, BackofficeStarts, BackofficeSteps, PTL DEF BackofficeSpec

=============================================================================
