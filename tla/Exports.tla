------------------------------- MODULE Exports -------------------------------
(***************************************************************************)
(* The queue of report exports: requests insert jobs, and in every process *)
(* a worker claims one at each tick, stores its file and marks it.         *)
(*                                                                         *)
(* Claiming is one statement that locks the oldest free row and skips the  *)
(* locked ones.  A process may die at any step, a statement may fail, and  *)
(* the answer to one that succeeded may be lost.                           *)
(***************************************************************************)
EXTENDS Naturals

CONSTANTS
    LastJob,    \* bound: jobs ever created, numbered by created_at
    Workers     \* processes of the API server, one worker each

ASSUME LastJobAssumption == LastJob \in Nat

VARIABLES
    job,        \* reports.export_job: status
    file,       \* the file stored for each job
    claims,     \* history: how often each job was claimed
    worker      \* what each worker is doing

exportVars == <<job, file, claims, worker>>

-----------------------------------------------------------------------------
Jobs == 1..LastJob

Waiting == [at |-> "waiting"]
Dead == [at |-> "dead"]

Works(w, t) == worker' = [worker EXCEPT ![w] = t]
On(w, step) == Works(w, [worker[w] EXCEPT !.at = step])

\* The rows a claim has locked and not yet written.
Locked == {j \in Jobs : \E w \in Workers : worker[w] = [at |-> "claiming", job |-> j]}

ExportsInit ==
    /\ job = [j \in Jobs |-> "none"]
    /\ file = [j \in Jobs |-> "none"]
    /\ claims = [j \in Jobs |-> 0]
    /\ worker = [w \in Workers |-> Waiting]

CreateExportJob == \E j \in Jobs :
    /\ job[j] = "none"
    /\ \A k \in 1..(j - 1) : job[k] # "none"
    /\ job' = [job EXCEPT ![j] = "pending"]
    /\ UNCHANGED <<file, claims, worker>>

-----------------------------------------------------------------------------
\* Test variant: FOR UPDATE SKIP LOCKED is forgotten.
ClaimRegardless(w, j) ==
    /\ worker[w] = Waiting
    /\ job[j] = "pending"
    /\ \A k \in 1..(j - 1) : job[k] # "pending"
    /\ Works(w, [at |-> "claiming", job |-> j])
    /\ UNCHANGED <<job, file, claims>>

\* Test variant: the row is marked in one statement and read in the next.
MarkThenRead(w, j) ==
    /\ worker[w] = Waiting
    /\ job[j] = "pending"
    /\ \A k \in 1..(j - 1) : job[k] # "pending"
    /\ job' = [job EXCEPT ![j] = "processing"]
    /\ Works(w, [at |-> "claiming", job |-> j])
    /\ UNCHANGED <<file, claims>>

\* ClaimPendingExportJob: the oldest pending row that nobody has locked ...
ClaimPendingExportJob(w, j) ==
    /\ worker[w] = Waiting
    /\ job[j] = "pending" /\ j \notin Locked
    /\ \A k \in 1..(j - 1) : job[k] = "pending" => k \in Locked
    /\ Works(w, [at |-> "claiming", job |-> j])
    /\ UNCHANGED <<job, file, claims>>

\* ... is written, and the lock goes.
ClaimCommit(w) ==
    LET j == worker[w].job IN
    /\ worker[w].at = "claiming"
    /\ job' = [job EXCEPT ![j] = "processing"]
    /\ claims' = [claims EXCEPT ![j] = @ + 1]
    /\ On(w, "storing")
    /\ UNCHANGED file

\* storage.Put creates the file, then fills it.
CreateFile(w) ==
    /\ worker[w].at = "storing"
    /\ file' = [file EXCEPT ![worker[w].job] = "partial"]
    /\ On(w, "writing")
    /\ UNCHANGED <<job, claims>>

WriteFile(w) ==
    /\ worker[w].at = "writing"
    /\ file' = [file EXCEPT ![worker[w].job] = "whole"]
    /\ On(w, "completing")
    /\ UNCHANGED <<job, claims>>

\* Test variant: an export whose file could not be written is completed too.
FailsUnnoticed(w) ==
    /\ worker[w].at \in {"storing", "writing"}
    /\ On(w, "completing")
    /\ UNCHANGED <<job, file, claims>>

\* Generating the report, storing it or completing the job fails.
ExportFails(w) ==
    /\ worker[w].at \in {"storing", "writing", "completing"}
    /\ On(w, "failing")
    /\ UNCHANGED <<job, file, claims>>

\* The worker may never learn that the job was completed.
CompleteExportJob(w) ==
    /\ worker[w].at = "completing"
    /\ job' = [job EXCEPT ![worker[w].job] = "completed"]
    /\ Works(w, Waiting) \/ On(w, "failing")
    /\ UNCHANGED <<file, claims>>

\* The status is overwritten whatever it is; an error is dropped.
FailExportJob(w) ==
    /\ worker[w].at = "failing"
    /\ job' \in {job, [job EXCEPT ![worker[w].job] = "failed"]}
    /\ Works(w, Waiting)
    /\ UNCHANGED <<file, claims>>

Die(w) ==
    /\ worker[w] # Dead
    /\ Works(w, Dead)
    /\ UNCHANGED <<job, file, claims>>

Restart(w) ==
    /\ worker[w] = Dead
    /\ Works(w, Waiting)
    /\ UNCHANGED <<job, file, claims>>

-----------------------------------------------------------------------------
\* A worker that lives goes on with the job it has: every statement ends.
Proceed(w) == CreateFile(w) \/ WriteFile(w) \/ CompleteExportJob(w) \/ FailExportJob(w)

Process(w) ==
    \/ ClaimCommit(w) \/ Proceed(w) \/ ExportFails(w) \/ Die(w) \/ Restart(w)
    \/ \E j \in Jobs : ClaimPendingExportJob(w, j)

ExportsNext == CreateExportJob \/ \E w \in Workers : Process(w)

\* Ticks keep coming, a dead process is started again, and of infinitely many
\* claims one is not cut short.
ExportsFairness == \A w \in Workers :
    /\ SF_exportVars(\E j \in Jobs : ClaimPendingExportJob(w, j))
    /\ SF_exportVars(ClaimCommit(w))
    /\ WF_exportVars(Proceed(w))
    /\ WF_exportVars(Restart(w))

ExportsSpec == ExportsInit /\ [][ExportsNext]_exportVars /\ ExportsFairness

-----------------------------------------------------------------------------
(* Properties *)

WorkerType ==
    {Waiting, Dead}
    \cup [at : {"claiming", "storing", "writing", "completing", "failing"}, job : Jobs]

ExportsTypeOK ==
    /\ job \in [Jobs -> {"none", "pending", "processing", "completed", "failed"}]
    /\ file \in [Jobs -> {"none", "partial", "whole"}]
    /\ claims \in [Jobs -> Nat]
    /\ worker \in [Workers -> WorkerType]

\* However many processes tick at once, and whichever of them die, a job is
\* claimed at most once: its file and its status have one writer.
ClaimedOnce == \A j \in Jobs : claims[j] <= 1

\* A job that is completed has its whole file, though the worker that stored
\* it may have died half-way or have been told that it failed (generateExport).
CompletedIsStored == \A j \in Jobs : job[j] = "completed" => file[j] = "whole"

\* Every job is claimed in the end: locked rows that are skipped, and workers
\* that die while they claim, only delay it (ClaimPendingExportJob).
EveryJobIsClaimed == \A j \in Jobs : job[j] = "pending" ~> claims[j] = 1
=============================================================================
