-------------------------------- MODULE Jobs --------------------------------
(***************************************************************************)
(* JobStore: the jobs table of jobs.sqlite3 for one principal, tenant and   *)
(* workspace (the rows of job_kind 'run').  Each call is one IMMEDIATE       *)
(* transaction, hence one action; a call that fails changes nothing.        *)
(***************************************************************************)
EXTENDS Naturals, FiniteSets

CONSTANTS
    JobIds,         \* job ids, unique per submission
    Workers,        \* JobWorkerIds: one per invocation of `job work'
    NoWorker        \* worker_id IS NULL

ASSUME JobsAssumption == NoWorker \notin Workers /\ IsFiniteSet(JobIds)

VARIABLES
    jobs,           \* the table
    executed        \* history: which workers ever began to execute each job

jobVars == <<jobs, executed>>

Finals == {"completed", "approval_required", "failed", "interrupted"}
JobStatuses == {"absent", "queued", "running", "cancelled"} \cup Finals

\* submission_sequence orders the queue; `result' says that result_json is set.
JobRows == [status : JobStatuses, sequence : Nat, worker : Workers \cup {NoWorker},
            result : BOOLEAN]

Queued == {j \in JobIds : jobs[j].status = "queued"}

\* SELECT MAX(submission_sequence)
LatestSequence ==
    LET used == {jobs[j].sequence : j \in JobIds}
    IN CHOOSE n \in used \cup {0} : \A m \in used : m <= n

\* ORDER BY submission_sequence ASC LIMIT 1
IsOldest(j) == j \in Queued /\ \A i \in Queued : jobs[j].sequence <= jobs[i].sequence

JobsInit ==
    /\ jobs = [j \in JobIds |->
         [status |-> "absent", sequence |-> 0, worker |-> NoWorker, result |-> FALSE]]
    /\ executed = [j \in JobIds |-> {}]

Submit(j) ==
    /\ jobs[j].status = "absent"
    /\ jobs' = [jobs EXCEPT ![j].status = "queued", ![j].sequence = LatestSequence + 1]
    /\ UNCHANGED executed

\* Mutant: the row is found queued in one statement and taken in another, whose
\* WHERE lost its status.
ClaimsRunning(j, w) ==
    /\ jobs[j].status \in {"queued", "running"}
    /\ jobs' = [jobs EXCEPT ![j].status = "running", ![j].worker = w]
    /\ executed' = [executed EXCEPT ![j] = @ \cup {w}]

\* claim_next, when there is a queued job.  The worker executes what it claimed.
ClaimNext(j, w) ==
    /\ IsOldest(j)
    /\ jobs' = [jobs EXCEPT ![j].status = "running", ![j].worker = w]
    /\ executed' = [executed EXCEPT ![j] = @ \cup {w}]

\* Mutant: finish does not look at the status it overwrites.
FinishAny(j, w, status) ==
    /\ jobs[j].worker = w
    /\ jobs' = [jobs EXCEPT ![j].status = status, ![j].result = TRUE]
    /\ UNCHANGED executed

\* finish: only a running job, only by the worker that claimed it.
FinishJob(j, w, status) ==
    /\ jobs[j].status = "running"
    /\ jobs[j].worker = w
    /\ jobs' = [jobs EXCEPT ![j].status = status, ![j].result = TRUE]
    /\ UNCHANGED executed

\* mark_interrupted: an operator gives up on a running job, whoever runs it.
MarkInterrupted(j) ==
    /\ jobs[j].status = "running"
    /\ jobs' = [jobs EXCEPT ![j].status = "interrupted", ![j].result = TRUE]
    /\ UNCHANGED executed

Cancel(j) ==
    /\ jobs[j].status = "queued"
    /\ jobs' = [jobs EXCEPT ![j].status = "cancelled"]
    /\ UNCHANGED executed

\* What users and operators do to the table.
JobCommand == \E j \in JobIds : Submit(j) \/ Cancel(j) \/ MarkInterrupted(j)

-----------------------------------------------------------------------------
\* validate_record: the columns a row of each status must have.  One row that
\* breaks it makes every later list and claim fail.
RowShape(row) ==
    /\ row.worker # NoWorker <=> row.status \in {"running"} \cup Finals
    /\ row.result <=> row.status \in Finals
    /\ row.sequence = 0 <=> row.status = "absent"

JobsTypeOK ==
    /\ jobs \in [JobIds -> JobRows]
    /\ executed \in [JobIds -> SUBSET Workers]
    /\ \A j \in JobIds : RowShape(jobs[j])

\* A claimed job is never replayed (claim_next, finish, mark_interrupted; CLI.md
\* "Pandora never replays a claimed job automatically"): over all workers, their
\* crashes and the operator's commands, at most one worker ever executes a job,
\* and it is the one the row names.
OneExecution ==
    \A j \in JobIds :
        executed[j] = IF jobs[j].worker = NoWorker THEN {} ELSE {jobs[j].worker}

\* A finished job stays as it was finished (finish, mark_interrupted, cancel): a
\* worker that comes back late, after an operator marked its job interrupted,
\* does not overwrite the outcome; nothing goes back to the queue.
JobForward ==
    [][\A j \in JobIds :
         /\ jobs[j].status \in Finals \cup {"cancelled"} => jobs'[j] = jobs[j]
         /\ jobs'[j].status = "queued" => jobs[j].status \in {"absent", "queued"}
         /\ jobs[j].status = "running" => jobs'[j].worker = jobs[j].worker]_jobVars
=============================================================================
