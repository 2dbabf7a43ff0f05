------------------------------ MODULE Subagents ------------------------------
(***************************************************************************)
(* Subagents: the subagents table next to the jobs table, the coordinator    *)
(* that creates and removes their git worktrees, and the threads of one      *)
(* `subagent work' process that run them.  A store call is one transaction   *)
(* and one action; a worktree command is an effect of its own between two    *)
(* transactions, so a crash may separate it from its record.                 *)
(***************************************************************************)
EXTENDS Naturals, FiniteSets

CONSTANTS
    Subs,           \* subagent ids; a subagent has one job row and one worktree
    Threads,        \* threads of the worker process, each with its JobWorkerId
    Cleaners,       \* invocations of `subagent cleanup'
    NoThread,       \* worker_id IS NULL
    NoSub,          \* a thread or cleaner without a subagent
    Faults          \* what may happen to processes: "crash", "drain", "fence"

ASSUME SubagentsAssumption ==
    /\ NoThread \notin Threads /\ NoSub \notin Subs
    /\ Faults \subseteq {"crash", "drain", "fence"}

VARIABLES
    rows,           \* the subagents table
    jobRows,        \* status of the job row of kind 'subagent', "absent" before
    order,          \* submission_sequence of that row
    disk,           \* the worktree: "none", "clean" or "dirty"
    spawner,        \* step of the `subagent spawn' that created each subagent
    cleaner,        \* the clean-ups: step, subagent, receipt
    thread,         \* the worker threads: step, subagent, outcome
    supervisor,     \* the worker's fleet supervisor: "running" or "draining"
    fence           \* the worker's fence is still its own

subVars == <<rows, jobRows, order, disk, spawner, cleaner, thread, supervisor, fence>>

Terminal == {"approval_required", "completed", "failed", "interrupted", "cancelled"}
SubStatuses == {"absent", "preparing", "queued", "running"} \cup Terminal
Receipts == {"none", "succeeded", "failed"}

SubRows ==
    [status : SubStatuses, worktree : {"pending", "ready", "preserved", "removed"},
     worker : Threads \cup {NoThread}, cancel : BOOLEAN, created : Receipts,
     claimed : BOOLEAN, removal : Receipts, started : BOOLEAN, result : BOOLEAN]

Init ==
    /\ rows = [s \in Subs |->
         [status |-> "absent", worktree |-> "pending", worker |-> NoThread,
          cancel |-> FALSE, created |-> "none", claimed |-> FALSE,
          removal |-> "none", started |-> FALSE, result |-> FALSE]]
    /\ jobRows = [s \in Subs |-> "absent"]
    /\ order = [s \in Subs |-> 0]
    /\ disk = [s \in Subs |-> "none"]
    /\ spawner = [s \in Subs |-> "off"]
    /\ cleaner = [c \in Cleaners |-> [pc |-> "off", sub |-> NoSub, receipt |-> "none"]]
    /\ thread = [t \in Threads |-> [pc |-> "start", sub |-> NoSub, outcome |-> "failed"]]
    /\ supervisor = "running"
    /\ fence = TRUE

storeVars == <<rows, jobRows, order>>
processVars == <<cleaner, thread, supervisor, fence>>

-----------------------------------------------------------------------------
(* SubagentCoordinator::spawn                                                *)

Spawn(s, step) == spawner' = [spawner EXCEPT ![s] = step]
Preserve(s) == IF disk[s] = "none" THEN "pending" ELSE "preserved"

Prepare(s) ==
    /\ spawner[s] = "off"
    /\ rows' = [rows EXCEPT ![s].status = "preparing"]
    /\ Spawn(s, "create")
    /\ UNCHANGED <<jobRows, order, disk, processVars>>

\* execute_worktree: refused before any effect; a worktree at the commit; or a
\* failure, which leaves nothing or what git could not take back.
CreateWorktree(s) ==
    /\ spawner[s] = "create"
    /\ \/ Spawn(s, "interrupt") /\ UNCHANGED disk
       \/ Spawn(s, "queue") /\ disk' = [disk EXCEPT ![s] = "clean"]
       \/ Spawn(s, "fail") /\ \E left \in {"none", "clean"} : disk' = [disk EXCEPT ![s] = left]
    /\ UNCHANGED <<storeVars, processVars>>

IsPreparing(s) == rows[s].status = "preparing" /\ rows[s].worktree = "pending"

\* Mutant: the job row is submitted in a transaction of its own, later.
QueueWithoutJob(s) ==
    /\ spawner[s] = "queue" /\ Spawn(s, "done")
    /\ rows' = [rows EXCEPT ![s].status = "queued", ![s].worktree = "ready",
                            ![s].created = "succeeded"]
    /\ UNCHANGED <<jobRows, order, disk, processVars>>

\* queue: the job row and the subagent's move in one transaction.
Queue(s) ==
    /\ spawner[s] = "queue" /\ Spawn(s, "done")
    /\ IsPreparing(s)
    /\ rows' = [rows EXCEPT ![s].status = "queued", ![s].worktree = "ready",
                            ![s].created = "succeeded"]
    /\ jobRows' = [jobRows EXCEPT ![s] = "queued"]
    /\ order' = [order EXCEPT ![s] = Cardinality({r \in Subs : order[r] > 0}) + 1]
    /\ UNCHANGED <<disk, processVars>>

\* Mutant: a failed creation is taken to have left nothing behind.
FailPreparingBlindly(s) ==
    /\ spawner[s] = "fail" /\ Spawn(s, "done")
    /\ IsPreparing(s)
    /\ rows' = [rows EXCEPT ![s].status = "failed", ![s].created = "failed",
                            ![s].result = TRUE]
    /\ UNCHANGED <<jobRows, order, disk, processVars>>

FailPreparing(s) ==
    /\ spawner[s] = "fail" /\ Spawn(s, "done")
    /\ IsPreparing(s)
    /\ rows' = [rows EXCEPT ![s].status = "failed", ![s].worktree = Preserve(s),
                            ![s].created = "failed", ![s].result = TRUE]
    /\ UNCHANGED <<jobRows, order, disk, processVars>>

InterruptPreparing(s) ==
    /\ IsPreparing(s)
    /\ rows' = [rows EXCEPT ![s].status = "interrupted", ![s].worktree = Preserve(s),
                            ![s].result = TRUE]
    /\ UNCHANGED <<jobRows, order, disk, processVars>>

\* The refused creation is recorded at once.
RefusedSpawn(s) ==
    /\ spawner[s] = "interrupt" /\ Spawn(s, "done")
    /\ InterruptPreparing(s)

\* reconcile_preparing, once the spawn is known to be dead.  The code does not look
\* whether it is; nothing calls it yet.
Reconcile(s) ==
    /\ spawner[s] = "crashed"
    /\ InterruptPreparing(s)
    /\ UNCHANGED spawner

CrashSpawn(s) ==
    /\ "crash" \in Faults
    /\ spawner[s] \in {"create", "interrupt", "queue", "fail"}
    /\ Spawn(s, "crashed")
    /\ UNCHANGED <<storeVars, disk, processVars>>

-----------------------------------------------------------------------------
(* SubagentCoordinator::cleanup                                              *)

Unclaimed(s) ==
    /\ rows[s].status \in Terminal
    /\ rows[s].worktree \in {"ready", "preserved"}
    /\ ~rows[s].claimed
    /\ rows[s].removal = "none"

ClaimCleanup(c, s) ==
    /\ cleaner[c].pc = "off"
    /\ Unclaimed(s)
    /\ rows' = [rows EXCEPT ![s].claimed = TRUE]
    /\ cleaner' = [cleaner EXCEPT ![c].pc = "remove", ![c].sub = s]
    /\ UNCHANGED <<jobRows, order, disk, spawner, thread, supervisor, fence>>

\* Only a clean worktree is removed; a refusal by the authority chain ends the
\* clean-up without a receipt.
RemoveWorktree(c) ==
    LET s == cleaner[c].sub
    IN /\ cleaner[c].pc = "remove"
       /\ \/ /\ cleaner' = [cleaner EXCEPT ![c].pc = "ended"] /\ UNCHANGED disk
          \/ /\ cleaner' = [cleaner EXCEPT ![c].pc = "record", ![c].receipt = "failed"]
             /\ UNCHANGED disk
          \/ /\ disk[s] = "clean"
             /\ cleaner' = [cleaner EXCEPT ![c].pc = "record", ![c].receipt = "succeeded"]
             /\ disk' = [disk EXCEPT ![s] = "none"]
       /\ UNCHANGED <<storeVars, spawner, thread, supervisor, fence>>

RecordCleanup(c) ==
    LET s == cleaner[c].sub
        removed == cleaner[c].receipt = "succeeded"
    IN /\ cleaner[c].pc = "record"
       /\ cleaner' = [cleaner EXCEPT ![c].pc = "ended"]
       /\ rows[s].removal = "none"
       /\ rows' = [rows EXCEPT ![s].removal = cleaner[c].receipt,
                               ![s].worktree = IF removed THEN "removed" ELSE "preserved"]
       /\ UNCHANGED <<jobRows, order, disk, spawner, thread, supervisor, fence>>

CrashCleanup(c) ==
    /\ "crash" \in Faults
    /\ cleaner[c].pc \in {"remove", "record"}
    /\ cleaner' = [cleaner EXCEPT ![c].pc = "ended"]
    /\ UNCHANGED <<storeVars, disk, spawner, thread, supervisor, fence>>

-----------------------------------------------------------------------------
(* The worker process                                                        *)

Goto(t, step) == thread' = [thread EXCEPT ![t].pc = step]

\* ActiveSubagentSupervisor::checkpoint: any state but running stops the work.
Passes == supervisor = "running" /\ fence

StartThread(t) ==
    /\ thread[t].pc = "start"
    /\ Goto(t, IF Passes THEN "beat" ELSE "ended")
    /\ UNCHANGED <<storeVars, disk, spawner, cleaner, supervisor, fence>>

\* heartbeat_supervisor_for_process; with the fence the supervisor may be lost too.
Heartbeat(t) ==
    /\ thread[t].pc = "beat"
    /\ \/ supervisor = "running" /\ Goto(t, "claim")
       \/ ~Passes /\ Goto(t, "ended")
    /\ UNCHANGED <<storeVars, disk, spawner, cleaner, supervisor, fence>>

Claimable(s) == rows[s].status = "queued" /\ jobRows[s] = "queued"

ClaimNext(t) ==
    /\ thread[t].pc = "claim"
    /\ \/ \E s \in Subs :
            /\ Claimable(s)
            /\ \A r \in Subs : Claimable(r) => order[s] <= order[r]
            /\ rows' = [rows EXCEPT ![s].status = "running", ![s].started = TRUE,
                                    ![s].worker = t]
            /\ jobRows' = [jobRows EXCEPT ![s] = "running"]
            /\ thread' = [thread EXCEPT ![t].pc = "run", ![t].sub = s]
       \/ (\A s \in Subs : ~Claimable(s)) /\ Goto(t, "ended") /\ UNCHANGED <<rows, jobRows>>
    /\ UNCHANGED <<order, disk, spawner, cleaner, supervisor, fence>>

\* An effect of the run in its worktree.
ChangeWorktree(t) ==
    /\ thread[t].pc = "run"
    /\ disk[thread[t].sub] = "clean"
    /\ disk' = [disk EXCEPT ![thread[t].sub] = "dirty"]
    /\ UNCHANGED <<storeVars, spawner, processVars>>

\* What the last checkpoint of the run, or the run itself, decides; a result
\* over its budget and a failed start of the run are failures at any time.
RunOutcomes(s) ==
    {"failed"} \cup
    (IF rows[s].cancel THEN {"cancelled"}
     ELSE IF ~Passes THEN {"interrupted"}
     ELSE IF disk[s] = "none" THEN {}
     ELSE {"completed", "approval_required"})

EndRun(t) ==
    /\ thread[t].pc = "run"
    /\ \E outcome \in RunOutcomes(thread[t].sub) :
         thread' = [thread EXCEPT ![t].pc = "assert", ![t].outcome = outcome]
    /\ UNCHANGED <<storeVars, disk, spawner, cleaner, supervisor, fence>>

\* assert_current looks at the fence only, not at the supervisor.
AssertCurrent(t) ==
    /\ thread[t].pc = "assert"
    /\ Goto(t, IF fence THEN "finish" ELSE "ended")
    /\ UNCHANGED <<storeVars, disk, spawner, cleaner, supervisor, fence>>

\* Mutant: a late outcome is stored over a cancellation that was recorded.
FinishedStatusLate(s, outcome) == outcome

\* A recorded cancellation wins.
FinishedStatus(s, outcome) == IF rows[s].cancel THEN "cancelled" ELSE outcome

\* Mutant: finish does not know the cancelled outcome either.
FinishesUncancelled(t) ==
    LET s == thread[t].sub
    IN /\ FinishedStatus(s, thread[t].outcome) \notin {"interrupted", "cancelled"}
       /\ rows[s].status = "running" /\ rows[s].worker = t

\* finish accepts no "interrupted" outcome.
Finishes(t) ==
    LET s == thread[t].sub
    IN thread[t].outcome # "interrupted" /\ rows[s].status = "running" /\ rows[s].worker = t

Finish(t) ==
    LET s == thread[t].sub
        status == FinishedStatus(s, thread[t].outcome)
    IN /\ thread[t].pc = "finish"
       /\ IF Finishes(t)
          THEN /\ rows' = [rows EXCEPT ![s].status = status, ![s].result = TRUE]
               /\ jobRows' = [jobRows EXCEPT ![s] = status]
               /\ thread' = [thread EXCEPT ![t] =
                               [pc |-> "beat", sub |-> NoSub, outcome |-> "failed"]]
          ELSE Goto(t, "ended") /\ UNCHANGED <<rows, jobRows>>
       /\ UNCHANGED <<order, disk, spawner, cleaner, supervisor, fence>>

\* The process is killed: all of its threads end where they are.
CrashWorker ==
    /\ "crash" \in Faults
    /\ \E t \in Threads : thread[t].pc # "crashed"
    /\ thread' = [t \in Threads |-> [thread[t] EXCEPT !.pc = "crashed"]]
    /\ UNCHANGED <<storeVars, disk, spawner, cleaner, supervisor, fence>>

Drain ==
    /\ "drain" \in Faults
    /\ supervisor' = "draining"
    /\ UNCHANGED <<storeVars, disk, spawner, cleaner, thread, fence>>

\* The fence expires or a successor takes it.
LoseFence ==
    /\ "fence" \in Faults
    /\ fence' = FALSE
    /\ UNCHANGED <<storeVars, disk, spawner, cleaner, thread, supervisor>>

-----------------------------------------------------------------------------
(* Operators                                                                 *)

\* Mutant: a running subagent is marked cancelled at once.
RequestCancelAtOnce(s) ==
    /\ rows[s].status \in {"queued", "running"}
    /\ rows' = [rows EXCEPT ![s].status = "cancelled", ![s].cancel = TRUE,
                            ![s].result = rows[s].started]
    /\ jobRows' = [jobRows EXCEPT ![s] = "cancelled"]
    /\ UNCHANGED <<order, disk, spawner, processVars>>

\* A queued subagent is cancelled, a running one asked, once.
RequestCancel(s) ==
    /\ \/ /\ rows[s].status = "queued" /\ jobRows[s] = "queued"
          /\ rows' = [rows EXCEPT ![s].status = "cancelled", ![s].cancel = TRUE]
          /\ jobRows' = [jobRows EXCEPT ![s] = "cancelled"]
       \/ /\ rows[s].status = "running" /\ ~rows[s].cancel
          /\ rows' = [rows EXCEPT ![s].cancel = TRUE]
          /\ UNCHANGED jobRows
    /\ UNCHANGED <<order, disk, spawner, processVars>>

MarkInterrupted(s) ==
    /\ rows[s].status = "running"
    /\ rows' = [rows EXCEPT ![s].status = "interrupted", ![s].result = TRUE]
    /\ jobRows' = [jobRows EXCEPT ![s] = "interrupted"]
    /\ UNCHANGED <<order, disk, spawner, processVars>>

-----------------------------------------------------------------------------
SpawnStep(s) ==
    \/ Prepare(s) \/ CreateWorktree(s) \/ Queue(s) \/ FailPreparing(s) \/ RefusedSpawn(s)

ThreadStep(t) ==
    \/ StartThread(t) \/ Heartbeat(t) \/ ClaimNext(t) \/ ChangeWorktree(t)
    \/ EndRun(t) \/ AssertCurrent(t) \/ Finish(t)

Next ==
    \/ \E s \in Subs :
         \/ SpawnStep(s) \/ CrashSpawn(s) \/ Reconcile(s)
         \/ RequestCancel(s) \/ MarkInterrupted(s)
    \/ \E c \in Cleaners :
         \/ \E s \in Subs : ClaimCleanup(c, s)
         \/ RemoveWorktree(c) \/ RecordCleanup(c) \/ CrashCleanup(c)
    \/ \E t \in Threads : ThreadStep(t)
    \/ CrashWorker \/ Drain \/ LoseFence

Spec == Init /\ [][Next]_subVars

\* The threads of a live process run.
FairSpec == Spec /\ \A t \in Threads : WF_subVars(ThreadStep(t))

-----------------------------------------------------------------------------
\* validate_subagent_record and validate_cleanup_record: a row that breaks them
\* is corrupt and makes every later call on it fail.
LifecycleValid(r) ==
    LET unstarted == r.worker = NoThread /\ ~r.started
    IN CASE r.status \in {"absent", "preparing"} ->
              unstarted /\ r.worktree = "pending" /\ r.created = "none" /\ ~r.result
         [] r.status = "queued" ->
              unstarted /\ r.worktree = "ready" /\ r.created # "none" /\ ~r.result
         [] r.status = "running" ->
              /\ r.worktree = "ready" /\ r.worker # NoThread /\ r.started
              /\ r.created # "none" /\ ~r.result
         [] r.status = "failed" /\ ~r.started ->
              /\ r.worktree # "ready" /\ r.worker = NoThread
              /\ r.created = "failed" /\ r.result
         [] r.status = "interrupted" /\ ~r.started ->
              r.worktree # "ready" /\ r.worker = NoThread /\ r.created = "none" /\ r.result
         [] r.status = "cancelled" /\ ~r.started ->
              r.worker = NoThread /\ r.created # "none" /\ ~r.result
         [] OTHER -> r.worker # NoThread /\ r.created # "none" /\ r.started /\ r.result

CleanupValid(r) ==
    CASE ~r.claimed /\ r.removal = "none" -> r.worktree # "removed"
      [] r.claimed /\ r.removal = "none" ->
           r.status \in Terminal /\ r.worktree \in {"ready", "preserved"}
      [] r.claimed /\ r.removal = "succeeded" ->
           r.status \in Terminal /\ r.worktree = "removed"
      [] r.claimed /\ r.removal = "failed" ->
           r.status \in Terminal /\ r.worktree = "preserved"
      [] OTHER -> FALSE

TypeOK ==
    /\ rows \in [Subs -> SubRows]
    /\ \A s \in Subs : LifecycleValid(rows[s]) /\ CleanupValid(rows[s])
    /\ jobRows \in [Subs -> SubStatuses]
    /\ disk \in [Subs -> {"none", "clean", "dirty"}]

\* The two tables agree (queue, claim_next, request_cancel, finish,
\* mark_interrupted): a job row of another status than its subagent would make
\* each of these calls fail as corrupt from then on, as would a row that breaks the
\* rules of its lifecycle and its clean-up.
JobMirrors ==
    /\ TypeOK
    /\ \A s \in Subs :
        jobRows[s] = IF rows[s].started \/ rows[s].status \in {"queued", "cancelled"}
                     THEN rows[s].status ELSE "absent"

\* A worktree left on disk can be cleaned up (spawn, reconcile_preparing,
\* finish): whatever failed or crashed, the row of a subagent that has ended
\* admits to its worktree.
WorktreeAdmitted ==
    \A s \in Subs :
        /\ rows[s].status \in Terminal /\ disk[s] # "none" =>
              rows[s].worktree \in {"ready", "preserved"}
        /\ rows[s].worktree = "removed" => disk[s] = "none"

\* One removal per worktree (claim_cleanup, record_cleanup): over concurrent
\* clean-ups and their crashes, at most one ever gets past its claim.
OneCleanup ==
    \A c, d \in Cleaners : cleaner[c].sub = cleaner[d].sub /\ cleaner[c].sub # NoSub => c = d

\* Both at once: every worktree left is admitted, and removed by one clean-up.
WorktreesAccounted == WorktreeAdmitted /\ OneCleanup

\* A worktree is never removed from under a thread that runs in it (claim_cleanup,
\* finish), unless an operator declared that run interrupted.
RemovalSparesRuns ==
    [][\A s \in Subs, t \in Threads :
         /\ disk[s] # "none" /\ disk'[s] = "none"
         /\ thread[t].sub = s /\ thread[t].pc = "run"
         => rows[s].status = "interrupted"]_subVars

\* A recorded cancellation is final (request_cancel, finish; ROADMAP.md "once a
\* running cancellation request is recorded, a late provider response cannot be
\* stored as success"): what was asked to stop ends cancelled or interrupted.
CancelWins ==
    [][\A s \in Subs :
         rows[s].cancel /\ rows'[s].status # rows[s].status =>
             rows'[s].status \in {"cancelled", "interrupted"}]_subVars

\* A cancellation ends the run (SubagentRunControl::checkpoint, finish), unless the
\* worker dies or loses its fence or its supervisor first.
CancelEndsRun ==
    \A s \in Subs :
        rows[s].status = "running" /\ rows[s].cancel ~>
            \/ rows[s].status \in Terminal
            \/ ~Passes
            \/ \E t \in Threads : thread[t].pc = "crashed"
=============================================================================
