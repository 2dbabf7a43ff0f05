------------------------------ MODULE JobWorker ------------------------------
(***************************************************************************)
(* `job work': worker processes that share the jobs table and the fleet's    *)
(* "job-worker" node.  A process starts or takes over the supervisor, takes  *)
(* a lease and a fence, then claims and executes jobs, while a second thread *)
(* sends heartbeats.  Every call into FleetEngine or JobStore is a           *)
(* transaction of its own, so every step between two calls is one where the  *)
(* process may be slow, overtaken or killed.                                 *)
(***************************************************************************)
EXTENDS Fleet, Jobs

CONSTANTS
    JobNode,        \* "job-worker": node id and fence owner
    NoJob,          \* a worker between two jobs
    JobKey,         \* "job-worker:job-worker"
    LeaseSeconds,   \* JOB_WORKER_LEASE_DURATION_SECONDS
    Modes,          \* the modes workers are started in
    Commands,       \* what operators do to the supervisor meanwhile
    OperatorTimes,  \* what they pass as --now; by default it is the time
    MaxCrashes      \* bound: workers that crash

\* A worker is one process: its id is its process id and names its lease.
ASSUME JobWorkerAssumption ==
    /\ JobNode \in Nodes \cap FenceOwners
    /\ JobKey \in Keys
    /\ NoJob \notin JobIds
    /\ Workers \subseteq Processes \cap Leases
    /\ LeaseSeconds \in Nat \ {0}
    /\ Modes \subseteq {"daemon", "watch", "batch"}
    /\ Commands \subseteq {"start", "restart", "heartbeat", "drain", "reconcile",
                          "reap", "recover", "stop"}
    /\ OperatorTimes \subseteq Nat
    /\ MaxCrashes \in Nat

VARIABLE work       \* the processes, one record each

allVars == <<vars, jobVars, work>>

Starting == {"start", "restart", "lease", "invalidate", "fence",
             "unlease", "drain", "stop"}
Serving == {"beat", "renewLease", "renewFence", "look", "claim", "run", "finish"}
Closing == {"closing", "release", "shutdown"}
MainSteps == {"off"} \cup Starting \cup Serving \cup Closing \cup {"exited", "crashed"}
BeatSteps == {"off", "sleep", "beat", "lease", "fence", "failed"}

Processing ==
    [pc : MainSteps, mode : Modes, now : Nat, generation : Nat, expires : Nat,
     job : JobIds \cup {NoJob}, outcome : Finals, cancelled : BOOLEAN,
     beat : BeatSteps, beatNow : Nat, attempts : 0..2]

\* A process that does not run keeps nothing.
Idle(step, mode) ==
    [pc |-> step, mode |-> mode, now |-> 0, generation |-> 0, expires |-> 0,
     job |-> NoJob, outcome |-> "failed", cancelled |-> FALSE,
     beat |-> "off", beatNow |-> 0, attempts |-> 0]

WorkersInit == work \in [Workers -> {Idle("off", m) : m \in Modes}]

At(w, step) == work[w].pc = step
Goto(w, step) == work' = [work EXCEPT ![w].pc = step]
End(w, step) == work' = [work EXCEPT ![w] = Idle(step, @.mode)]
Supervisor == supervisors[JobNode].state
NodeReady == nodes[JobNode] = "ready"

-----------------------------------------------------------------------------
(* start_job_supervisor: one `now' for all of its transactions.             *)

\* `now' is sampled, then the node registered unless it is.
Begin(w) ==
    /\ At(w, "off")
    /\ \/ RegisterNode(JobNode) /\ UNCHANGED fenceVars
       \/ nodes[JobNode] # "absent" /\ UNCHANGED vars
    /\ work' = [work EXCEPT ![w].pc = "start", ![w].now = clock]
    /\ UNCHANGED jobVars

Start(w) ==
    /\ At(w, "start")
    /\ \/ /\ StartSupervisor(JobNode, w, work[w].now) /\ UNCHANGED fenceVars
          /\ Goto(w, "lease")
       \/ /\ NodeReady /\ Supervisor = "running"
          /\ Goto(w, "restart") /\ UNCHANGED vars
       \/ /\ \/ ~NodeReady
             \/ Supervisor = "draining"
             \/ Supervisor \in {"stopped", "recovering"} /\ ActiveOn(JobNode) # {}
          /\ End(w, "exited") /\ UNCHANGED vars
    /\ UNCHANGED jobVars

\* restart_supervisor_for_process refuses a supervisor that beat within the
\* stale time, and one with a lease that has not run out.
RestartRefused(w) ==
    \/ ~NodeReady
    \/ Supervisor = "draining"
    \/ Supervisor = "running" /\ Fresh(JobNode, work[w].now)
    \/ Supervisor = "running" /\ \E l \in ActiveOn(JobNode) : leases[l].expires > work[w].now
    \/ Supervisor \in {"stopped", "recovering"} /\ ActiveOn(JobNode) # {}

Restart(w) ==
    /\ At(w, "restart")
    /\ \/ /\ RestartSupervisor(JobNode, w, work[w].now) /\ UNCHANGED fenceVars
          /\ Goto(w, "lease")
       \/ RestartRefused(w) /\ End(w, "exited") /\ UNCHANGED vars
    /\ UNCHANGED jobVars

TakeLease(w) ==
    /\ At(w, "lease")
    /\ \/ /\ AcquireLease(w, JobNode, work[w].now, LeaseSeconds) /\ UNCHANGED fenceVars
          /\ Goto(w, "invalidate")
       \/ /\ ~AcceptsWork(JobNode) \/ ~WorkPermitted(work[w].now)
          /\ Goto(w, "drain") /\ UNCHANGED vars
    /\ UNCHANGED jobVars

\* invalidate_fence in the node's name: whoever holds it loses it.  If the call
\* fails, the way out leaves the lease that was just taken.
Invalidate(w) ==
    /\ At(w, "invalidate")
    /\ \/ InvalidateFence(JobKey, JobNode) /\ UNCHANGED leaseVars /\ Goto(w, "fence")
       \/ fences[JobKey].state # "active" /\ UNCHANGED vars /\ Goto(w, "fence")
       \/ Goto(w, "drain") /\ UNCHANGED vars
    /\ UNCHANGED jobVars

\* The heartbeat thread starts with the fence in hand.
TakeFence(w) ==
    /\ At(w, "fence")
    /\ \/ /\ AcquireFence(JobKey, JobNode, work[w].now, LeaseSeconds) /\ UNCHANGED leaseVars
          /\ work' = [work EXCEPT ![w].pc = "beat", ![w].beat = "sleep",
                                  ![w].generation = NextGeneration(JobKey),
                                  ![w].expires = work[w].now + LeaseSeconds]
       \/ /\ \/ fences[JobKey].state = "active" /\ fences[JobKey].expires > work[w].now
             \/ ~WorkPermitted(work[w].now)
          /\ Goto(w, "unlease") /\ UNCHANGED vars
    /\ UNCHANGED jobVars

\* The way out of a failed start: release_lease after a lost fence only, then
\* drain and stop; their errors are ignored.
BackOut(w) ==
    /\ \/ /\ At(w, "unlease") /\ Goto(w, "drain")
          /\ \/ ReleaseLease(w) /\ UNCHANGED fenceVars
             \/ leases[w].state # "active" /\ UNCHANGED vars
       \/ /\ At(w, "drain") /\ Goto(w, "stop")
          /\ \/ DrainSupervisor(JobNode, work[w].now) /\ UNCHANGED fenceVars
             \/ Supervisor # "running" /\ UNCHANGED vars
       \/ /\ At(w, "stop") /\ End(w, "exited")
          /\ \/ StopSupervisor(JobNode, work[w].now) /\ UNCHANGED fenceVars
             \/ /\ Supervisor \in {"draining", "recovering"} => ActiveOn(JobNode) # {}
                /\ UNCHANGED vars
    /\ UNCHANGED jobVars

-----------------------------------------------------------------------------
(* The two heartbeats: `supervisor.heartbeat()' before the first claim and   *)
(* the thread's loop.  Each is three transactions under one `now'.           *)

HeartbeatOk(w, now) == HeartbeatSupervisor(JobNode, w, now) /\ UNCHANGED fenceVars
HeartbeatRefused(w) ==
    (Supervisor # "running" \/ supervisors[JobNode].process # w) /\ UNCHANGED vars

\* renew_lease also fails when it finds the lease elapsed, and then keeps the
\* expiry it wrote.
LeaseLive(w, now) ==
    WorkPermitted(now) /\ leases[w].state = "active" /\ now < leases[w].expires
LeaseOk(w, now) ==
    LeaseLive(w, now) /\ RenewLease(w, now, LeaseSeconds) /\ UNCHANGED fenceVars
LeaseRefused(w, now) ==
    /\ ~LeaseLive(w, now)
    /\ \/ RenewLease(w, now, LeaseSeconds) /\ UNCHANGED fenceVars
       \/ (leases[w].state # "active" \/ ~WorkPermitted(now)) /\ UNCHANGED vars

FenceOk(w, now) ==
    RenewFence(JobKey, work[w].generation, now, LeaseSeconds) /\ UNCHANGED leaseVars
FenceRefused(w, now) == ~FenceValid(JobKey, work[w].generation, now) /\ UNCHANGED vars

\* After it: a daemon or watcher looks at the supervisor, a batch claims at once.
Serve(w) == IF work[w].mode = "batch" THEN "claim" ELSE "look"

\* The worker ends.  shutdown is called and, if it fails, called again when the
\* supervisor is dropped; an error that leaves `work' through `?' only drops it.
Close(w, attempts) ==
    work' = [work EXCEPT ![w] = [@ EXCEPT !.pc = "closing", !.attempts = attempts,
                                          !.now = 0, !.job = NoJob, !.outcome = "failed"]]
Fail(w) == Close(w, 1)

FirstHeartbeat(w) ==
    /\ \/ /\ At(w, "beat")
          /\ \/ /\ HeartbeatOk(w, clock)
                /\ work' = [work EXCEPT ![w].pc = "renewLease", ![w].now = clock]
             \/ HeartbeatRefused(w) /\ Fail(w)
       \/ /\ At(w, "renewLease")
          /\ \/ LeaseOk(w, work[w].now) /\ Goto(w, "renewFence")
             \/ LeaseRefused(w, work[w].now) /\ Fail(w)
       \/ /\ At(w, "renewFence")
          /\ \/ /\ FenceOk(w, work[w].now)
                /\ work' = [work EXCEPT ![w].pc = Serve(w), ![w].now = 0]
             \/ FenceRefused(w, work[w].now) /\ Fail(w)
    /\ UNCHANGED jobVars

BeatAt(w, step) == work[w].beat = step /\ work[w].pc \notin {"exited", "crashed"}
BeatGoto(w, step) ==
    work' = [work EXCEPT ![w].beat = step,
                         ![w].beatNow = IF step \in {"lease", "fence"} THEN @ ELSE 0]
BeatStop(w, cancel) ==
    work' = [work EXCEPT ![w].beat = "off", ![w].cancelled = @ \/ cancel]

\* The thread wakes: a drain ends it, a stop or recovery also cancels the work.
BeatWake(w) ==
    /\ BeatAt(w, "sleep")
    /\ \/ /\ Supervisor = "running"
          /\ work' = [work EXCEPT ![w].beat = "beat", ![w].beatNow = clock]
       \/ Supervisor = "draining" /\ BeatStop(w, FALSE)
       \/ Supervisor \in {"stopped", "recovering"} /\ BeatStop(w, TRUE)
    /\ UNCHANGED <<vars, jobVars>>

BeatStep(w) ==
    LET now == work[w].beatNow
    IN /\ \/ /\ BeatAt(w, "beat")
             /\ \/ HeartbeatOk(w, now) /\ BeatGoto(w, "lease")
                \/ HeartbeatRefused(w) /\ BeatGoto(w, "failed")
          \/ /\ BeatAt(w, "lease")
             /\ \/ LeaseOk(w, now) /\ BeatGoto(w, "fence")
                \/ LeaseRefused(w, now) /\ BeatGoto(w, "failed")
          \/ /\ BeatAt(w, "fence")
             /\ \/ FenceOk(w, now) /\ BeatGoto(w, "sleep")
                \/ FenceRefused(w, now) /\ BeatGoto(w, "failed")
       /\ UNCHANGED jobVars

\* A failed beat: unless a drain explains it, the work is cancelled.
BeatFailed(w) ==
    /\ BeatAt(w, "failed")
    /\ BeatStop(w, Supervisor # "draining")
    /\ UNCHANGED <<vars, jobVars>>

-----------------------------------------------------------------------------
(* The loops daemon_jobs, watch_jobs and drain_jobs around execute_one_job.  *)

\* Mutant: a drain is not taken for a request to stop.
LookPastDrain(w) ==
    /\ At(w, "look")
    /\ IF Supervisor \in {"running", "draining"} THEN Goto(w, "claim") ELSE Close(w, 2)
    /\ UNCHANGED <<vars, jobVars>>

\* shutdown_requested
Look(w) ==
    /\ At(w, "look")
    /\ IF Supervisor = "running" THEN Goto(w, "claim") ELSE Close(w, 2)
    /\ UNCHANGED <<vars, jobVars>>

\* An empty queue ends a batch; a watcher may have waited long enough.
Claim(w) ==
    /\ At(w, "claim")
    /\ \/ \E j \in JobIds :
            /\ ClaimNext(j, w)
            /\ work' = [work EXCEPT ![w].pc = "run", ![w].job = j]
       \/ /\ Queued = {} /\ UNCHANGED jobVars
          /\ \/ work[w].mode # "batch" /\ Goto(w, "look")
             \/ /\ work[w].mode # "daemon"
                /\ Close(w, 2)
    /\ UNCHANGED vars

\* checkpoint: not cancelled, the supervisor running or draining, the fence mine.
Passes(w) ==
    /\ ~work[w].cancelled
    /\ Supervisor \in {"running", "draining"}
    /\ FenceValid(JobKey, work[w].generation, clock)

\* The governed run with its checkpoints.  One that fails interrupts it, though
\* the supervisor may since be running again; the last one follows the run and
\* overrides its outcome.
Run(w) ==
    /\ At(w, "run")
    /\ \E outcome \in Finals :
         /\ ~Passes(w) => outcome = "interrupted"
         /\ work' = [work EXCEPT ![w].pc = "finish", ![w].outcome = outcome]
    /\ UNCHANGED <<vars, jobVars>>

\* Only a completed job is followed by another, unless a limit was reached; any
\* other outcome is an error that ends the worker, in every mode.  So does a
\* finish that fails: the job is no longer running, or its result is too large
\* for the row, which then stays `running'.  `job work' for one job leaves
\* through `?'.
Finish(w) ==
    LET ends == IF work[w].mode = "batch" THEN {1, 2} ELSE {2}
    IN /\ At(w, "finish")
       /\ \/ /\ FinishJob(work[w].job, w, work[w].outcome)
             /\ \/ /\ work[w].outcome = "completed"
                   /\ work' = [work EXCEPT ![w].pc = Serve(w), ![w].job = NoJob,
                                           ![w].outcome = "failed"]
                \/ /\ work[w].outcome # "completed" \/ work[w].mode # "daemon"
                   /\ \E attempts \in ends : Close(w, attempts)
          \/ UNCHANGED jobVars /\ \E attempts \in ends : Close(w, attempts)
       /\ UNCHANGED vars

-----------------------------------------------------------------------------
\* drop(heartbeat) joins the thread, which ends when it next looks at `active'.
JoinHeartbeat(w) ==
    /\ At(w, "closing")
    /\ work[w].beat \in {"sleep", "off"}
    /\ work' = [work EXCEPT ![w].pc = "release", ![w].beat = "off"]
    /\ UNCHANGED <<vars, jobVars>>

\* release_fence one second before the expiry of the handle; a fence that was
\* lost counts as released.
ReleaseJobFence(w) ==
    LET now == work[w].expires - 1
    IN /\ At(w, "release")
       /\ \/ ReleaseFence(JobKey, work[w].generation, now) /\ UNCHANGED leaseVars
          \/ ~FenceValid(JobKey, work[w].generation, now) /\ UNCHANGED vars
       /\ Goto(w, "shutdown")
       /\ UNCHANGED jobVars

\* shutdown_supervisor_for_process.  An error is reported and the drop of the
\* supervisor tries once more.
Shutdown(w) ==
    /\ At(w, "shutdown")
    /\ \/ /\ ShutdownSupervisor(JobNode, w, w, clock) /\ UNCHANGED fenceVars
          /\ End(w, "exited")
       \/ /\ supervisors[JobNode].process # w \/ ~(ActiveOn(JobNode) \subseteq {w})
          /\ IF work[w].attempts = 1 THEN End(w, "exited")
             ELSE work' = [work EXCEPT ![w].attempts = @ - 1]
          /\ UNCHANGED vars
    /\ UNCHANGED jobVars

Crash(w) ==
    /\ work[w].pc \notin {"off", "exited", "crashed"}
    /\ Cardinality({v \in Workers : At(v, "crashed")}) < MaxCrashes
    /\ End(w, "crashed")
    /\ UNCHANGED <<vars, jobVars>>

\* `fleet supervisor <command>' for the worker's node.  A start names no process,
\* a restart any, and --now may lie; reap reconciles every stale supervisor, this
\* one among them.
OperatorCommand ==
    /\ \E now \in OperatorTimes \cup {clock} :
         \/ "start" \in Commands /\ StartSupervisor(JobNode, NoProcess, now)
         \/ /\ "restart" \in Commands
            /\ \E p \in Processes : RestartSupervisor(JobNode, p, now)
         \/ "heartbeat" \in Commands /\ HeartbeatSupervisor(JobNode, NoProcess, now)
         \/ "drain" \in Commands /\ DrainSupervisor(JobNode, now)
         \/ Commands \cap {"reconcile", "reap"} # {} /\ ReconcileSupervisor(JobNode, now)
         \/ "recover" \in Commands /\ RecoverSupervisor(JobNode, now)
         \/ "stop" \in Commands /\ StopSupervisor(JobNode, now)
    /\ UNCHANGED <<fenceVars, jobVars, work>>

\* What a live process does next, thread by thread.
MainStep(w) ==
    \/ Start(w) \/ Restart(w) \/ TakeLease(w) \/ Invalidate(w)
    \/ TakeFence(w) \/ BackOut(w) \/ FirstHeartbeat(w)
    \/ Look(w) \/ Claim(w) \/ Run(w) \/ Finish(w)
    \/ JoinHeartbeat(w) \/ ReleaseJobFence(w) \/ Shutdown(w)
HeartbeatStep(w) == BeatWake(w) \/ BeatStep(w) \/ BeatFailed(w)

WorkerInit == Init /\ JobsInit /\ WorkersInit

WorkerNext ==
    \/ \E w \in Workers : Begin(w) \/ MainStep(w) \/ HeartbeatStep(w) \/ Crash(w)
    \/ JobCommand /\ UNCHANGED <<vars, work>>
    \/ OperatorCommand
    \/ Tick /\ UNCHANGED <<jobVars, work>>

WorkerSpec == WorkerInit /\ [][WorkerNext]_allVars

\* A process that lives runs both of its threads.  Nobody is obliged to start
\* one, to submit a job or to act on the supervisor.
FairWorkerSpec ==
    WorkerSpec /\ \A w \in Workers : WF_allVars(MainStep(w)) /\ WF_allVars(HeartbeatStep(w))

-----------------------------------------------------------------------------
WorkerTypeOK == JobsTypeOK /\ work \in [Workers -> Processing]

\* One worker at a time (start_job_supervisor, checkpoint; FLEET.md): of all the
\* processes that hold a fence handle, however slow or overtaken, at most one
\* passes a checkpoint (and the processes are in one of their steps).
OneWorkerPasses ==
    WorkerTypeOK /\ \A v, w \in Workers :
        work[v].pc \in Serving /\ work[w].pc \in Serving /\ Passes(v) /\ Passes(w) => v = w

\* A drain is honoured (daemon_jobs, watch_jobs, shutdown; FLEET.md "the lease is
\* released, and the worker records `stopped'"): a generation of the supervisor
\* that drains while the worker bound to it serves ends stopped, whatever else
\* operators do to it, unless they start a new generation over the worker's head
\* (recover, then start or restart).
DrainEndsInStop ==
    \A w \in Workers, g \in 1..MaxGeneration :
        /\ supervisors[JobNode].state = "draining"
        /\ supervisors[JobNode].process = w
        /\ supervisors[JobNode].generation = g
        /\ work[w].pc \in Serving
        ~> supervisors[JobNode].state = "stopped" \/ supervisors[JobNode].generation # g

=============================================================================
