# A TLA+ verification of AGENT-PANDORA

AGENT-PANDORA is a runtime for governed AI agents, written in Rust. Its promise is
that nothing an agent does reaches the outside world except through one chain of
authority,

    ExecutionController -> Shadow Council -> Parliament -> ReferenceMonitor -> EffectExecutor -> receipt

and that the processes of an installation (CLI runs, job workers, the service) share
their work through SQLite files without stepping on each other. This directory holds
TLA+ models of the parts of the runtime that carry those two promises, the TLC
configurations that check them on small instances, and TLAPS proofs of their safety
properties for every size of instance. `PROJECT.json` lists components, runs,
mutants, hazards and theorems, and maps each definition to the source lines it
stands for.

## Inventory

| Component | State | Operations | Interacts with | What is hard | What makes it correct |
|---|---|---|---|---|---|
| Authority chain (`execution_controller`, `parliament`, `reference_monitor`, `permit_store`, `approvals`, `hooks`) | policy and its version (twice: controller, monitor), execution counter, permits in memory, the `approvals` table | `run_at`, `run_with_approval`, `run_agent_with_approval`, `update_policy`, approval `create`, `resolve`, `consume_grant` | genes plan requests, executors perform them, CLI and service create approvals | several processes share one approvals table; a crash between grant and effect; a policy that moved between decision and authorization | complete mediation; one effect per approval; approvals only move forward; every run ends |
| Fleet (`fleet.rs`) | `fleet_nodes`, `fleet_supervisors`, `fleet_leases`, `fleet_quiescence` | register, start, restart, heartbeat, reconcile, drain, stop, shutdown, recover; acquire, renew, release, expire leases; acquire and drop a quiescence guard | job worker, service, subagents, evolution | takeover of a slow process, a `now` sampled before the write lock, late drops of a guard | no work on stopped nodes or of old generations; quiescence excludes work |
| Fences (`fleet.rs`) | `fleet_fences`, `fleet_fence_operations` | acquire, renew, release, invalidate, expire fences; acquire, renew, release, recover operations | as above | stale handles, operations that outlive their holder | tokens grow; an operation pins its fence |
| Jobs (`job_store`, CLI `job`) | `jobs`; a worker's process and heartbeat thread | submit, claim, finish, interrupt, cancel; start, serve, drain, shut down | Fleet supervisor, lease and fence | worker death between transactions, takeover, a drain during work | a claimed job is executed once; a finished job stays finished; one worker passes; a drain ends in a stop |
| Subagents (`subagent_store`, `subagent`, CLI `subagent`) | `subagents`, their job rows, worktrees on disk | spawn, queue, claim, cancel, finish, interrupt, clean up | Jobs, Fleet, git | preparation and clean-up in several steps with crashes between them; cancellation against a late answer | the two tables agree; no worktree is orphaned, removed twice or from under a run; a recorded cancellation wins |
| Orchestration (`orchestration_store`, `orchestration_engine`) | DAG of roles, budget ledger, reservations, receipts | submit, claim, start ready roles, complete, interrupt, reconcile, resume, cancel | Jobs, agent loop | concurrent reservations against one ceiling, interruption in mid-role, unknown costs | the ceiling is kept; every attempt is charged once; roles run after their dependencies and are not replayed |
| RPC service and ledger (`pandora-service`) | `rpc_idempotency` | begin, complete, replay, refuse | Runtime service | duplicated and retried deliveries, a crash between begin and complete | a key is executed at most once |
| Runtime service (`service.rs`) | handlers, sessions, approvals, lease and fence of an execution, the evolution gate | runs, agent runs, resumptions, evolution | everything above | effects precede evidence, runs that outlive their fence, mutations during runs | a successful answer is backed by evidence; of overlapping runs a second is recorded only in the gap after the fence check; mutations run alone |
| Agent loop, sessions | transcript, budgets, pending call, verification flags | model turn, tool call, gate, pause, resumption, compaction | authority chain, approvals | pauses, stops and compaction over several runs | requests pair calls and results; a pause keeps its call; a goal concludes after a check of its last edit; runs end |
| Evolution, replacement, catalog | proposal records, one copy per process, bindings, rollouts | submit, evaluate, approve, stage, canary, staged rollout, activate, roll back, reconcile | quiescence guard, service, CLI | two stores written in turn, stale copies, dependents | the stores agree after every answer and are repaired after crashes; resolution ends; only what has earned it is active, a completed rollout included |
| Schedules (cron, evaluation, memory) | due times, claims | tick, claim, complete | service, CLI | missed and duplicate ticks | at most one run per slot |
| MCP, provider clients | catalogs, failover order | spawn, connect, invoke | authority chain without approvals | fallback after a partial call | mediation as above |
| Memory, retrieval, graph, decision engines | in-memory indexes | scoring | agent loop | numerics | - |
| Identity, secrets, sandbox, TUI | keys, OS containment, screens | - | - | cryptography, I/O | - |

The hazards, each at the line where it bites and with the properties that would catch
it, are the list `hazards` of `PROJECT.json`.

## Plan

Done:

1. `Governance`, `Authority`: the authority chain, the most important behaviour of the
   system, with its proofs (`AuthorityProofs`).
2. `FleetBase`, `FleetLeases`, `FleetFences`, composed in `Fleet`: the coordination
   substrate every worker stands on, with its proofs (`FleetProofs`).
3. `Jobs`, and `JobWorker`, which composes `Fleet` and `Jobs` with worker processes of
   two threads (`JobWorkerProofs`); `Subagents` (`SubagentsProofs`).
4. `Budget`, an abstract specification, and `Orchestration`, which implements it
   (`OrchestrationProofs` has both).
5. `RpcLedger`, and `Service`, which composes it with `Fleet`, sessions and approvals
   (`ServiceProofs`).
6. `AgentLoop`: runs of an agent on one session (`AgentLoopProofs`).
7. `Rollout`, `Evolution`: proposals, rollouts, the artifact catalog (`EvolutionProofs`).

Every safety property that a run checks and that holds is a theorem. Next: of the code,
schedules and the package store are the parts with state of their own that are still left
out; of the proofs, stronger statements about what is modelled (the refinement of an
abstract specification of the ledger by `Service`, of one worker's fence by `JobWorker`).

## The modules and the code

### Governance and Authority

`Governance` holds the pure decisions: `Decide` (Parliament), `ValidDecision` (the
monitor's own decision must equal the one it is handed), `PermitUsable`, `StatusAt`,
`GrantMatches`. A request is its digest: SHA-256 over all fields that matter is taken
to be injective. A gene is the capability, operation and number of requests it plans;
all requests of one plan share capability and operation, as in `genes.rs`.

`Authority` has a set of processes, each with a controller (`policy`, `monitor`,
`nextExec`, `permits`), a shared `approvals` table, and a set of runs. A run samples
`now` once, as the code does, and walks its requests through `DecideRequest`,
`ConsumeGrant`, `Authorize`, `ConsumePermit` and `Execute` or `Refuse`, one action for
each step that reads or writes what another run can see. `consume_grant` is one
IMMEDIATE transaction and one action. An error of `consume_grant` leaves
`run_internal` through `?`: the run ends in `error` and its receipts are dropped.
`RejectIntent` is a call that fails before its request loop (its execution id is used
up). `CreateCliApproval` and `CreateServiceApproval` are the two ways an approval is
made: the CLI hashes a nonce into the id, writes the literal policy version 1 and
counts the 900 s from the current time; the service uses session and execution alone,
its controller's policy version and the run's `now`. `UpdatePolicy` and
`UpdateMonitorPolicy` need `&mut self`, so no run of that controller is in progress.
`Crash` loses everything of a process except the approvals table.

Two pieces of state are history: the `verdict` and `grant` kept with a permit and the
set `effects` of effects performed.

Errors of the database itself, clock errors before 1970 and the wording of summaries
are left out; principals are determined by sessions.

### Fleet

Each operation of `FleetEngine` is one IMMEDIATE transaction and one action. A call
that fails rolls back and is not an action, except `renew_lease`, which commits the
expiry it found before it fails. Rows are never deleted from `fleet_nodes`,
`fleet_supervisors`, `fleet_leases` and `fleet_fences`; an absent row has state
"absent". The caps `MAX_FLEET_*` are constants.

The caller's `now` is sampled before it waits for the connection mutex and the write
lock: actions take any `now` in `Samples`, at most `Lag` seconds old. Fence operations
use the trusted clock inside the transaction. The clock never runs backwards, so the
code's regression errors never fire. A fence handle is (key, generation): owner, issue
time and token are fixed with the generation, and tokens are never guessed. An
operation's guard is its row: only its holder writes it. Quiescence owners are unique
per acquisition (process id and counter or timestamp in `service.rs` and the CLI's
`evolution.rs`).

`leases[l].generation` (the supervisor generation a lease was issued under) and
`relinquished` (fence generations given up by their holder or in their owner's name)
are history.

The fence-operation API has no caller outside `fleet.rs` in the current code; it is
modelled from its own contract and tests.

### Jobs and JobWorker

Every call of `JobStore` is one IMMEDIATE transaction and one action of `Jobs`; a call
that fails changes nothing. `JobWorker` is `job work`: a process walks through
`start_job_supervisor` (`Begin` to `TakeFence`, with `BackOut` where a step fails),
serves (`FirstHeartbeat`, `Look`, `Claim`, `Run`, `Finish`) and closes
(`JoinHeartbeat`, `ReleaseJobFence`, `Shutdown`), and its heartbeat thread renews lease
and fence beside it (`BeatWake`, `BeatStep`, `BeatFailed`). Each call into the fleet or the
job store is a step of its own, between which the process may be slow, overtaken by a
second worker or killed. Daemon, watch and batch mode differ in what they do with an empty
queue. `OperatorCommand` is `fleet supervisor` with all of its subcommands: start (which binds no
process), restart (which binds any), heartbeat, drain, reconcile, reap, recover and stop, each at
the clock's time or at the one its `--now` claims (`OperatorTimes`). `fleet node` commands and a
`--stale-after` above the minimum are not part of it. A job's execution is one step: what it
does is the subject of `Authority` and `AgentLoop`. Its outcome is interrupted if the last
checkpoint fails, or if one within the execution did. The store may refuse or fail to record an
outcome (`Finish`) and to invalidate the fence of a predecessor (`Invalidate`).

### Subagents

`subagents`, the job row of each subagent, and the worktree on disk. `spawn` is `Prepare`,
`CreateWorktree` and `Queue`, with `FailPreparing` and `InterruptPreparing` where a step
fails and `Reconcile` for what a crash left behind. Threads of one worker claim, run,
assert their fence and finish; a clean-up claims, removes and records. `Crash...`,
`Drain` and `LoseFence` are the faults. `LifecycleValid` and `CleanupValid` are the store's
own validation of a row: a row that breaks them cannot be read again.

### Budget and Orchestration

`Orchestration` has one action per call of the store. `start_ready` reserves for as many
ready roles as parallelism and ceiling allow, all or none; `complete_role` settles one
role and charges what was measured, the full reservation of cost where the cost is unknown;
`reconcile_interrupted_role` charges a failed attempt once per digest. `orchestration claim`
and `complete` call `start_ready` in a second transaction, so it is an action of its own.
`ready_roles` takes the first of the ready roles in the order of the plan: `Before` is that
order, `First(S, n)` the members of `S` with fewer than `n` before them. `Reserved` sums the
reservations of a set of roles. `OrchestrationAssumption` is what `OrchestrationPlan::new` and
`validate_for_plan` check before a run is accepted: no role twice, a parallelism within the
number of roles, reservations that together fit the ceiling.
`Budget` says what the ledger promises, with nothing but amounts held and spent; the
refinement mapping takes `enforced_consumed` for what is spent and the sum of the active
reservations for what is held:

    Ledger == INSTANCE Budget WITH spent <- ledger, held <- [x \in Runs |-> ActiveReserved(x, {})]

### RpcLedger and Service

A call is one delivery of a client's request, and a request carries the idempotency key
its client gave it; duplicates and retries are further calls. A handler goes from `BeginRpc`
over `ReadSession`, `Expire`, `TakeLease`, `TakeFence` to `Execute`, then persists in the
code's order (`AssertCurrent`, `CreateSession`, `AppendExecution`, `SaveTranscript`,
`CreateApproval`), gives up lease and fence, and completes its ledger row. Handlers run
concurrently; every store call may fail; the process may die between any two steps
(`Start` again, with the tables as they were). `StartMutation` and `EndMutation` are the
evolution mutations, which hold the gate and the quiescence guard. Runs may outlive their
lease and fence (`ServiceLease` = 1 second of a clock of one). `executed`, `effects` and
`overlapped` are history: `overlapped` has every pair of runs of which the second was given the
session's fence while the first was anywhere between its fence and its last record, and whether
the first had passed `assert_current` by then. A request's target is a session, or for a resumption the call whose approval it
is about; `NoSession` is neither.

### AgentLoop

One session, runs one after another (the fence's work; `Service` has what happens when it
fails). A message is its role and what it is about; a tool call is its signature. `StartRun`
compacts the stored history at a turn boundary, supersedes a pending call or resumes it with
its approval, and refuses a history that is too long. `Reply`, `PushCall`, `Execute` and
`Conclude` are a turn; `Gate` runs the automatic verification of a goal; `Guarded` is the
convergence guard that answers the repeat of a failing call. `Save` replaces the stored
transcript, `Pause` creates the approval and stores up to the pending call, `Abandon` is an
error that stores nothing. A check runs or fails to run (an error), and if it runs it passes or is
red: a process that exits with another code than 0 is an `Ok` of its executor, and the run of the
tool is completed. `check` and `interrupted` are history: what became of the last check after an
edit (none, passed, red, or answered by the guard), and whether an attachment came between a call
and its result.

### Rollout and Evolution

`Rollout` is the transition table of `EvolutionRollout`: sets of successors, empty for a
refusal. Terminal rollouts forget their counters, which nothing reads again. In `Evolution`
each process has its `view`, the copy of the records it loaded; `Save` writes a whole record
from that copy. Commands load per invocation, the service once (`StartService`). An activation
or rollback is `Acquire`, then reconciliation one repair at a time (`ReconcileBinding`,
`ReconcileRecord`), then the record (`ActivateRecord`, `RollbackRecord`), then the catalog
(`Bind`, `Compensate`, `Unbind`), and `Release`. Which proposal is meant is chosen when it
first matters, and a command's operation on one proposal loads only that record: neither
changes what others can see. The catalog is the sequence of bindings in the order they were
made; the removal of one is `RemoveFirst`. `Follow` takes replacements one by one; `Resolve` makes
`MaxDepth` lookups (`MAX_REPLACEMENT_DEPTH`, 64 in the code) and `Resolves` says whether the last of
them found nothing more; otherwise the code's answer is `ReplacementCycle`. The guard is free, dead or an
engine's, so "free" and "dead" are no engines. `scar` is history: the first event after which the code itself
no longer keeps the two stores together (see Observations). `configured` is history too: the
proposals that were ever given a rollout, whatever their record says now.

## The runs

| Run | Instance | Shows |
|---|---|---|
| `authority_main` | 2 processes, 2 runs, 2 executions, 1 crash, 1 session, a write gene under approval | types; `OneEffectPerApproval`; `ApprovalForward` |
| `authority_policy` | 1 process, 2 runs, 2 executions, policies of 2 versions, a write gene, a gene of two requests and one that a hook vetoes, both kinds of approval id | `EffectsAuthorized`; `RunsFinish` |
| `authority_restart` | 1 process, 1 run, 1 crash | violates `PauseGetsApproval` (finding) |
| `fleet_leases` | 1 node, 2 leases, 1 process, 2 quiescence owners, 2 seconds, 2 generations | types; `NoLeaseOnStoppedNode`; `ActiveLeaseOfGeneration`; `QuiescenceExcludesLeases`; `LeaseForward` |
| `fleet_fences` | 2 keys, 2 owners, 2 operations, 2 generations, durations 1 and 2, 1 second of clock | `OneOperationPerFence`; `OperationPinsFence`; `ReleasedByItsHolder`; `FencingMonotone` |
| `job_worker` | 2 daemons, 1 job, 1 crash, drains, 4 generations | `OneExecution`; `OneWorkerPasses`; `JobForward` |
| `job_drain` | 1 worker in each mode, 1 job, every supervisor command, also with a `--now` ahead of the clock | `DrainEndsInStop` under fairness |
| `subagent_main` | 1 subagent, 2 threads, 2 clean-ups, crashes, drain, fence loss | `JobMirrors`; `WorktreesAccounted`; `RemovalSparesRuns`; `CancelWins`; `CancelEndsRun` under fairness |
| `orchestration_main` | 1 run of 4 roles, 2 workers, 4 receipts, 2 digests, 2 resources | `ReservationsMatchRoles`; `AccountsKept`; `RolesKept`; `ImplementsBudget` (refinement) |
| `service_main` | 2 deliveries of 5 requests on 2 keys and 2 sessions, 1 mutation, 1 restart | `ExecutedOnce`; `AnswersAreRecorded`; `OverlappingRunsRecordOne`; `MutationsRunAlone`; `AnsweredCallsHoldNothing` |
| `agent_loop` | 2 runs of 3 turns and 4 calls, an edit and a check, window 1, 6 stored messages | `RequestsPairCalls`; `PausesKeepTheirCall`; `GoalsConcludeChecked`; `RunsEnd` under fairness |
| `evolution` | 3 proposals that chain, rival and close a cycle, 2 stages, 1 retry, depth 2, a command and a service | `CatalogResolves`; `OnlyEarnedActivate`; `StoresTogether`; `RecoveryNotStuck` |

The type invariant is an invariant of its own in `Authority` and `Fleet`, and a conjunct
of another invariant elsewhere.

Bounds. A double spend needs two runs that hold the same approval, in one process or
two, and a crash in between; a permit or approval of lifetime 1 expires within
`MaxTime` = 1. A takeover needs two generations, a stale renewal a lease that ends and
a second lease; durations of 1 and 2 seconds with a lag of 1 put an expiry before, at
and after every sampled `now`. A worker is overtaken by one other worker; a duplicate needs
two deliveries, and requests that share a key but not a method or a session are among the
five. Two clean-ups race for one worktree. Four roles allow one that waits for a later one
in the plan beside an independent one; ten tokens for reservations of eight let failed
attempts reach the ceiling. Six stored messages are the fewest with which a history is cut,
refused and resumed. Three proposals are the fewest with a chain, two rivals for a base and
a cycle, and with a depth of 2 a chain whose head no longer resolves. The drain needs one worker, whose lease and
fence an operator with a clock ahead can take away. `MaxTime`, `MaxExecutions`, `MaxCrashes`, `MaxGeneration`, `MaxFenceGeneration`,
`MaxStarts`, `MaxBatch` and `MaxRuns` are guards of the actions that would exceed them;
since they make behaviours end, deadlock is not checked. Symmetry permutes interchangeable
ids; it is not used in runs with liveness.

Fairness. `Authority` asks weak fairness of `RunStep(r)` for each run: `run_internal` is
synchronous code that, as long as its process lives, takes its next step. Likewise
`JobWorker` of the two threads of a live process, `Subagents` of the threads of a live
worker, and `AgentLoop` of the run under way. Nobody is obliged to start a process, to submit
work, to resolve an approval or to act as an operator. The other modules assume no fairness.

Each property of a passing run has a mutant in the module it is about: a plausible bug
(a dropped status check, a late `DELETE` without its owner, a generation that restarts
at 1) under which TLC finds the property violated.

## Finding

After a restart the service reuses `approval-{session}-{execution}`: the execution
counter is per process, sessions are durable. The approval of a new pause then fails
with "already exists", before the transcript of the paused agent run is saved
(`authority_restart`).

## Observations

Behaviours of the code that the models reproduce and that its operators may want to know.
No property is stated against them; where a document or test says otherwise it is named.

Fleet and jobs:
- `renew_fence_operation` (`fleet.rs:2016`) revives an operation that ran out and was not
  recovered, also while a quiescence guard is held; the test at `fleet.rs:4545` says a guard
  cannot slip past an operation. `expire_fences` moves all elapsed fences or none, and the
  caps on leases and fences count rows that are never deleted.
- The supervisor's state is read before a job is claimed: a drain in between is followed by a
  claim. The heartbeat thread ends on a drain while the claimed job is still executed, so lease
  and fence may run out under it. One job that does not complete ends a daemon. A worker that
  fails while it closes leaves its lease to run out, and so does one that cannot invalidate the
  fence of its predecessor.
- `fleet supervisor recover` and then `start`, while the worker is stalled but alive, leave a
  supervisor running that no process is bound to: the worker's shutdown is refused, and a drain of
  the new generation waits for an operator's `stop`. `DrainEndsInStop` is about the generation that drains.
- A job whose outcome cannot be recorded (a result that is too large, a store that fails) stays
  running.

Subagents:
- A run stopped by a lost fence is not recorded: the worker asserts its fence and returns, and
  where the fence holds `SubagentStore::finish` refuses `interrupted`. The row stays running
  until an operator marks it; the test at `subagent.rs:1136` is named
  "fence_loss_is_recorded_as_an_unknown_interrupted_outcome".
- A clean-up that dies after its claim keeps the claim for ever. `reconcile_preparing`, which
  no command calls, does not know whether the spawn it gives up on still runs.

Orchestration: failed attempts may use up the ceiling; the run then stays running with nothing
it can start until it is interrupted or cancelled.

Service:
- `run_agent` reads the session's history before it has the session's fence; a run that
  completes in between is overwritten by `save_agent_transcript`.
- `assert_current` looks at the fence and lets go of it; the evidence is written afterwards. A run
  that passes the check just before its fence runs out, and persists after the next run of the
  session took it, is recorded beside that run. `OverlappingRunsRecordOne` and its theorem say that
  there is no other way to two records.
- A response above `MAX_RESPONSE_BYTES` leaves its key pending for ever, with the work done.

Agent loop:
- A goal concludes on a check that failed. `workspace.verify` and `workspace.test` that exit with a
  failure are completed runs whose output is dropped (`executors/process.rs:461`,
  `execution_controller.rs:1703`), so the loop finds no word of failure in the result and takes the
  edit for verified (`agent_loop.rs:1074`, `1175`), where `pandora-cli/src/commands/tui.rs:4170`
  announces "iterative self-healing until the objective is fully verified". What does hold is
  `GoalsConcludeChecked`: a check of the last edit ran, or was answered by the convergence guard.
- The convergence guard's answer counts as a check, so that after a `workspace.verify` that failed
  to run the identical call is not run again and the gate passes.
- The gate's own pause stores no pending call; resuming it fails with "agent approval has no
  pending tool call" (compare `docs/CLI.md:534`).
- Attachments are inserted between a pending call and the result that supersedes it.
- A resumed run that executes its approved effect and then fails stores nothing; the next run
  tells the model that the call was cancelled. Runs that end in other errors lose their
  transcript as well.
- A session may store 256 messages while a run accepts 120 after compaction: a session with
  long turns is refused from then on. `&first_line[..120]` cuts at a byte.

Evolution:
- `rollback_admitted` marks the record before the catalog looks for dependents. The rollback of
  a proposal that another builds on leaves it rolled back and bound, and from then on every
  activation and rollback fails in its reconciliation (compare `docs/EVOLUTION.md:79`, "rollback
  cannot strand an active dependent"). So does a crash, or a failed compensation, between an
  activation and its refusal by the catalog.
- A chain of `MAX_REPLACEMENT_DEPTH` (64) replacements is built by activations at its tip, each of
  which resolves its own candidate only. From then on its head does not resolve, and the error is
  `ReplacementCycle` though there is none; nor can a proposal be activated whose candidate is that
  head.
- A configured rollout can be replaced. A service that was started before `configure_rollout`
  activates the proposal from its own copy, which has no rollout, and its write of the whole record
  erases the incomplete one (`evolution.rs:695`), where `docs/EVOLUTION.md:83` says "Once configured,
  it is durable and cannot be replaced". What does hold is `OnlyEarnedActivate`: nothing is active
  without a passed evaluation and, as long as no stale record was written, nothing without the
  completion of whatever rollout it was ever given.
- The service works on the records as they were when it started. After activations or rollbacks
  by the command line its own fail, or restore a binding that was removed; a rollout operation of
  the service writes the old record back, `canary_passed` over `active`.

## What is proved

Eight modules of proofs state, for every value of the constants that satisfies the named
assumptions, every safety property of the passing runs: each invariant as `Spec => []P`, each
action property, and the refinement `ImplementsBudget`. The assumptions are
`GovernanceAssumption`, `AuthorityAssumption`, `FleetBaseAssumption`, `FleetLeasesAssumption`,
`FleetFencesAssumption`, `JobsAssumption`, `JobWorkerAssumption`, `SubagentsAssumption`,
`OrchestrationAssumption`, `LedgerAssumption`, `ServiceAssumption`, `AgentAssumption`,
`RolloutAssumption` and `EvolutionAssumption`, each in the module that declares the constants.
They say that values standing for "none" are distinct from the others, that bounds and durations
are numbers, that the sets whose members are counted are finite, and what the code validates
before it accepts a plan or a request; TLC evaluates them in the runs.

Where a fact needs induction over numbers or over finite sets it is proved by a least
counterexample (`WFMin` of the library), over a set rather than over a predicate.

*Authority.* `OneEffectPerApproval` is not inductive: nothing in it speaks of the runs
on their way to an effect. `Inv` adds that a run which consumed a grant and has not yet
performed its effect *holds* the approval: the row is consumed, no other run holds it
and no effect carries it (`GrantHeldOnce`); that the approvals of runs and effects are
in the table and those of effects are spent (`ApprovalsExist`, `EffectsSpend`); and that
the permit a run is about to use was issued to it for its current request, under the
verdict and the grant the effect will record (`PermitOfRun`). The proof first shows that
a step moves each approval row forward or not at all (`RowsMoveStep`), from which a
spent row stays spent with its request and version (`RowsKept`). Then each action of a
run is treated on its own; everything else is a step in which no run gains authority
(`BackgroundStep`, `EndHeld`, `QuietStep`).

*Fleet.* `Inv` is the conjunction of the properties themselves with three facts: an
active lease names a node and a supervisor's generation counts its starts
(`LeaseBookkeeping`); an operation row names a key (`OperationBookkeeping`); and the row
of a guard that is held and has not run out is in the table (`GuardRow`), which is what
makes a late drop harmless. One lemma per action of leases, fences and quiescence.

*Jobs and JobWorker.* `OneExecution` is inductive with the shape of the rows; that a finished job
keeps its outcome is a property of the table's steps alone (`JobsStepForward`).
`OneWorkerPasses` is about handles: two handles of the same fence and generation are one
worker's, no handle is ahead of its fence, and a process that serves or closes has one
(`HandlesInv`, `ProcessInv`). Calls into the
fleet by leases and heartbeats leave the fence alone (`LeaseCallsKeepFence`,
`HeartbeatCallsKeepFence`); taking it raises the generation past every handle.

*Subagents.* `SubInv` says for each row what its lifecycle, its job row, its worktree and
its spawn have to do with each other (`RowInv`), that a clean-up past its claim has its
subagent to itself and has recorded nothing it did not do (`CleanerInv`, `OneCleanup`), and
that the thread at work on a subagent is the one its row names (`ThreadInv`).
`RemovalSparesRuns` and `CancelWins` follow from it step by step.

*Orchestration and Budget.* `OrchInv` relates the tables of a run (`TablesInv`), its plan
(`PlanInv`: an active role is the worker's, within the parallelism, after its dependencies) and its
account (`AccountInv`: the ledger is the sum of the settlements and reconciliations). The
accounts need sums over finite sets, which the library defines by taking members in some
order: `SumCounts` shows that such a sum is the number of pairs of a member and a number
below its value, from which sums add, grow and stay as sets do. `StoreImplementsBudget` proves the
refinement action by action: `start_ready` holds more, within the ceiling; a settlement or a
reconciliation spends at most what it held; everything else stutters. What `Budget` promises is
then proved through the mapping: no run commits more than its ceiling (`BudgetsHold`) and what was
charged stays charged (`ChargesStand`).

*Service.* `ServiceInv` has seven parts. `Rows`: which fields of a handler are set at which step.
`LedgerInv`: a handler at work has the pending row of its key, which is what makes
`ExecutedOnce` inductive. `EvidenceInv`: what a handler has persisted by each step, in the order of the
code, and that a completed row with a good answer has its evidence, so that a replay has it
too. `FenceInv`: a handle is unique to its call, never ahead of its fence, and carries the
times of the row it belongs to. `MutationInv`: the lease of a working call is active or has run
out, a mutation holds its guard, and with `GuardRow` of `Fleet` the two exclude each other.
`OverlapInv`: of two runs that overlapped, the first had passed its check, or is behind its fence or
has failed, and is recorded nowhere. The module extends `FleetProofs`, whose lemmas it cites for leases, fences and
quiescence.

*AgentLoop.* `LoopInv`: the stored transcript pairs calls with results except for a call at its end,
which after a pause is the one its approval is for (`StoredInv`); so does the transcript of the
run under way, which ends with an open call exactly while that call is executed
(`TranscriptInv`); its batch fits the calls it has left, and what it takes for verified was
checked (`RunInv`), by a check that ran or that the guard answered. The lemmas are about sequences: appending to, cutting and splicing a
transcript. `CompactedFacts` is the important one: a history cut where
`compact_session_history` cuts it stays paired, because the cut is never at a result, and has
the same call open. That attachments break the pairing only after an open call is
`SplicedFacts` and `JoinedAppend`.

*Evolution.* `SoundInv`: in the store and in every copy, however old, a record that is active has a
passed evaluation, and the rollout it shows, if any, is complete. That is not enough for
`OnlyEarnedActivate`, which speaks of the rollout a proposal was ever given: `ConfiguredInv`
(`RolloutsStay`) adds that a record that was given a rollout still has one, until a stale record is
written. `CatalogInv`: no binding
and no base twice. `EngineInv`: what an engine knows of records and catalog at each step of a
mutation; at most one is in one, by the guard (`OneMutates`). `StoresInv`: as long as no scar, the
stores differ in one proposal at most, and that one is either about to be bound or one the
reconciliation mends. `ResolutionEnds` proves `CatalogResolves` with one more invariant, that some
ranking of the artifacts goes down with every replacement (`Acyclic`). A way that has not ended
never meets an artifact twice (`WayDescends`), so one of as many steps as there are artifacts has
ended (`WaysEnd`), and one that `resolve` gives up on has `MaxDepth` different replacements ahead; what
`catalog.activate` admits can be ranked, by raising everything that resolves to its base
(`AdmittedAcyclic`), since the end `resolve` finds within its depth is the end (`EndsAreOne`). `FollowFacts` shows that the recursive definition of `Follow` does define
what it seems to.

## Only model-checked

Liveness (`RunsFinish`, `DrainEndsInStop`, `CancelEndsRun`, `RunsEnd`), which needs fairness and
ENABLED, both out of the prover's reach; and the property that is violated
(`PauseGetsApproval`).

Some statements are weaker than they could be. `UnknownCostCharged` counts the smallest reservation
of the plan for every attempt of unknown cost. `AnsweredCallsHoldNothing` accepts any active fence once a
call was lost to a crash, since nobody knows any more whose it is. `LeaseForward` speaks of a
lease's node, and the run has one node; its theorem has any number. `ReleasedByItsHolder` is broken
by a mutant that drops both checks of the generation, `validate_fence`'s and the `UPDATE`'s. `StoresTogether`
and `RecoveryNotStuck` say nothing after a stale write, a rollback of a proposal others build on or
an uncompensated refusal, which the code does not recover from (Observations).

## Not modelled

The models cover the parts of the runtime whose correctness depends on the order of steps of
several processes. Most of the repository is not of that kind, which is why the share of its
lines that `map` names stays small (about 9 800 of 184 600, 5%): the terminal UI (10 000 lines), the command-line front
ends, request and response types, configuration, memory, retrieval and context assembly are
input and output, formatting and scoring within one process, and a model of them would repeat
the code. In the components that are modelled, what is left out is named in `PROJECT.json`:
validation and digests of stored records, search and listing, inventories, scorecard
arithmetic, package admission. Schedules and the package store keep state of their own and
are next. Identity, secrets and the sandbox are cryptography and operating-system calls; MCP
and provider clients are network I/O around the authority chain.
