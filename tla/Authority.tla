------------------------------ MODULE Authority ------------------------------
(***************************************************************************)
(* The authority chain of the runtime: several processes, each with an     *)
(* ExecutionController (policy, ReferenceMonitor, in-memory PermitStore),  *)
(* run intents concurrently and share one durable ApprovalStore.           *)
(*                                                                         *)
(* A run samples `now' once, when it starts, and walks the requests its    *)
(* gene planned: hook, Parliament, approval grant, permit, effect.  Every  *)
(* step that touches state another run can see is one action.  A crash     *)
(* loses the process's runs, permits and counters; approvals survive it.   *)
(***************************************************************************)
EXTENDS Governance, Sequences, FiniteSets

CONSTANTS
    Controllers,    \* processes that own an ExecutionController
    Runs,           \* calls in progress, over all controllers
    Nonces,         \* what the CLI hashes into an approval id to make it new
    HookDenied,     \* genes that a BeforeAuthorization hook denies
    PermitTtl,      \* permit_ttl_seconds
    ApprovalTtl,    \* 900 s in the code
    MaxTime,        \* bound: clock
    MaxExecutions,  \* bound: executions per controller incarnation
    MaxCrashes,     \* bound: crashes end once a process had that many
    NoApproval,     \* no approval id, and no row
    ServiceNonce    \* the service's ids carry no nonce

\* Approval ids: the service names them after session and execution alone
\* (service.rs), the CLI adds a nonce (run.rs).
Approvals == Sessions \X (1..MaxExecutions) \X (Nonces \cup {ServiceNonce})

ASSUME AuthorityAssumption ==
    /\ HookDenied \subseteq Genes
    /\ {PermitTtl, ApprovalTtl, MaxTime, MaxExecutions, MaxCrashes} \subseteq Nat
    /\ NoApproval \notin Approvals
    /\ NoApproval \notin ApprovalRows
    /\ ServiceNonce \notin Nonces

VARIABLES
    clock,      \* wall clock, seconds
    policy,     \* ExecutionController.policy (its parliament has the same version)
    monitor,    \* ReferenceMonitor.policy (likewise)
    nextExec,   \* ExecutionController.next_execution
    permits,    \* PermitStore.permits, by nonce; next_nonce is one past the last
    epoch,      \* incarnation of the process
    approvals,  \* the approvals table
    runs,       \* calls in progress
    effects     \* history: every effect an executor performed

vars == <<clock, policy, monitor, nextExec, permits, epoch, approvals, runs,
          effects>>

-----------------------------------------------------------------------------
\* A run between `run_at', `run_with_approval' or `run_agent_with_approval' and
\* its result.  "error" is an Err result, which carries no summary.
Terminal == {"completed", "denied", "failed", "approval_required", "error"}
Steps == {"decide", "grant", "authorize", "consume", "execute"}

IdleRun == [pc |-> "idle"]
ActiveRuns ==
    [pc : Steps \cup Terminal, ctl : Controllers, session : Sessions,
     gene : Genes, now : Nat, execution : Nat,
     approval : Approvals \cup {NoApproval}, unrequired : BOOLEAN,
     index : Nat, outcome : Outcomes, granted : BOOLEAN, permit : Nat,
     receipts : Seq(Nat)]

\* StoredPermit, with the monitor's own verdict and the grant it was issued on
\* kept as history.
StoredPermits ==
    [permit : Permits, state : PermitStates, verdict : Decisions,
     grant : Approvals \cup {NoApproval}]

\* An effect: which permit of which incarnation, for which request.
EffectRecords ==
    [ctl : Controllers, epoch : Nat, permit : Nat, request : Requests,
     verdict : Decisions, approval : Approvals \cup {NoApproval}]

IsActive(r) == runs[r].pc # "idle"
Stepping(r, pc) == runs[r].pc = pc
OnController(c) == {r \in Runs : IsActive(r) /\ runs[r].ctl = c}

CurrentRequest(run) == Request(run.session, run.execution, run.gene, run.index)
CurrentDecision(run) ==
    [outcome |-> run.outcome, request |-> CurrentRequest(run),
     version |-> policy[run.ctl].version]

Init ==
    /\ clock = 0
    /\ policy \in [Controllers -> Policies]
    /\ monitor = policy
    /\ nextExec = [c \in Controllers |-> 1]
    /\ permits = [c \in Controllers |-> << >>]
    /\ epoch = [c \in Controllers |-> 0]
    /\ approvals = [a \in Approvals |-> NoApproval]
    /\ runs = [r \in Runs |-> IdleRun]
    /\ effects = {}

-----------------------------------------------------------------------------
\* ExecutionController::run_internal up to its request loop.  The execution
\* counter advances even when the approval's execution id overrides it.
Begin(r, c, session, gene, execution, approval, unrequired) ==
    /\ ~IsActive(r)
    /\ nextExec[c] <= MaxExecutions
    /\ nextExec' = [nextExec EXCEPT ![c] = @ + 1]
    /\ runs' = [runs EXCEPT ![r] =
         [pc |-> "decide", ctl |-> c, session |-> session, gene |-> gene,
          now |-> clock, execution |-> execution, approval |-> approval,
          unrequired |-> unrequired, index |-> 1, outcome |-> "Deny",
          granted |-> FALSE, permit |-> 0, receipts |-> << >>]]
    /\ UNCHANGED <<clock, policy, monitor, permits, epoch, approvals, effects>>

\* ExecutionController::run_at
RunAt(r, c, session, gene) ==
    Begin(r, c, session, gene, nextExec[c], NoApproval, FALSE)

\* run_with_approval (unrequired = FALSE) and run_agent_with_approval (TRUE):
\* the approval must exist and belong to the session; its status is not read.
RunWithApproval(r, c, session, gene, a, unrequired) ==
    /\ approvals[a] # NoApproval
    /\ approvals[a].request.session = session
    /\ Begin(r, c, session, gene, approvals[a].request.execution, a, unrequired)

\* run_internal leaves before its request loop (no route, an unknown gene, a plan
\* that fails): an execution id is used up and nothing else happens.
RejectIntent(c) ==
    /\ nextExec[c] <= MaxExecutions
    /\ nextExec' = [nextExec EXCEPT ![c] = @ + 1]
    /\ UNCHANGED <<clock, policy, monitor, permits, epoch, approvals, runs, effects>>

\* Head of the request loop: hook, Parliament's decision and the arm it selects.
DecideArm(run) ==
    LET outcome == Decide(policy[run.ctl].version, CurrentRequest(run),
                          policy[run.ctl]).outcome
        pc == CASE run.gene \in HookDenied -> "denied"
                [] run.gene \notin HookDenied /\ outcome = "Deny" -> "denied"
                [] run.gene \notin HookDenied /\ outcome = "Allow" ->
                     IF run.approval # NoApproval /\ ~run.unrequired
                     THEN "failed" ELSE "authorize"
                [] run.gene \notin HookDenied /\ outcome = "RequireApproval" ->
                     IF run.approval # NoApproval
                     THEN "grant" ELSE "approval_required"
    IN [run EXCEPT !.pc = pc, !.outcome = outcome, !.granted = FALSE]

DecideRequest(r) ==
    /\ Stepping(r, "decide")
    /\ runs' = [runs EXCEPT ![r] =
         IF @.index > GeneEffect[@.gene].targets
         THEN [@ EXCEPT !.pc = "completed"]
         ELSE DecideArm(@)]
    /\ UNCHANGED <<clock, policy, monitor, nextExec, permits, epoch, approvals,
                   effects>>

\* Mutant: consume_grant forgets that a consumed row is spent.
GrantableTwice(row, request, now) ==
    /\ StatusAt(row, now) # "expired"
    /\ row.status \in {"approved", "consumed"}
    /\ row.request = request

\* ApprovalStore::consume_grant, one IMMEDIATE transaction.  An approved row
\* found elapsed is stored as expired.  Any error leaves run_internal through
\* `?': the summary, with the receipts collected so far, is dropped.
Grantable(row, request, now) ==
    /\ StatusAt(row, now) # "expired"
    /\ row.status = "approved"
    /\ row.request = request

\* Mutant: the controller retries a grant that was refused.
ConsumeGrantRetry(r) ==
    LET run == runs[r]
        row == approvals[run.approval]
    IN /\ Stepping(r, "grant")
       /\ Grantable(row, CurrentRequest(run), run.now)
       /\ approvals' = [approvals EXCEPT ![run.approval].status = "consumed"]
       /\ runs' = [runs EXCEPT ![r].pc = "authorize", ![r].granted = TRUE]
       /\ UNCHANGED <<clock, policy, monitor, nextExec, permits, epoch, effects>>

ConsumeGrant(r) ==
    LET run == runs[r]
        row == approvals[run.approval]
    IN /\ Stepping(r, "grant")
       /\ IF Grantable(row, CurrentRequest(run), run.now)
          THEN /\ approvals' = [approvals EXCEPT ![run.approval].status = "consumed"]
               /\ runs' = [runs EXCEPT ![r].pc = "authorize", ![r].granted = TRUE]
          ELSE /\ approvals' =
                    IF row.status = "approved" /\ StatusAt(row, run.now) = "expired"
                    THEN [approvals EXCEPT ![run.approval].status = "expired"]
                    ELSE approvals
               /\ runs' = [runs EXCEPT ![r].pc = "error", ![r].receipts = << >>]
       /\ UNCHANGED <<clock, policy, monitor, nextExec, permits, epoch, effects>>

\* Mutant: the monitor trusts the decision it is handed.
AuthorizedBlindly(run) ==
    IF run.granted
    THEN GrantMatches(approvals[run.approval], CurrentRequest(run),
                      monitor[run.ctl].version)
    ELSE run.outcome = "Allow"

\* ReferenceMonitor::authorize and authorize_after_approval_with_grant: the
\* monitor decides again under its own policy; a grant must also match it.
Authorized(run) ==
    LET request == CurrentRequest(run)
    IN /\ ValidDecision(request, CurrentDecision(run), monitor[run.ctl])
       /\ IF run.granted
          THEN /\ run.outcome = "RequireApproval"
               /\ GrantMatches(approvals[run.approval], request,
                               monitor[run.ctl].version)
          ELSE run.outcome = "Allow"

\* ReferenceMonitor::issue_permit followed by PermitStore::register.
IssuedPermit(run) ==
    LET request == CurrentRequest(run)
    IN [permit |-> [request |-> request, version |-> monitor[run.ctl].version,
                    issued |-> run.now, expires |-> run.now + PermitTtl],
        state |-> "active",
        verdict |-> Decide(monitor[run.ctl].version, request, monitor[run.ctl]),
        grant |-> IF run.granted THEN run.approval ELSE NoApproval]

Authorize(r) ==
    LET run == runs[r]
    IN /\ Stepping(r, "authorize")
       /\ IF Authorized(run)
          THEN /\ permits' = [permits EXCEPT ![run.ctl] = Append(@, IssuedPermit(run))]
               /\ runs' = [runs EXCEPT ![r].pc = "consume",
                                       ![r].permit = Len(permits[run.ctl]) + 1]
          ELSE /\ runs' = [runs EXCEPT ![r].pc = "failed"]
               /\ UNCHANGED permits
       /\ UNCHANGED <<clock, policy, monitor, nextExec, epoch, approvals, effects>>

\* PermitStore::consume of the permit just issued, at the run's own `now'.
ConsumePermit(r) ==
    LET run == runs[r]
        stored == permits[run.ctl][run.permit]
    IN /\ Stepping(r, "consume")
       /\ IF PermitUsable(stored, stored.permit, CurrentRequest(run), run.now)
          THEN /\ permits' = [permits EXCEPT ![run.ctl][run.permit].state = "consumed"]
               /\ runs' = [runs EXCEPT ![r].pc = "execute"]
          ELSE /\ runs' = [runs EXCEPT ![r].pc = "failed"]
               /\ UNCHANGED permits
       /\ UNCHANGED <<clock, policy, monitor, nextExec, epoch, approvals, effects>>

\* ExecutionController::execute_request with an executor: the executor makes a
\* receipt whether the effect succeeded or not; a failed one ends the run.
EffectOf(run) ==
    [ctl |-> run.ctl, epoch |-> epoch[run.ctl], permit |-> run.permit,
     request |-> CurrentRequest(run),
     verdict |-> permits[run.ctl][run.permit].verdict,
     approval |-> permits[run.ctl][run.permit].grant]

AfterEffect(run, succeeded) ==
    [run EXCEPT !.receipts = Append(run.receipts, run.permit),
                !.index = IF succeeded THEN run.index + 1 ELSE run.index,
                !.pc = IF succeeded THEN "decide" ELSE "failed"]

Execute(r, succeeded) ==
    LET run == runs[r]
    IN /\ Stepping(r, "execute")
       /\ effects' = effects \cup {EffectOf(run)}
       /\ runs' = [runs EXCEPT ![r] = AfterEffect(run, succeeded)]
       /\ UNCHANGED <<clock, policy, monitor, nextExec, permits, epoch, approvals>>

\* execute_request refuses before it reaches an executor (a target of the wrong
\* kind, a path outside the workspace, a missing payload): no effect, no receipt.
Refuse(r) ==
    /\ Stepping(r, "execute")
    /\ runs' = [runs EXCEPT ![r].pc = "failed"]
    /\ UNCHANGED <<clock, policy, monitor, nextExec, permits, epoch, approvals,
                   effects>>

\* The caller takes the result.
Return(r) ==
    /\ runs[r].pc \in Terminal
    /\ runs' = [runs EXCEPT ![r] = IdleRun]
    /\ UNCHANGED <<clock, policy, monitor, nextExec, permits, epoch, approvals,
                   effects>>

-----------------------------------------------------------------------------
\* Mutant: the lifetime is subtracted, and underflows.
NewApprovalUnderflow(run, version, now) ==
    [request |-> Request(run.session, run.execution, run.gene, 1),
     version |-> version,
     expires |-> now - ApprovalTtl,
     status |-> "pending"]

\* The approval of a run that stopped at the approval boundary.  Its digest is
\* the one of the run's first effect event, hence of its first request.
NewApproval(run, version, now) ==
    [request |-> Request(run.session, run.execution, run.gene, 1),
     version |-> version,
     expires |-> now + ApprovalTtl,
     status |-> "pending"]

\* create_approval of run.rs: the nonce makes the id a new one, the policy
\* version is the literal 1 and the lifetime starts at the current time.
CreateCliApproval(r, nonce) ==
    LET run == runs[r]
        id == <<run.session, run.execution, nonce>>
    IN /\ Stepping(r, "approval_required")
       /\ approvals[id] = NoApproval
       /\ approvals' = [approvals EXCEPT ![id] = NewApproval(run, 1, clock)]
       /\ runs' = [runs EXCEPT ![r] = IdleRun]
       /\ UNCHANGED <<clock, policy, monitor, nextExec, permits, epoch, effects>>

\* RuntimeService::create_approval: an id already in the table is an error, and
\* the service call ends before it saves the agent's transcript.
CreateServiceApproval(r) ==
    LET run == runs[r]
        id == <<run.session, run.execution, ServiceNonce>>
    IN /\ Stepping(r, "approval_required")
       /\ IF approvals[id] = NoApproval
          THEN /\ approvals' = [approvals EXCEPT ![id] =
                    NewApproval(run, policy[run.ctl].version, run.now)]
               /\ runs' = [runs EXCEPT ![r] = IdleRun]
          ELSE /\ runs' = [runs EXCEPT ![r].pc = "error", ![r].receipts = << >>]
               /\ UNCHANGED approvals
       /\ UNCHANGED <<clock, policy, monitor, nextExec, permits, epoch, effects>>

\* Mutant: resolve does not require a pending row.
ResolveAny(a, allow) ==
    /\ approvals[a] # NoApproval
    /\ approvals' = [approvals EXCEPT ![a].status =
         IF allow THEN "approved" ELSE "denied"]
    /\ UNCHANGED <<clock, policy, monitor, nextExec, permits, epoch, runs, effects>>

\* ApprovalStore::resolve by an operator, at the current time.
Resolve(a, allow) ==
    LET row == approvals[a]
    IN /\ row # NoApproval
       /\ row.status \in {"pending", "approved"}
       /\ StatusAt(row, clock) = "expired" \/ row.status = "pending"
       /\ approvals' = [approvals EXCEPT ![a].status =
            IF StatusAt(row, clock) = "expired" THEN "expired"
            ELSE IF allow THEN "approved" ELSE "denied"]
       /\ UNCHANGED <<clock, policy, monitor, nextExec, permits, epoch, runs,
                      effects>>

-----------------------------------------------------------------------------
\* ExecutionController::update_policy takes &mut self: no run is in progress.
UpdatePolicy(c, p) ==
    /\ OnController(c) = {}
    /\ policy' = [policy EXCEPT ![c] = p]
    /\ monitor' = [monitor EXCEPT ![c] = p]
    /\ UNCHANGED <<clock, nextExec, permits, epoch, approvals, runs, effects>>

\* reference_monitor_mut().update_policy: the monitor alone moves.
UpdateMonitorPolicy(c, p) ==
    /\ OnController(c) = {}
    /\ monitor' = [monitor EXCEPT ![c] = p]
    /\ UNCHANGED <<clock, policy, nextExec, permits, epoch, approvals, runs,
                   effects>>

\* The process dies and a new one builds a controller with some policy.
Crash(c, p) ==
    /\ \A d \in Controllers : epoch[d] < MaxCrashes
    /\ policy' = [policy EXCEPT ![c] = p]
    /\ monitor' = [monitor EXCEPT ![c] = p]
    /\ nextExec' = [nextExec EXCEPT ![c] = 1]
    /\ permits' = [permits EXCEPT ![c] = << >>]
    /\ epoch' = [epoch EXCEPT ![c] = @ + 1]
    /\ runs' = [r \in Runs |-> IF r \in OnController(c) THEN IdleRun ELSE runs[r]]
    /\ UNCHANGED <<clock, approvals, effects>>

Tick ==
    /\ clock < MaxTime
    /\ clock' = clock + 1
    /\ UNCHANGED <<policy, monitor, nextExec, permits, epoch, approvals, runs,
                   effects>>

-----------------------------------------------------------------------------
RunStep(r) ==
    \/ DecideRequest(r)
    \/ ConsumeGrant(r)
    \/ Authorize(r)
    \/ ConsumePermit(r)
    \/ \E succeeded \in BOOLEAN : Execute(r, succeeded)
    \/ Refuse(r)

Caller(r) ==
    \/ \E c \in Controllers, session \in Sessions, gene \in Genes :
         \/ RunAt(r, c, session, gene)
         \/ \E a \in Approvals, unrequired \in BOOLEAN :
              RunWithApproval(r, c, session, gene, a, unrequired)
    \/ \E nonce \in Nonces : CreateCliApproval(r, nonce)
    \/ CreateServiceApproval(r)
    \/ Return(r)

Operator ==
    \/ \E a \in Approvals, allow \in BOOLEAN : Resolve(a, allow)
    \/ \E c \in Controllers : RejectIntent(c)
    \/ \E c \in Controllers, p \in Policies :
         \/ UpdatePolicy(c, p)
         \/ UpdateMonitorPolicy(c, p)
         \/ Crash(c, p)

Next ==
    \/ \E r \in Runs : RunStep(r) \/ Caller(r)
    \/ Operator
    \/ Tick

Spec == Init /\ [][Next]_vars

\* A run is synchronous code: as long as its process lives it keeps stepping.
FairSpec == Spec /\ \A r \in Runs : WF_vars(RunStep(r))

-----------------------------------------------------------------------------
TypeOK ==
    /\ clock \in Nat
    /\ policy \in [Controllers -> Policies]
    /\ monitor \in [Controllers -> Policies]
    /\ nextExec \in [Controllers -> Nat]
    /\ permits \in [Controllers -> Seq(StoredPermits)]
    /\ epoch \in [Controllers -> Nat]
    /\ approvals \in [Approvals -> ApprovalRows \cup {NoApproval}]
    /\ runs \in [Runs -> ActiveRuns \cup {IdleRun}]
    /\ effects \subseteq EffectRecords

\* Complete mediation (reference_monitor.rs, execution_controller.rs): an effect
\* was performed only for a request that the monitor's own policy allowed when
\* the permit was issued, or that it sent to approval and for which an approval
\* of exactly that request and policy version is spent.
EffectsAuthorized ==
    \A e \in effects :
        /\ e.verdict.request = e.request
        /\ \/ e.verdict.outcome = "Allow"
           \/ /\ e.verdict.outcome = "RequireApproval"
              /\ e.approval # NoApproval
              /\ approvals[e.approval] # NoApproval
              /\ approvals[e.approval].status = "consumed"
              /\ GrantMatches(approvals[e.approval], e.request, e.verdict.version)

\* One approval, one effect (approvals.rs consume_grant): whatever runs, in
\* whatever processes, present the same approval, before and after a crash, at
\* most one effect is ever performed on it.
OneEffectPerApproval ==
    \A e, f \in effects :
        e.approval # NoApproval /\ e.approval = f.approval => e = f

-----------------------------------------------------------------------------
\* What makes the two above inductive.  A run holds an approval from the moment
\* it consumed the grant until the effect; then the effect holds it.
Holds(r) == runs[r].pc \in {"authorize", "consume", "execute"} /\ runs[r].granted

\* The approval a run was started with is in the table.
ApprovalsExist ==
    \A r \in Runs :
        /\ IsActive(r) /\ runs[r].approval # NoApproval =>
             approvals[runs[r].approval] # NoApproval
        /\ Stepping(r, "grant") \/ Holds(r) => runs[r].approval # NoApproval

\* A held approval is spent, held by one run, and has no effect yet.
GrantHeldOnce ==
    \A r \in Runs :
        Holds(r) =>
            /\ approvals[runs[r].approval].status = "consumed"
            /\ \A s \in Runs : Holds(s) /\ runs[s].approval = runs[r].approval => s = r
            /\ \A e \in effects : e.approval # runs[r].approval

\* The approval of an effect is spent.
EffectsSpend ==
    \A e \in effects :
        e.approval # NoApproval =>
            /\ approvals[e.approval] # NoApproval
            /\ approvals[e.approval].status = "consumed"

\* The permit a run is about to use was issued to it, for its current request.
IssuedTo(stored, run, row) ==
    /\ stored.verdict.request = CurrentRequest(run)
    /\ stored.grant = IF run.granted THEN run.approval ELSE NoApproval
    /\ IF run.granted
       THEN /\ stored.verdict.outcome = "RequireApproval"
            /\ GrantMatches(row, CurrentRequest(run), stored.verdict.version)
       ELSE stored.verdict.outcome = "Allow"

PermitOfRun ==
    \A r \in Runs :
        runs[r].pc \in {"consume", "execute"} =>
            /\ runs[r].permit \in 1..Len(permits[runs[r].ctl])
            /\ IssuedTo(permits[runs[r].ctl][runs[r].permit], runs[r],
                        approvals[runs[r].approval])

Inv ==
    /\ TypeOK
    /\ ApprovalsExist /\ GrantHeldOnce /\ EffectsSpend /\ PermitOfRun
    /\ EffectsAuthorized /\ OneEffectPerApproval

\* An approval only moves forward (approvals.rs resolve, consume_grant): a
\* denied, expired or consumed row never changes, and an approved one is never
\* pending again.
ApprovalForward ==
    [][\A a \in Approvals :
         approvals[a] # NoApproval /\ approvals'[a] # approvals[a] =>
            <<approvals[a].status, approvals'[a].status>> \in
               {<<"pending", "approved">>, <<"pending", "denied">>,
                <<"pending", "expired">>, <<"approved", "consumed">>,
                <<"approved", "expired">>}]_vars

\* An approval pause keeps its pending call (docs/CLI.md): when a service run
\* stops at the approval boundary, the id its approval will get is free.
PauseGetsApproval ==
    \A r \in Runs :
        Stepping(r, "approval_required") =>
            approvals[<<runs[r].session, runs[r].execution, ServiceNonce>>] = NoApproval

\* Every run ends (run_internal): it reaches a result, unless its process dies.
RunsFinish ==
    \A r \in Runs : runs[r].pc \in Steps ~> runs[r].pc \notin Steps
=============================================================================
