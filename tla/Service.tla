------------------------------- MODULE Service -------------------------------
(***************************************************************************)
(* A runtime service process: the RPC handlers that execute work, composed  *)
(* with the RPC ledger, the fleet tables and the session and approval       *)
(* stores.  Handlers run concurrently on the server's threads; each store   *)
(* call is one transaction and one step, and the process may die between    *)
(* any two.                                                                *)
(*                                                                         *)
(* A call is one delivery of a client's request; duplicates and retries are *)
(* further calls of the same request.  A call's id also stands for its      *)
(* lease, its execution and the approval it may create.  Sessions are the   *)
(* fence keys "service-execution:{session}".  What a run does is Authority's *)
(* subject: here it has an effect or none, pauses or fails.                 *)
(***************************************************************************)
EXTENDS Fleet, RpcLedger, Sequences, SequencesExt

CONSTANTS
    Calls,          \* deliveries; also the lease ids of Fleet
    Existing,       \* sessions created by earlier runs
    NoSession,      \* a request that names none
    ServiceNode,    \* the node of with_fleet
    ServiceLease,   \* 60 * 60, the duration of leases, fences and guards
    Mutations,      \* evolution mutations; also the quiescence owners of Fleet
    MaxStarts       \* bound: starts of the process

ASSUME ServiceAssumption ==
    /\ Leases = Calls /\ Owners = Mutations
    /\ Existing \subseteq Keys
    /\ NoSession \notin Keys \cup Calls
    /\ ServiceNode \in Nodes /\ ServiceNode \in FenceOwners
    /\ ServiceLease \in Nat \ {0} /\ MaxStarts \in Nat
    /\ Responses = {"completed", "approval_required", "error"}
    /\ \A r \in Requests :
         \/ r.method = "run.execute" /\ r.target = NoSession
         \/ r.method = "agent.execute" /\ r.target \in Keys \cup {NoSession}
         \/ r.method \in {"run.resume", "agent.resume"} /\ r.target \in Calls

VARIABLES
    calls,          \* the handlers
    sessions,       \* sessions, session_events and agent_messages
    approvals,      \* by the execution that paused
    mutation,       \* activate_evolution and rollback_evolution
    starts,         \* service processes so far; at most one lives at a time
    effects,        \* history: the calls that had an effect
    executed,       \* history: the calls the ledger let through
    overlapped      \* history: runs that were overtaken by another of their session

history == <<effects, executed, overlapped>>
serviceVars == <<calls, sessions, approvals, mutation, starts, history>>
allVars == <<vars, ledger, serviceVars>>

Gated == {"expire", "lease", "fence"}
Working == {"execute", "assert"}
Persisting == {"create", "append", "save", "approve"}
Closing == {"unlease", "unfence", "complete"}
Steps == {"idle", "read"} \cup Gated \cup Working \cup Persisting \cup Closing
         \cup {"done", "lost"}
Outcomes == {"none", "completed", "approval_required", "error"}
Refusals == {"conflict", "in_progress", "unavailable", "completion_failed"}

Turn == [call : Calls, paused : BOOLEAN]
CallRows ==
    [pc : Steps, request : Requests \cup {NoRequest}, now : Nat,
     session : Keys \cup {NoSession}, history : Seq(Turn), fence : Nat,
     outcome : Outcomes, answer : Responses \cup Refusals \cup {NoResponse}]
SessionRows == [exists : BOOLEAN, events : SUBSET Calls, transcript : Seq(Turn)]
ApprovalStates == {"none", "pending", "approved", "consumed"}

\* The first run was under way when the second was given the session's fence;
\* `checked' says that the first had passed assert_current by then.
Overlaps == [first : Calls, second : Calls, checked : BOOLEAN]

Idle ==
    [pc |-> "idle", request |-> NoRequest, now |-> 0, session |-> NoSession,
     history |-> <<>>, fence |-> 0, outcome |-> "none", answer |-> NoResponse]

ServiceInit ==
    /\ Init /\ LedgerInit
    /\ calls = [c \in Calls |-> Idle]
    /\ sessions = [s \in Keys |->
         [exists |-> s \in Existing, events |-> {}, transcript |-> <<>>]]
    /\ approvals = [c \in Calls |-> [state |-> "none", session |-> NoSession]]
    /\ mutation = [m \in Mutations |-> "idle"]
    /\ starts = 0
    /\ effects = {} /\ executed = {} /\ overlapped = {}

At(c, step) == calls[c].pc = step
Goto(c, step) == calls' = [calls EXCEPT ![c].pc = step]
\* `?' on an error: what the handler holds is dropped, the error is the answer.
Fail(c, step) == calls' = [calls EXCEPT ![c].pc = step, ![c].outcome = "error"]
Answer(c, r, answer) ==
    calls' = [calls EXCEPT ![c] = [Idle EXCEPT !.pc = "done", !.request = r, !.answer = answer]]
Agent(c) == calls[c].request.method \in {"agent.execute", "agent.resume"}

\* evolution_gate: handlers share it while they acquire, a mutation owns it.
GateWriter == \E m \in Mutations : mutation[m] = "mutate"
GateReaders == {c \in Calls : calls[c].pc \in Gated}

-----------------------------------------------------------------------------
(* The process                                                               *)

\* A process is started, for the first time or because its predecessor died at
\* any point: handlers and mutations have vanished, tables stay, a quiescence
\* guard was not dropped.  with_fleet then expires leases and registers the node.
Start ==
    /\ starts < MaxStarts
    /\ starts' = starts + 1
    /\ calls' = [c \in Calls |->
         IF calls[c].pc \in {"idle", "done"} THEN calls[c]
         ELSE [Idle EXCEPT !.pc = "lost", !.request = calls[c].request]]
    /\ mutation' = [m \in Mutations |->
         IF mutation[m] = "idle" THEN "idle" ELSE "done"]
    /\ leases' = Expired(Leases, clock)
    /\ nodes' = [nodes EXCEPT ![ServiceNode] = IF @ = "absent" THEN "ready" ELSE @]
    /\ UNCHANGED <<supervisors, baseVars, fenceVars, ledger, sessions, approvals, history>>

-----------------------------------------------------------------------------
(* handle_mutating_rpc and dispatch_service_request                          *)

BeginRpc(c, r) ==
    /\ starts > 0 /\ At(c, "idle")
    /\ \/ /\ RpcBegin(r) = "execute"
          /\ Reserve(r)
          /\ calls' = [calls EXCEPT ![c].pc = "read", ![c].request = r, ![c].now = clock]
          /\ executed' = executed \cup {c}
       \/ /\ RpcBegin(r) = "replay"
          /\ Answer(c, r, ledger[r.key].response)
          /\ UNCHANGED <<ledger, executed>>
       \/ /\ RpcBegin(r) \in Refusals
          /\ Answer(c, r, RpcBegin(r))
          /\ UNCHANGED <<ledger, executed>>
    /\ UNCHANGED <<vars, sessions, approvals, mutation, starts, effects, overlapped>>

\* allocate_session: a name no session has, stored or not.
Unused(s) ==
    /\ ~sessions[s].exists /\ fences[s].state = "absent"
    /\ \A c \in Calls : calls[c].session # s

\* The session a request names.
Named(r) ==
    IF r.method = "agent.execute" THEN r.target ELSE approvals[r.target].session

Stored(s) == s \in Keys /\ sessions[s].exists

\* The handler's first lines: a session by name with its transcript, or a new
\* one; an agent's is stored at once, a run's when the run is over.  Nothing is
\* held yet.
ReadSession(c) ==
    LET r == calls[c].request
    IN /\ At(c, "read")
       /\ \/ /\ r.target # NoSession
             /\ Stored(Named(r))
             /\ calls' = [calls EXCEPT ![c].pc = "expire", ![c].session = Named(r),
                            ![c].history = IF Agent(c) THEN sessions[Named(r)].transcript
                                           ELSE <<>>]
             /\ UNCHANGED sessions
          \/ /\ r.target = NoSession
             /\ \E s \in Keys :
                  /\ Unused(s)
                  /\ calls' = [calls EXCEPT ![c].pc = "expire", ![c].session = s]
                  /\ sessions' = [sessions EXCEPT ![s].exists = Agent(c)]
          \/ /\ r.target # NoSession
             /\ ~Stored(Named(r))
             /\ Fail(c, "complete")
             /\ UNCHANGED sessions
       /\ UNCHANGED <<vars, ledger, approvals, mutation, starts, history>>

-----------------------------------------------------------------------------
(* acquire_execution_lease, under the gate; `now' is the request's           *)

Expire(c) ==
    /\ At(c, "expire")
    /\ ~GateWriter
    /\ ExpireLeases(calls[c].now) /\ UNCHANGED fenceVars
    /\ Goto(c, "lease")
    /\ UNCHANGED <<ledger, sessions, approvals, mutation, starts, history>>

\* Mutant: a handler that is given no lease goes on.
TakeLeaseOrNone(c) ==
    /\ At(c, "lease")
    /\ \/ AcquireLease(c, ServiceNode, calls[c].now, ServiceLease) /\ UNCHANGED fenceVars
       \/ UNCHANGED vars
    /\ Goto(c, "fence")
    /\ UNCHANGED <<ledger, sessions, approvals, mutation, starts, history>>

TakeLease(c) ==
    /\ At(c, "lease")
    /\ \/ /\ AcquireLease(c, ServiceNode, calls[c].now, ServiceLease) /\ UNCHANGED fenceVars
          /\ Goto(c, "fence")
       \/ /\ ~AcceptsWork(ServiceNode) \/ ~WorkPermitted(calls[c].now)
          /\ Fail(c, "complete") /\ UNCHANGED vars
    /\ UNCHANGED <<ledger, sessions, approvals, mutation, starts, history>>

\* What it means for the runs of its session that call c is given the fence.
Overtakes(c, s) ==
    {[first |-> d, second |-> c, checked |-> calls[d].pc \in Persisting] :
       d \in {d \in Calls : calls[d].session = s /\ calls[d].pc \in Working \cup Persisting}}

\* Mutant: the error path leaves the lease.
TakeFenceKeepsLease(c) ==
    LET s == calls[c].session
    IN /\ At(c, "fence")
       /\ \/ /\ AcquireFence(s, ServiceNode, calls[c].now, ServiceLease)
             /\ UNCHANGED leaseVars
             /\ calls' = [calls EXCEPT ![c].pc = "execute", ![c].fence = NextGeneration(s)]
             /\ overlapped' = overlapped \cup Overtakes(c, s)
          \/ /\ \/ fences[s].state = "active" /\ fences[s].expires > calls[c].now
                \/ ~WorkPermitted(calls[c].now)
             /\ Fail(c, "complete") /\ UNCHANGED <<vars, overlapped>>
       /\ UNCHANGED <<ledger, sessions, approvals, mutation, starts, effects, executed>>

\* A fence that is held, by a handler or in the name of a dead process, fails
\* the request; the lease is given back.
TakeFence(c) ==
    LET s == calls[c].session
    IN /\ At(c, "fence")
       /\ \/ /\ AcquireFence(s, ServiceNode, calls[c].now, ServiceLease)
             /\ UNCHANGED leaseVars
             /\ calls' = [calls EXCEPT ![c].pc = "execute", ![c].fence = NextGeneration(s)]
             /\ overlapped' = overlapped \cup Overtakes(c, s)
          \/ /\ \/ fences[s].state = "active" /\ fences[s].expires > calls[c].now
                \/ ~WorkPermitted(calls[c].now)
             /\ Fail(c, "unlease") /\ UNCHANGED <<vars, overlapped>>
       /\ UNCHANGED <<ledger, sessions, approvals, mutation, starts, effects, executed>>

-----------------------------------------------------------------------------
(* The run                                                                   *)

Resumes(c) == calls[c].request.method \in {"run.resume", "agent.resume"}

\* An agent resumes at the pending call with which its history ends.
Pending(c) ==
    Agent(c) => calls[c].history # <<>> /\ Last(calls[c].history).paused

\* consume_grant: the approval is approved and the pending call's own.
Spendable(c) ==
    /\ approvals[calls[c].request.target].state = "approved"
    /\ Agent(c) => Last(calls[c].history).call = calls[c].request.target

\* controller.run_* and loop_engine.run_*: an effect or none, then a result, a
\* pause or an error.  A resumed run may spend its approval and then fail, or be
\* denied and spend nothing.  A resumed `run' has no effect without its approval
\* and no other request to pause at; an agent's call may need no approval any
\* more, and it has other calls to make.
Execute(c) ==
    /\ At(c, "execute")
    /\ \E acts, spends \in BOOLEAN, outcome \in {"completed", "approval_required", "error"} :
         /\ spends => Resumes(c) /\ Pending(c) /\ Spendable(c)
         /\ Resumes(c) /\ ~Pending(c) => ~acts /\ outcome = "error"
         /\ calls[c].request.method = "run.resume" =>
              (acts => spends) /\ outcome # "approval_required"
         /\ effects' = IF acts THEN effects \cup {c} ELSE effects
         /\ approvals' = IF spends
                         THEN [approvals EXCEPT ![calls[c].request.target].state = "consumed"]
                         ELSE approvals
         /\ calls' = [calls EXCEPT ![c].outcome = outcome, ![c].pc = "assert"]
    /\ UNCHANGED <<vars, ledger, sessions, mutation, starts, executed, overlapped>>

\* What is persisted first.
FirstRecord(c) ==
    IF calls[c].request.method = "run.execute" THEN "create"
    ELSE IF Agent(c) /\ calls[c].outcome = "approval_required" THEN "approve"
    ELSE "append"

\* Mutant: the fence is not looked at again once the run is over.
AssertNothing(c) ==
    /\ At(c, "assert")
    /\ Goto(c, IF calls[c].outcome = "error" THEN "unlease" ELSE FirstRecord(c))
    /\ UNCHANGED <<vars, ledger, sessions, approvals, mutation, starts, history>>

\* assert_current, at the time the request came in.
AssertCurrent(c) ==
    /\ At(c, "assert")
    /\ \/ /\ calls[c].outcome # "error"
          /\ FenceValid(calls[c].session, calls[c].fence, calls[c].now)
          /\ Goto(c, FirstRecord(c))
       \/ /\ \/ calls[c].outcome = "error"
             \/ ~FenceValid(calls[c].session, calls[c].fence, calls[c].now)
          /\ Fail(c, "unlease")
    /\ UNCHANGED <<vars, ledger, sessions, approvals, mutation, starts, history>>

-----------------------------------------------------------------------------
(* Its evidence: for a run the session, the execution and the approval, for  *)
(* an agent the approval, the executions and the transcript.                 *)

CreateSession(c) ==
    /\ At(c, "create")
    /\ sessions' = [sessions EXCEPT ![calls[c].session].exists = TRUE]
    /\ Goto(c, "append")
    /\ UNCHANGED <<vars, ledger, approvals, mutation, starts, history>>

\* After the execution is appended.
NextRecord(c) ==
    IF Agent(c) THEN "save"
    ELSE IF calls[c].outcome = "approval_required" THEN "approve" ELSE "unlease"

\* An agent that had no effect and did not pause has no execution to append.
HasExecution(c) == ~Agent(c) \/ c \in effects \/ calls[c].outcome = "approval_required"

\* Mutant: an execution that cannot be stored is skipped.
AppendExecutionOrSkip(c) ==
    /\ At(c, "append")
    /\ \/ /\ HasExecution(c)
          /\ sessions' = [sessions EXCEPT ![calls[c].session].events = @ \cup {c}]
          /\ Goto(c, NextRecord(c))
       \/ /\ UNCHANGED sessions
          /\ Goto(c, NextRecord(c))
    /\ UNCHANGED <<vars, ledger, approvals, mutation, starts, history>>

\* persist_execution; append_execution refuses an event that is too large.
AppendExecution(c) ==
    /\ At(c, "append")
    /\ \/ /\ HasExecution(c)
          /\ sessions' = [sessions EXCEPT ![calls[c].session].events = @ \cup {c}]
          /\ Goto(c, NextRecord(c))
       \/ /\ ~HasExecution(c)
          /\ UNCHANGED sessions
          /\ Goto(c, NextRecord(c))
       \/ /\ HasExecution(c)
          /\ UNCHANGED sessions
          /\ Fail(c, "unlease")
    /\ UNCHANGED <<vars, ledger, approvals, mutation, starts, history>>

\* save_agent_transcript: the stored messages are replaced by those of this
\* run, which begin with the history it read; or they are too many.
SaveTranscript(c) ==
    LET turn == [call |-> c, paused |-> calls[c].outcome = "approval_required"]
    IN /\ At(c, "save")
       /\ \/ /\ sessions' = [sessions EXCEPT ![calls[c].session].transcript =
                               Append(calls[c].history, turn)]
             /\ Goto(c, "unlease")
          \/ /\ Fail(c, "unlease")
             /\ UNCHANGED sessions
       /\ UNCHANGED <<vars, ledger, approvals, mutation, starts, history>>

\* create_approval; it fails on an id that exists, which a process before this
\* one may have left (Authority's PauseGetsApproval).
CreateApproval(c) ==
    /\ At(c, "approve")
    /\ \/ /\ approvals' = [approvals EXCEPT ![c] =
               [state |-> "pending", session |-> calls[c].session]]
          /\ Goto(c, IF Agent(c) THEN "append" ELSE "unlease")
       \/ Fail(c, "unlease") /\ UNCHANGED approvals
    /\ UNCHANGED <<vars, ledger, sessions, mutation, starts, history>>

\* approval.resolve or `approval approve'.
ResolveApproval(a) ==
    /\ approvals[a].state = "pending"
    /\ approvals' = [approvals EXCEPT ![a].state = "approved"]
    /\ UNCHANGED <<vars, ledger, calls, sessions, mutation, starts, history>>

-----------------------------------------------------------------------------
(* Drop for ActiveServiceLease, then the answer                              *)

ReleaseServiceLease(c) ==
    /\ At(c, "unlease")
    /\ \/ ReleaseLease(c) /\ UNCHANGED fenceVars
       \/ leases[c].state # "active" /\ UNCHANGED vars
    /\ Goto(c, IF calls[c].fence = 0 THEN "complete" ELSE "unfence")
    /\ UNCHANGED <<ledger, sessions, approvals, mutation, starts, history>>

\* One second before the handle's expiry, whatever the time is.
ReleaseServiceFence(c) ==
    LET s == calls[c].session
        last == calls[c].now + ServiceLease - 1
    IN /\ At(c, "unfence")
       /\ \/ ReleaseFence(s, calls[c].fence, last) /\ UNCHANGED leaseVars
          \/ ~FenceValid(s, calls[c].fence, last) /\ UNCHANGED vars
       /\ Goto(c, "complete")
       /\ UNCHANGED <<ledger, sessions, approvals, mutation, starts, history>>

\* The outcome is stored and answered; a result that is too large is not
\* stored and its row stays pending (an error is a code).
CompleteRpc(c) ==
    LET r == calls[c].request
    IN /\ At(c, "complete")
       /\ \/ Complete(r, calls[c].outcome) /\ Answer(c, r, calls[c].outcome)
          \/ /\ calls[c].outcome # "error"
             /\ Answer(c, r, "completion_failed") /\ UNCHANGED ledger
       /\ UNCHANGED <<vars, sessions, approvals, mutation, starts, history>>

-----------------------------------------------------------------------------
(* activate_evolution and rollback_evolution                                 *)

\* The gate, then ensure_evolution_quiescent with a `now' from before the wait.
\* A refusal gives the gate back and leaves nothing.
StartMutation(m) ==
    /\ starts > 0
    /\ mutation[m] = "idle"
    /\ ~GateWriter /\ GateReaders = {}
    /\ \E now \in 0..clock : AcquireQuiescence(m, now, ServiceLease)
    /\ mutation' = [mutation EXCEPT ![m] = "mutate"]
    /\ UNCHANGED <<ledger, calls, sessions, approvals, starts, history>>

\* The mutation is over: the guard is dropped, then the gate.
EndMutation(m) ==
    /\ mutation[m] = "mutate"
    /\ DropGuard(m)
    /\ mutation' = [mutation EXCEPT ![m] = "done"]
    /\ UNCHANGED <<ledger, calls, sessions, approvals, starts, history>>

-----------------------------------------------------------------------------
CallStep(c) ==
    \/ ReadSession(c)
    \/ Expire(c) \/ TakeLease(c) \/ TakeFence(c)
    \/ Execute(c) \/ AssertCurrent(c)
    \/ CreateSession(c) \/ AppendExecution(c) \/ SaveTranscript(c) \/ CreateApproval(c)
    \/ ReleaseServiceLease(c) \/ ReleaseServiceFence(c) \/ CompleteRpc(c)

ServiceNext ==
    \/ Start
    \/ \E c \in Calls, r \in Requests : BeginRpc(c, r)
    \/ \E c \in Calls : CallStep(c) \/ ResolveApproval(c)
    \/ \E m \in Mutations : StartMutation(m) \/ EndMutation(m)
    \/ Tick /\ UNCHANGED <<ledger, serviceVars>>

ServiceSpec == ServiceInit /\ [][ServiceNext]_allVars

-----------------------------------------------------------------------------
ServiceTypeOK ==
    /\ LedgerTypeOK
    /\ calls \in [Calls -> CallRows]
    /\ sessions \in [Keys -> SessionRows]
    /\ approvals \in [Calls -> [state : ApprovalStates, session : Keys \cup {NoSession}]]
    /\ mutation \in [Mutations -> {"idle", "mutate", "done"}]
    /\ starts \in Nat
    /\ effects \subseteq executed /\ executed \subseteq Calls
    /\ overlapped \subseteq Overlaps

\* At most once (handle_mutating_rpc, RpcLedger; CLI.md "An interrupted pending
\* request is not automatically re-executed after restart"): however often a
\* request is delivered, at once, after its answer or after a crash, and whatever
\* other request carries its key, one call of a key is executed.
ExecutedOnce ==
    \A c, d \in executed : calls[c].request.key = calls[d].request.key => c = d

\* A successful answer is backed by evidence (persist_execution before the answer;
\* the ledger replays it for ever): whoever is told that a request completed or
\* waits for approval, at first hand or by a replay, the execution behind it is in
\* its session's events if it had an effect, and the approval it waits for exists.
AnswersAreRecorded ==
    \A c \in Calls, d \in executed :
        calls[c].answer \in {"completed", "approval_required"} /\ calls[d].request = calls[c].request =>
            /\ d \in effects => \E s \in Keys : sessions[s].exists /\ d \in sessions[s].events
            /\ calls[c].answer = "approval_required" => approvals[d].state # "none"

\* One run of a session counts (the fence, assert_current): of two runs of a
\* session that were under way at the same time, because the first outlived its
\* fence, at most one is recorded, unless the first had passed its check before
\* the second was given the fence.  The check does not hold the fence while the
\* evidence is written: that is the one way in which both are recorded.
OverlappingRunsRecordOne ==
    \A o \in overlapped, s \in Keys :
        {o.first, o.second} \subseteq sessions[s].events => o.checked

\* An evolution mutation finds no execution under way (acquire_execution_lease,
\* ensure_evolution_quiescent; FLEET.md "to block new leases ... while a mutation
\* is in progress"): while its guard has not run out, only a run that outlived its
\* own lease can still be executing.
MutationsRunAlone ==
    \A m \in Mutations, c \in Calls :
        /\ mutation[m] = "mutate" /\ clock < guards[m].expires
        /\ calls[c].pc \in Working
        => clock >= calls[c].now + ServiceLease

\* A handler leaves nothing behind (Drop for ActiveServiceLease and the error path
\* of acquire_execution_lease): once a call is answered, its lease and its fence
\* are free for the next one, whichever way the handler ended.  A process that
\* died leaves fences whose handler is no longer known.
AnsweredCallsHoldNothing ==
    /\ ServiceTypeOK
    /\ \A c \in Calls : calls[c].pc = "done" => leases[c].state # "active"
    /\ \A s \in Keys :
         fences[s].state = "active" =>
             \E c \in Calls :
                 \/ calls[c].pc = "lost"
                 \/ calls[c].session = s /\ calls[c].fence = fences[s].generation
=============================================================================
