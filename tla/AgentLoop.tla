------------------------------ MODULE AgentLoop ------------------------------
(***************************************************************************)
(* AgentLoop::run_with_context and what the CLI does around it: successive  *)
(* runs of an agent on one session, each a bounded loop of model turns and  *)
(* tool calls that starts from the stored transcript and ends by replacing  *)
(* it, by pausing for an approval, or by an error that stores nothing.      *)
(*                                                                         *)
(* The session's fence makes runs of a session sequential (Service has the  *)
(* cases where it does not).  A tool call is its signature, the name and    *)
(* arguments; how a call is authorized is Authority's subject: here a call  *)
(* runs, is denied, or needs an approval.  A message is its role and what   *)
(* it is about.                                                            *)
(***************************************************************************)
EXTENDS Naturals, Sequences, SequencesExt, FiniteSets, FiniteSetsExt

CONSTANTS
    Edits,          \* calls of workspace.patch and workspace.replace
    Checks,         \* calls of workspace.verify and workspace.test
    AutoVerify,     \* workspace.verify without arguments
    NoAction,
    MaxTurns,       \* max_turns
    MaxToolCalls,   \* max_tool_calls
    MaxDuplicates,  \* 3, the repeats that end a run
    Window,         \* DEFAULT_HISTORY_WINDOW_TURNS
    MaxHistory,     \* 120, the messages a run accepts
    MaxStored,      \* MAX_AGENT_MESSAGES
    MaxBatch,       \* bound: tool calls of one reply
    MaxRuns         \* bound: runs of the session

Actions == Edits \cup Checks

ASSUME AgentAssumption ==
    /\ Edits \cap Checks = {} /\ AutoVerify \in Checks /\ NoAction \notin Actions
    /\ {MaxTurns, MaxToolCalls, MaxDuplicates, Window, MaxBatch} \subseteq Nat \ {0}
    /\ {MaxHistory, MaxStored, MaxRuns} \subseteq Nat
    /\ Actions \cap {"task", "gate", "context", "summary", "text"} = {}

VARIABLES
    stored,         \* agent_messages of the session
    run,            \* the run under way, or how the last one ended
    runs,           \* runs so far
    approvals,      \* by the run that paused
    check,          \* history: what the last check since the last edit of this run came to
    interrupted     \* history: an attachment has come between a call and its result

vars == <<stored, run, runs, approvals, check, interrupted>>

Message ==
    [role : {"user"}, about : {"task", "gate", "context", "summary"}]
    \cup [role : {"assistant"}, about : {"text"} \cup Actions]
    \cup [role : {"tool"}, about : Actions]
User(about) == [role |-> "user", about |-> about]
Text == [role |-> "assistant", about |-> "text"]
Call(a) == [role |-> "assistant", about |-> a]
Result(a) == [role |-> "tool", about |-> a]

Ends == {"none", "completed", "paused", "gate_paused", "stopped", "error"}
RunRows ==
    [pc : {"idle", "turn", "conclude", "call", "execute"}, outcome : Ends,
     goal : BOOLEAN, approval : 0..MaxRuns, attached : BOOLEAN, base : Nat,
     messages : Seq(Message), turn : 0..MaxTurns, calls : 0..MaxToolCalls,
     batch : Seq(Actions), failed : SUBSET Actions, duplicates : Nat,
     modified : BOOLEAN, verified : BOOLEAN]
ApprovalRows ==
    [state : {"none", "pending", "approved", "consumed"}, action : Actions \cup {NoAction}]

Ended(outcome) ==
    [pc |-> "idle", outcome |-> outcome, goal |-> FALSE, approval |-> 0,
     attached |-> FALSE, base |-> 0, messages |-> <<>>, turn |-> 0, calls |-> 0,
     batch |-> <<>>, failed |-> {}, duplicates |-> 0, modified |-> FALSE,
     verified |-> FALSE]

Init ==
    /\ stored = <<>>
    /\ run = Ended("none")
    /\ runs = 0
    /\ approvals = [i \in 1..MaxRuns |-> [state |-> "none", action |-> NoAction]]
    /\ check = "none" /\ interrupted = FALSE

-----------------------------------------------------------------------------
(* The history a run starts from                                             *)

\* Mutant: the window may open on a tool result.
CutAnywhere(h) == Len(h) - 2 * Window + 1

\* The first message compact_session_history keeps: from the Window-th last user message on, else the last 2 * Window messages,
\* never from a tool result on.
CutAt(h) ==
    LET users == {i \in DOMAIN h : h[i].role = "user"}
        tails == {i \in users : Cardinality({j \in users : j >= i}) = Window}
        turn == IF tails = {} THEN 1 ELSE Max(tails)
        first == IF turn = 1 THEN Len(h) - 2 * Window + 1 ELSE turn
        kept == {i \in first..Len(h) : h[i].role # "tool"}
    IN IF kept = {} THEN 1 ELSE Min(kept)

Compacted(h) ==
    IF Len(h) <= 2 * Window \/ CutAt(h) = 1 THEN h
    ELSE <<User("summary"), Text>> \o SubSeq(h, CutAt(h), Len(h))

\* A call that ends the history has not been answered.
Pending(h) ==
    IF h # <<>> /\ Last(h).role = "assistant" /\ Last(h).about \in Actions
    THEN <<Last(h).about>> ELSE <<>>

\* A pending call nobody approved is answered as cancelled.
Superseded(h) == [i \in DOMAIN Pending(h) |-> Result(Pending(h)[i])]

\* run_with_context up to the loop.  A task opens a turn; an approval opens the
\* pending call, and has no task.
StartRun(goal, attached, approval) ==
    LET h == Compacted(stored)
        opened == [Ended("none") EXCEPT
                     !.pc = IF approval = 0 THEN "turn" ELSE "execute",
                     !.goal = goal, !.approval = approval, !.attached = attached,
                     !.base = Len(h),
                     !.messages = IF approval = 0 THEN h \o Superseded(h) \o <<User("task")>> ELSE h,
                     !.batch = IF approval = 0 THEN <<>> ELSE Pending(h),
                     !.calls = IF approval = 0 THEN 0 ELSE 1]
    IN /\ run.pc = "idle"
       /\ runs < MaxRuns
       /\ approval # 0 => approvals[approval].state # "none" /\ ~attached
       /\ runs' = runs + 1
       /\ run' = IF Len(h) > MaxHistory \/ (approval # 0 /\ Pending(h) = <<>>)
                 THEN Ended("error") ELSE opened
       /\ check' = "none"
       /\ interrupted' = (interrupted \/ (attached /\ Pending(h) # <<>>))
       /\ UNCHANGED <<stored, approvals>>

-----------------------------------------------------------------------------
(* Ending a run                                                              *)

\* persisted_messages and provider_messages: the attachments come after the
\* history.
Transcript(r) ==
    IF r.attached
    THEN SubSeq(r.messages, 1, r.base) \o <<User("context")>>
         \o SubSeq(r.messages, r.base + 1, Len(r.messages))
    ELSE r.messages

\* save_agent_transcript; too long a transcript is refused.
Save(r, outcome) ==
    \/ /\ Len(Transcript(r)) > MaxStored
       /\ run' = Ended("error")
       /\ UNCHANGED stored
    \/ /\ Len(Transcript(r)) <= MaxStored
       /\ run' = Ended(outcome)
       /\ stored' = Transcript(r)

\* save_agent_transcript, then create_approval in a store of its own: the process
\* may end between the two.
Pause(r, outcome, action) ==
    \/ /\ Save(r, outcome)
       /\ approvals' = IF run'.outcome = outcome
                       THEN [approvals EXCEPT ![runs] = [state |-> "pending", action |-> action]]
                       ELSE approvals
    \/ Save(r, "error") /\ UNCHANGED approvals

\* Any other error, or the end of the process: nothing is stored.
Abandon == run' = Ended("error") /\ UNCHANGED stored

-----------------------------------------------------------------------------
(* A turn                                                                    *)

\* The provider answers with a text or with tool calls, if a turn is left; the
\* calls must be within the budget.
Reply(text, batch) ==
    /\ run.pc = "turn"
    /\ \/ /\ run.turn = MaxTurns \/ run.calls + Len(batch) > MaxToolCalls
          /\ Abandon
       \/ /\ run.turn < MaxTurns /\ run.calls + Len(batch) <= MaxToolCalls
          /\ run' = [run EXCEPT !.pc = IF text THEN "conclude" ELSE "call",
                                !.turn = @ + 1, !.batch = batch]
          /\ UNCHANGED stored
    /\ UNCHANGED <<runs, approvals, check, interrupted>>

\* Mutant: the message is left to the result.
PushLater ==
    /\ run.pc = "call"
    /\ run' = [run EXCEPT !.pc = "execute", !.calls = @ + 1]
    /\ UNCHANGED <<stored, runs, approvals, check, interrupted>>

\* Each call of a reply becomes a message of its own before it is executed.
PushCall ==
    /\ run.pc = "call"
    /\ run' = [run EXCEPT !.pc = "execute", !.calls = @ + 1,
                          !.messages = Append(@, Call(Head(run.batch)))]
    /\ UNCHANGED <<stored, runs, approvals, check, interrupted>>

-----------------------------------------------------------------------------
(* execute_tool                                                              *)

\* What a call can come to.  The guard answers a call that failed before; an edit
\* may be refused before the controller sees it; a check may run and exit with a
\* failure, which the executor reports as a completed process and whose output the
\* controller drops.
Results(a) ==
    IF a \in run.failed THEN {"guarded"}
    ELSE {"ran", "failed", "approval"}
         \cup (IF a \in Edits THEN {"refused"} ELSE {"red"})

\* With an approval no pause is left: the call runs or fails, if policy allows it
\* without, or by consuming an approval of this very call.
Granted(a) ==
    /\ run.approval # 0
    /\ approvals[run.approval] = [state |-> "approved", action |-> a]

\* ConvergenceTracker.
Tracked(r, a, result) ==
    [r EXCEPT !.failed = IF result \in {"failed", "refused"} THEN @ \cup {a} ELSE @ \ {a},
              !.duplicates = IF result \in {"ran", "red"} THEN 0 ELSE @]

\* Mutant: a check counts as a verification however it ends.
AnyCheck(r, a, result) ==
    IF a \in Edits /\ result # "failed" THEN [r EXCEPT !.modified = TRUE, !.verified = FALSE]
    ELSE IF a \in Checks THEN [r EXCEPT !.verified = TRUE]
    ELSE r

\* What the loop concludes from the text of a result.  A refusal, the guard's
\* answer and the empty output of a check that ran, however it exited, have none of
\* the words it takes for a failure.
Noted(r, a, result) ==
    IF a \in Edits /\ result # "failed" THEN [r EXCEPT !.modified = TRUE, !.verified = FALSE]
    ELSE IF a \in Checks /\ result \in {"ran", "red", "guarded"} THEN [r EXCEPT !.verified = TRUE]
    ELSE r

\* What a result really says about the workspace.
CheckAfter(a, result) ==
    IF a \in Edits /\ result = "ran" THEN "none"
    ELSE IF a \in Checks /\ result = "ran" THEN "passed"
    ELSE IF a \in Checks /\ result = "red" THEN "red"
    ELSE IF a \in Checks /\ result = "guarded" /\ check = "none" THEN "guarded"
    ELSE check

\* The third repeat of failed calls ends the run.
Thrashes(result) == result = "guarded" /\ run.duplicates + 1 >= MaxDuplicates

Guarded(r, result) == IF result = "guarded" THEN [r EXCEPT !.duplicates = @ + 1] ELSE Tracked(r, Head(r.batch), result)

\* The call of a reply, or the approved call a run began with.
Execute(result) ==
    LET a == Head(run.batch)
        answered == Noted(Guarded(run, result), a, result)
        rest == Tail(run.batch)
    IN /\ run.pc = "execute"
       /\ result \in Results(a)
       /\ \/ /\ Thrashes(result)
             /\ Abandon /\ UNCHANGED <<approvals, check>>
          \/ /\ result = "approval" /\ run.approval = 0
             /\ Pause(run, "paused", a) /\ UNCHANGED check
          \/ /\ result # "approval" /\ ~Thrashes(result)
             /\ run' = [answered EXCEPT
                          !.messages = Append(@, Result(a)), !.batch = rest,
                          !.approval = 0, !.pc = IF rest = <<>> THEN "turn" ELSE "call"]
             /\ \/ UNCHANGED approvals
                \/ /\ Granted(a) /\ result \in {"ran", "red", "failed"}
                   /\ approvals' = [approvals EXCEPT ![run.approval].state = "consumed"]
             /\ check' = CheckAfter(a, result)
             /\ UNCHANGED stored
       /\ UNCHANGED <<runs, interrupted>>

-----------------------------------------------------------------------------
(* The end of a turn without calls                                           *)

\* The verification gate of a goal: edits that nothing verified, and a turn and a
\* call left.
GateCloses == run.goal /\ run.modified /\ ~run.verified
              /\ run.turn < MaxTurns /\ run.calls < MaxToolCalls

Conclude ==
    /\ run.pc = "conclude"
    /\ ~GateCloses
    /\ Save([run EXCEPT !.messages = Append(@, Text)], "completed")
    /\ UNCHANGED <<runs, approvals, check, interrupted>>

\* The model is sent back to work.
Diagnosed(r) == [r EXCEPT !.pc = "turn", !.messages = @ \o <<Text, User("gate")>>]

\* workspace.verify is executed, outside the transcript: the run ends, or goes on
\* with the diagnosis, or pauses.
Gate(result) ==
    LET called == [run EXCEPT !.calls = @ + 1, !.batch = <<AutoVerify>>]
        answered == [Guarded(called, result) EXCEPT !.batch = <<>>]
    IN /\ run.pc = "conclude"
       /\ GateCloses
       /\ result \in Results(AutoVerify)
       /\ \/ /\ Thrashes(result)
             /\ Abandon /\ UNCHANGED <<approvals, check>>
          \/ /\ result = "approval"
             /\ Pause(called, "gate_paused", AutoVerify) /\ UNCHANGED check
          \/ /\ result \in {"ran", "red", "guarded"} /\ ~Thrashes(result)
             /\ Save([answered EXCEPT !.messages = Append(@, Text)], "completed")
             /\ UNCHANGED approvals
             /\ check' = CheckAfter(AutoVerify, result)
          \/ /\ result = "failed"
             /\ run' = Diagnosed(answered)
             /\ check' = CheckAfter(AutoVerify, result)
             /\ UNCHANGED <<stored, approvals>>
       /\ UNCHANGED <<runs, interrupted>>

-----------------------------------------------------------------------------
\* A checkpoint of AgentRunControl refuses: before or after the provider, before a
\* call is authorized or after it.
Stop ==
    /\ run.pc # "idle"
    /\ Save(run, "stopped")
    /\ UNCHANGED <<runs, approvals, check, interrupted>>

\* Mutant: a reply that could not be read is asked for again, and not charged.
AskedAgain ==
    /\ run.pc = "call"
    /\ run' = [run EXCEPT !.pc = "turn", !.turn = @ - 1, !.batch = <<>>]
    /\ UNCHANGED <<stored, runs, approvals, check, interrupted>>

\* The provider, the controller or the process fails.
Fault ==
    /\ run.pc # "idle"
    /\ Abandon
    /\ UNCHANGED <<runs, approvals, check, interrupted>>

\* `approval approve'.
Resolve(i) ==
    /\ approvals[i].state = "pending"
    /\ approvals' = [approvals EXCEPT ![i].state = "approved"]
    /\ UNCHANGED <<stored, run, runs, check, interrupted>>

Batches == BoundedSeq(Actions, MaxBatch) \ {<<>>}

RunStep ==
    \/ Reply(TRUE, <<>>)
    \/ \E batch \in Batches : Reply(FALSE, batch)
    \/ PushCall
    \/ \E result \in {"ran", "red", "failed", "refused", "guarded", "approval"} :
         Execute(result) \/ Gate(result)
    \/ Conclude
    \/ Stop \/ Fault

Next ==
    \/ \E goal, attached \in BOOLEAN, approval \in 0..MaxRuns : StartRun(goal, attached, approval)
    \/ RunStep
    \/ \E i \in 1..MaxRuns : Resolve(i)

\* A run that was started goes on; nobody is obliged to start or approve one.
Spec == Init /\ [][Next]_vars /\ WF_vars(RunStep)

-----------------------------------------------------------------------------
TypeOK ==
    /\ stored \in Seq(Message)
    /\ run \in RunRows
    /\ runs \in 0..MaxRuns
    /\ approvals \in [1..MaxRuns -> ApprovalRows]
    /\ check \in {"none", "passed", "red", "guarded"}
    /\ interrupted \in BOOLEAN

\* Providers accept a request only if calls and results pair up.  Across pauses,
\* stops, superseded calls, compaction and resumed runs, every call in what is
\* sent is answered by the message after it, and nothing else is a result (the
\* superseding results of run_with_context, compact_session_history).  Only an
\* attachment to a session that had a pending call breaks it.
RequestsPairCalls ==
    LET m == Transcript(run)
    IN  /\ TypeOK
        /\ run.pc = "turn" /\ ~interrupted =>
             \A i \in DOMAIN m :
                 /\ m[i].about \in Actions /\ m[i].role = "assistant" =>
                        i < Len(m) /\ m[i + 1] = Result(m[i].about)
                 /\ m[i].role = "tool" => i > 1 /\ m[i - 1] = Call(m[i].about)

\* A pause keeps one exact pending call (CLI.md 534), and what a later run makes
\* of the stored transcript still ends with the call the approval is for.  The
\* verification gate's own pause has no such call.
PausesKeepTheirCall ==
    run.outcome = "paused" => Pending(Compacted(stored)) = <<approvals[runs].action>>

\* A goal completes, with edits of its own and with a turn and a call left.
GoalConcludes ==
    /\ run.pc = "conclude" /\ run'.outcome = "completed"
    /\ run.goal /\ run.modified
    /\ run.turn < MaxTurns /\ run.calls < MaxToolCalls

\* A goal does not conclude before a check of its last edit (the verification
\* gate): one ran, whatever it found, or the convergence guard answered a check
\* that had failed to run.
GoalsConcludeChecked == [][GoalConcludes => check' # "none"]_vars

\* The budgets end every run (max_turns, max_tool_calls, the convergence guard),
\* whatever the provider answers and however often the gate sends it back.
RunsEnd == run.pc # "idle" ~> run.pc = "idle"
=============================================================================
