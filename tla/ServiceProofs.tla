---------------------------- MODULE ServiceProofs ----------------------------
(***************************************************************************)
(* The runtime service, for every set of calls, requests, sessions and      *)
(* mutations: the inductive invariant ServiceInv, and with it the five      *)
(* invariants of module Service.                                            *)
(***************************************************************************)
EXTENDS Service, FleetProofs

\* Answers that promise something.
Good == {"completed", "approval_required"}

-----------------------------------------------------------------------------
(* The inductive invariant, in five parts.                                   *)

\* A handler's row, by the step it is at.
RowShape(r) ==
    /\ r.pc \in {"idle", "read", "done", "lost"} => r.session = NoSession /\ r.fence = 0
    /\ r.pc \in Gated => r.session \in Keys /\ r.fence = 0
    /\ r.pc \in Working \cup Persisting \cup {"unfence"} => r.session \in Keys /\ r.fence # 0
    /\ r.pc = "unlease" => r.session \in Keys
    /\ r.fence # 0 => r.session \in Keys
    /\ r.pc \in Persisting => r.outcome \in Good
    /\ r.pc \in Closing \cup {"assert"} => r.outcome # "none"
    /\ r.pc # "done" => r.answer = NoResponse
    /\ r.pc # "idle" => r.request \in Requests

Typed == TypeOK /\ ServiceTypeOK

Rows == \A c \in Calls : RowShape(calls[c]) /\ calls[c].now <= clock

\* The ledger and the calls it let through.
LedgerOf(c) == ledger[calls[c].request.key]

LedgerInv ==
    /\ \A k \in IdempotencyKeys : ledger[k].state # "absent" =>
         ledger[k].request \in Requests /\ ledger[k].request.key = k
    /\ \A c \in Calls : calls[c].pc \notin {"idle", "done", "lost"} =>
         c \in executed /\ LedgerOf(c).state = "pending"
    /\ \A c \in executed :
         /\ calls[c].pc # "idle"
         /\ LedgerOf(c).state # "absent" /\ LedgerOf(c).request = calls[c].request
    /\ \A c \in Calls : calls[c].answer \in Good =>
         LedgerOf(c) = [state |-> "completed", request |-> calls[c].request,
                        response |-> calls[c].answer]
    /\ ExecutedOnce

\* The evidence of a call, and the approval an outcome promises.
Recorded(d) == d \in effects => \E s \in Keys : sessions[s].exists /\ d \in sessions[s].events
Awaited(d, outcome) == outcome = "approval_required" => approvals[d].state # "none"

EvidenceAt(c) ==
    LET r == calls[c]
    IN /\ r.session \in Keys /\ r.request.method # "run.execute" => sessions[r.session].exists
       /\ r.pc = "create" => r.request.method = "run.execute"
       /\ r.pc \in {"append", "save", "approve"} => sessions[r.session].exists
       /\ r.pc = "append" /\ Agent(c) => Awaited(c, r.outcome)
       /\ r.pc = "save" => Recorded(c) /\ Awaited(c, r.outcome)
       /\ r.pc = "approve" /\ ~Agent(c) => Recorded(c)
       /\ r.pc \in Closing /\ r.outcome \in Good => Recorded(c) /\ Awaited(c, r.outcome)

EvidenceInv ==
    /\ \A c \in Calls : EvidenceAt(c)
    /\ \A d \in executed :
         LedgerOf(d).state = "completed" /\ LedgerOf(d).response \in Good =>
             Recorded(d) /\ Awaited(d, LedgerOf(d).response)

\* Handles and the fences they were given out for.
Holds(c, s) == calls[c].session = s /\ calls[c].fence = fences[s].generation

FenceInv ==
    /\ \A s \in Keys : fences[s].state = "active" =>
         /\ fences[s].generation # 0
         /\ \E c \in Calls : calls[c].pc = "lost" \/ Holds(c, s)
    /\ \A c \in Calls, s \in Keys : calls[c].session = s =>
         /\ calls[c].fence <= fences[s].generation
         /\ Holds(c, s) /\ fences[s].state = "active" =>
              /\ calls[c].pc # "complete"
              /\ fences[s].issued = calls[c].now
              /\ fences[s].expires = calls[c].now + ServiceLease
    /\ \A c, d \in Calls :
         /\ calls[c].session = calls[d].session /\ calls[c].fence = calls[d].fence
         /\ calls[c].fence # 0
         => c = d

\* Leases and mutations.
LeaseAt(c) ==
    /\ calls[c].pc \in {"idle", "read", "expire", "lease", "unfence", "complete", "done"} =>
         leases[c].state # "active"
    /\ calls[c].pc \in {"fence"} \cup Working =>
         \/ leases[c].state = "active" /\ leases[c].expires = calls[c].now + ServiceLease
         \/ clock >= calls[c].now + ServiceLease

MutationInv ==
    /\ \A c \in Calls : LeaseAt(c)
    /\ GuardRow /\ QuiescenceExcludesLeases
    /\ \A m \in Mutations : mutation[m] = "mutate" => guards[m].state = "held"

\* The overtaken run that had not passed its check will not be recorded.
Unrecorded(c) == \A s \in Keys : c \notin sessions[s].events
Loses(c) ==
    /\ Unrecorded(c)
    /\ \/ calls[c].pc \in Working /\ calls[c].fence < fences[calls[c].session].generation
       \/ calls[c].pc \in Closing \cup {"done", "lost"}

OverlapInv ==
    /\ \A c \in Calls : calls[c].pc \in {"idle", "read"} \cup Gated \cup Working => Unrecorded(c)
    /\ \A o \in overlapped : o.checked \/ Loses(o.first)

ServiceInv ==
    Typed /\ Rows /\ LedgerInv /\ EvidenceInv /\ FenceInv /\ MutationInv /\ OverlapInv

-----------------------------------------------------------------------------
(* What a step does to the handlers.                                         *)

\* The handlers but c stay as they are.
Others(c) == \A d \in Calls \ {c} : calls'[d] = calls[d]

\* Handler c goes on to another step, with an outcome.
Moved(c, step, outcome) ==
    /\ Others(c)
    /\ calls' \in [Calls -> CallRows]
    /\ calls'[c].pc = step /\ calls'[c].outcome = outcome
    /\ calls'[c].request = calls[c].request /\ calls'[c].now = calls[c].now
    /\ calls'[c].session = calls[c].session /\ calls'[c].fence = calls[c].fence
    /\ calls'[c].answer = calls[c].answer

LEMMA GotoMoves ==
    ASSUME Typed, NEW c \in Calls, NEW step \in Steps, Goto(c, step)
    PROVE  Moved(c, step, calls[c].outcome)
<1>1. calls \in [Calls -> CallRows]
  BY DEF Typed, ServiceTypeOK
<1>2. calls' = [calls EXCEPT ![c] = [calls[c] EXCEPT !.pc = step]]
  BY DEF Goto
<1>3. [calls[c] EXCEPT !.pc = step] \in CallRows
  BY <1>1 DEF CallRows
<1> QED BY <1>1, <1>2, <1>3 DEF Moved, Others, CallRows

LEMMA FailMoves ==
    ASSUME Typed, NEW c \in Calls, NEW step \in Steps, Fail(c, step)
    PROVE  Moved(c, step, "error")
<1>1. calls \in [Calls -> CallRows]
  BY DEF Typed, ServiceTypeOK
<1>2. calls' = [calls EXCEPT ![c] = [calls[c] EXCEPT !.pc = step, !.outcome = "error"]]
  BY <1>1 DEF Fail, CallRows
<1>3. [calls[c] EXCEPT !.pc = step, !.outcome = "error"] \in CallRows
  BY <1>1 DEF CallRows, Outcomes
<1> QED BY <1>1, <1>2, <1>3 DEF Moved, Others, CallRows

LEMMA IdleRow ==
    /\ Idle \in CallRows
    /\ Idle.pc = "idle" /\ Idle.request = NoRequest /\ Idle.now = 0 /\ Idle.session = NoSession
    /\ Idle.fence = 0 /\ Idle.outcome = "none" /\ Idle.answer = NoResponse
BY DEF Idle, CallRows, Steps, Outcomes

\* Handler c ends with an answer.
LEMMA AnswerForm ==
    ASSUME Typed, NEW c \in Calls, NEW r \in Requests,
           NEW answer \in Responses \cup Refusals \cup {NoResponse}, Answer(c, r, answer)
    PROVE  /\ Others(c)
           /\ calls' \in [Calls -> CallRows]
           /\ calls'[c].pc = "done" /\ calls'[c].outcome = "none"
           /\ calls'[c].request = r /\ calls'[c].now = 0
           /\ calls'[c].session = NoSession /\ calls'[c].fence = 0
           /\ calls'[c].answer = answer
<1> DEFINE row == [Idle EXCEPT !.pc = "done", !.request = r, !.answer = answer]
<1>1. calls \in [Calls -> CallRows]
  BY DEF Typed, ServiceTypeOK
<1>2. calls' = [calls EXCEPT ![c] = row]
  BY DEF Answer
<1>3. /\ row \in CallRows /\ row.pc = "done" /\ row.outcome = "none" /\ row.request = r
      /\ row.now = 0 /\ row.session = NoSession /\ row.fence = 0 /\ row.answer = answer
  BY IdleRow DEF CallRows, Steps
<1> QED BY <1>1, <1>2, <1>3 DEF Others

-----------------------------------------------------------------------------
(* Each part of the invariant, through a step of one handler.                *)

LEMMA RowsKeep ==
    ASSUME Rows, NEW c \in Calls, Others(c), clock' = clock,
           RowShape(calls'[c]), calls'[c].now <= clock
    PROVE  Rows'
BY DEF Rows, Others, RowShape

LEMMA LedgerKeeps ==
    ASSUME Typed, Rows, LedgerInv, NEW c \in Calls, Others(c),
           calls'[c].request = calls[c].request, calls'[c].answer = calls[c].answer,
           calls[c].pc \notin {"idle", "done", "lost"},
           calls'[c].pc \notin {"idle", "done", "lost"},
           ledger' = ledger, executed' = executed
    PROVE  LedgerInv'
<1>0. executed \subseteq Calls
  BY DEF Typed, ServiceTypeOK
<1>1. \A d \in Calls : calls'[d].request = calls[d].request /\ calls'[d].answer = calls[d].answer
  BY DEF Others
<1>2. \A d \in Calls : LedgerOf(d)' = LedgerOf(d)
  BY <1>1 DEF LedgerOf
<1>3. \A d \in Calls : calls'[d].pc \notin {"idle", "done", "lost"} =>
         d \in executed' /\ LedgerOf(d)'.state = "pending"
  BY <1>2 DEF LedgerInv, Others
<1>4. \A d \in executed' :
         /\ calls'[d].pc # "idle"
         /\ LedgerOf(d)'.state # "absent" /\ LedgerOf(d)'.request = calls'[d].request
  BY <1>0, <1>1, <1>2 DEF LedgerInv, Others
<1>5. \A d \in Calls : calls'[d].answer \in Good =>
         LedgerOf(d)' = [state |-> "completed", request |-> calls'[d].request,
                         response |-> calls'[d].answer]
  BY <1>1, <1>2 DEF LedgerInv
<1>6. ExecutedOnce'
  BY <1>0, <1>1 DEF LedgerInv, ExecutedOnce
<1>7. \A k \in IdempotencyKeys : ledger'[k].state # "absent" =>
         ledger'[k].request \in Requests /\ ledger'[k].request.key = k
  BY DEF LedgerInv
<1> QED BY <1>3, <1>4, <1>5, <1>6, <1>7 DEF LedgerInv

\* Evidence is never taken away.
Grows ==
    /\ \A s \in Keys :
         /\ sessions[s].exists => sessions'[s].exists
         /\ sessions[s].events \subseteq sessions'[s].events
    /\ \A d \in Calls : approvals[d].state # "none" => approvals'[d].state # "none"

LEMMA EvidenceStays ==
    ASSUME Grows, NEW d \in Calls, NEW outcome, d \in effects' => d \in effects
    PROVE  /\ Recorded(d) => Recorded(d)'
           /\ Awaited(d, outcome) => (approvals'[d].state # "none" \/ outcome # "approval_required")
BY DEF Grows, Recorded, Awaited

\* The evidence of the handlers that do nothing.
LEMMA EvidenceOfOthers ==
    ASSUME Rows, EvidenceInv, NEW c \in Calls, Others(c), Grows, effects' \subseteq effects \cup {c},
           NEW d \in Calls \ {c}
    PROVE  EvidenceAt(d)'
<1>1. calls'[d] = calls[d] /\ EvidenceAt(d)
  BY DEF Others, EvidenceInv
<1>2. Recorded(d) => Recorded(d)'
  BY EvidenceStays
<1>3. Awaited(d, calls[d].outcome) => Awaited(d, calls[d].outcome)'
  BY <1>1 DEF Awaited, Grows
<1>4. Agent(d)' <=> Agent(d)
  BY <1>1 DEF Agent
<1> QED BY <1>1, <1>2, <1>3, <1>4 DEF EvidenceAt, Grows, Rows, RowShape, Persisting

LEMMA EvidenceKeeps ==
    ASSUME Typed, Rows, LedgerInv, EvidenceInv, NEW c \in Calls, Others(c),
           calls'[c].request = calls[c].request, calls[c].pc \notin {"idle", "done", "lost"},
           ledger' = ledger, executed' = executed, Grows, effects' \subseteq effects \cup {c},
           EvidenceAt(c)'
    PROVE  EvidenceInv'
<1>1. \A d \in Calls : EvidenceAt(d)'
  BY EvidenceOfOthers
<1>2. ASSUME NEW d \in executed, LedgerOf(d)'.state = "completed", LedgerOf(d)'.response \in Good
      PROVE  Recorded(d)' /\ Awaited(d, LedgerOf(d).response)'
  <2>1. d \in Calls /\ LedgerOf(d)' = LedgerOf(d)
    BY DEF LedgerOf, Others, Typed, ServiceTypeOK
  <2>2. d # c
    BY <1>2, <2>1 DEF LedgerInv
  <2>3. Recorded(d) /\ Awaited(d, LedgerOf(d).response)
    BY <1>2, <2>1 DEF EvidenceInv
  <2>4. Recorded(d)'
    BY <2>1, <2>2, <2>3, EvidenceStays
  <2> QED BY <2>1, <2>3, <2>4 DEF Awaited, Grows
<1> QED BY <1>1, <1>2 DEF EvidenceInv

LEMMA FenceKeeps ==
    ASSUME FenceInv, NEW c \in Calls, Others(c), fences' = fences,
           calls'[c].now = calls[c].now, calls'[c].session = calls[c].session,
           calls'[c].fence = calls[c].fence, calls[c].pc # "lost",
           calls'[c].pc # "complete" \/ calls[c].fence = 0
    PROVE  FenceInv'
<1>1. \A d \in Calls, s \in Keys : Holds(d, s)' <=> Holds(d, s)
  BY DEF Holds, Others
<1>2. \A s \in Keys : fences'[s].state = "active" =>
         /\ fences'[s].generation # 0
         /\ \E d \in Calls : calls'[d].pc = "lost" \/ Holds(d, s)'
  BY <1>1 DEF FenceInv, Others
<1>3. \A d \in Calls, s \in Keys : calls'[d].session = s =>
         /\ calls'[d].fence <= fences'[s].generation
         /\ Holds(d, s)' /\ fences'[s].state = "active" =>
              /\ calls'[d].pc # "complete"
              /\ fences'[s].issued = calls'[d].now
              /\ fences'[s].expires = calls'[d].now + ServiceLease
  BY <1>1 DEF FenceInv, Others, Holds
<1>4. \A d, e \in Calls :
         /\ calls'[d].session = calls'[e].session /\ calls'[d].fence = calls'[e].fence
         /\ calls'[d].fence # 0
         => d = e
  BY DEF FenceInv, Others
<1> QED BY <1>2, <1>3, <1>4 DEF FenceInv

LEMMA MutationKeeps ==
    ASSUME MutationInv, NEW c \in Calls, Others(c), LeaseAt(c)',
           UNCHANGED <<clock, quiescence, guards, leases, mutation>>
    PROVE  MutationInv'
<1>1. \A d \in Calls : LeaseAt(d)'
  BY DEF MutationInv, LeaseAt, Others
<1>2. GuardRow' /\ QuiescenceExcludesLeases'
  BY DEF MutationInv, GuardRow, QuiescenceExcludesLeases, Quiescent
<1> QED BY <1>1, <1>2 DEF MutationInv

Early == {"idle", "read"} \cup Gated \cup Working

LEMMA OverlapKeeps ==
    ASSUME Rows, OverlapInv, NEW c \in Calls, Others(c), overlapped \subseteq Overlaps,
           overlapped' = overlapped,
           \A s \in Keys : fences'[s].generation = fences[s].generation,
           calls'[c].session = calls[c].session, calls'[c].fence = calls[c].fence,
           \A s \in Keys :
               \/ sessions'[s].events = sessions[s].events
               \/ calls[c].pc = "append" /\ sessions'[s].events = sessions[s].events \cup {c},
           calls'[c].pc \in Early => calls[c].pc \in Early,
           calls[c].pc = "append" => calls'[c].pc \notin Early,
           calls[c].pc \in Working /\ calls[c].fence < fences[calls[c].session].generation =>
               calls'[c].pc \in Working \cup Closing,
           calls[c].pc \in Closing \cup {"done", "lost"} => calls'[c].pc \in Closing \cup {"done", "lost"}
    PROVE  OverlapInv'
<1>1. \A d \in Calls \ {c} : Unrecorded(d) => Unrecorded(d)'
  BY DEF Unrecorded
<1>2. calls[c].pc # "append" /\ Unrecorded(c) => Unrecorded(c)'
  BY DEF Unrecorded
<1>3. \A d \in Calls : calls'[d].pc \in Early => Unrecorded(d)'
  BY <1>1, <1>2 DEF OverlapInv, Others, Early
<1>4. \A d \in Calls : calls[d].pc \in Working =>
        fences'[calls[d].session].generation = fences[calls[d].session].generation
  BY DEF Rows, RowShape
<1>5. \A d \in Calls \ {c} : Loses(d) => Loses(d)'
  BY <1>1, <1>4 DEF Loses, Others
<1>6. Loses(c) => Loses(c)'
  BY <1>2, <1>4 DEF Loses, Closing, Working
<1> QED BY <1>3, <1>5, <1>6 DEF OverlapInv, Early, Overlaps

\* A handler that is under way, and stays so, without touching fences and ledger.
Underway == Steps \ {"idle", "done", "lost"}

LEMMA MoveKeeps ==
    ASSUME ServiceInv, NEW c \in Calls, NEW step \in Underway, NEW outcome,
           Moved(c, step, outcome), calls[c].pc \in Underway,
           clock' = clock, fences' = fences, ledger' = ledger, starts' = starts,
           mutation' = mutation, executed' = executed, overlapped' = overlapped,
           TypeOK', sessions' \in [Keys -> SessionRows],
           approvals' \in [Calls -> [state : ApprovalStates, session : Keys \cup {NoSession}]],
           effects' \subseteq effects \cup {c}, Grows, MutationInv',
           \A s \in Keys :
               \/ sessions'[s].events = sessions[s].events
               \/ calls[c].pc = "append" /\ sessions'[s].events = sessions[s].events \cup {c},
           RowShape(calls'[c]), EvidenceAt(c)',
           step = "complete" => calls[c].fence = 0,
           step \in Early => calls[c].pc \in Early,
           calls[c].pc = "append" => step \notin Early,
           calls[c].pc \in Working /\ calls[c].fence < fences[calls[c].session].generation =>
               step \in Working \cup Closing,
           calls[c].pc \in Closing => step \in Closing
    PROVE  ServiceInv'
<1>1. /\ Typed /\ Rows /\ LedgerInv /\ EvidenceInv /\ FenceInv /\ MutationInv /\ OverlapInv
      /\ ServiceTypeOK
  BY DEF ServiceInv, Typed
<1>2. /\ calls[c].pc \notin {"idle", "done", "lost"} /\ calls'[c].pc = step
      /\ step \notin {"idle", "done", "lost"}
  BY DEF Underway, Moved
<1>3. /\ Others(c) /\ calls' \in [Calls -> CallRows]
      /\ calls'[c].request = calls[c].request /\ calls'[c].now = calls[c].now
      /\ calls'[c].session = calls[c].session /\ calls'[c].fence = calls[c].fence
      /\ calls'[c].answer = calls[c].answer
  BY DEF Moved
<1>4. Typed'
  <2>1. c \in executed
    BY <1>1, <1>2 DEF LedgerInv
  <2> QED BY <1>1, <1>3, <2>1 DEF Typed, ServiceTypeOK, LedgerTypeOK
<1>5. Rows'
  BY <1>1, <1>3, RowsKeep DEF Rows
<1>6. LedgerInv'
  BY <1>1, <1>2, <1>3, LedgerKeeps
<1>7. EvidenceInv'
  BY <1>1, <1>2, <1>3, EvidenceKeeps
<1>8. FenceInv'
  BY <1>1, <1>2, <1>3, FenceKeeps
<1>9. OverlapInv'
  BY <1>1, <1>2, <1>3, OverlapKeeps DEF ServiceTypeOK
<1> QED BY <1>4, <1>5, <1>6, <1>7, <1>8, <1>9 DEF ServiceInv

\* The fleet tables, when nothing in them changes.
LEMMA FleetStays ==
    ASSUME TypeOK, UNCHANGED vars
    PROVE  /\ TypeOK'
           /\ UNCHANGED <<clock, quiescence, guards, leases, fences, nodes, supervisors>>
BY DEF TypeOK, BaseTypeOK, LeasesTypeOK, FencesTypeOK, vars, baseVars, leaseVars, fenceVars

\* The same when the fleet tables do not change.
LEMMA QuietMove ==
    ASSUME ServiceInv, NEW c \in Calls, NEW step \in Underway, NEW outcome,
           Moved(c, step, outcome), calls[c].pc \in Underway,
           UNCHANGED <<vars, ledger, mutation, starts, executed, overlapped>>,
           sessions' \in [Keys -> SessionRows],
           approvals' \in [Calls -> [state : ApprovalStates, session : Keys \cup {NoSession}]],
           effects' \subseteq effects \cup {c}, Grows,
           \A s \in Keys :
               \/ sessions'[s].events = sessions[s].events
               \/ calls[c].pc = "append" /\ sessions'[s].events = sessions[s].events \cup {c},
           RowShape(calls'[c]), EvidenceAt(c)', LeaseAt(c)',
           step = "complete" => calls[c].fence = 0,
           step \in Early => calls[c].pc \in Early,
           calls[c].pc = "append" => step \notin Early,
           calls[c].pc \in Working /\ calls[c].fence < fences[calls[c].session].generation =>
               step \in Working \cup Closing,
           calls[c].pc \in Closing => step \in Closing
    PROVE  ServiceInv'
<1>1. TypeOK' /\ UNCHANGED <<clock, quiescence, guards, leases, fences>>
  BY FleetStays DEF ServiceInv, Typed
<1>2. MutationInv'
  BY <1>1, MutationKeeps DEF Moved, ServiceInv
<1> QED BY <1>1, <1>2, MoveKeeps

-----------------------------------------------------------------------------
(* The steps of a handler that end where they began, or leave fences alone.   *)

\* What the invariant says of one handler.
LEMMA CallFacts ==
    ASSUME ServiceInv, NEW c \in Calls
    PROVE  /\ calls[c] \in CallRows /\ RowShape(calls[c]) /\ calls[c].now <= clock
           /\ EvidenceAt(c) /\ LeaseAt(c)
           /\ TypeOK /\ ServiceTypeOK /\ Typed
BY DEF ServiceInv, Typed, ServiceTypeOK, Rows, EvidenceInv, MutationInv

LEMMA AssertCurrentKeeps ==
    ASSUME ServiceInv, NEW c \in Calls, AssertCurrent(c)
    PROVE  ServiceInv'
<1> DEFINE step == IF calls[c].outcome # "error"
                      /\ FenceValid(calls[c].session, calls[c].fence, calls[c].now)
                   THEN FirstRecord(c) ELSE "unlease"
           outcome == IF step = "unlease" THEN "error" ELSE calls[c].outcome
<1>1. /\ calls[c] \in CallRows /\ RowShape(calls[c]) /\ calls[c].now <= clock
      /\ EvidenceAt(c) /\ LeaseAt(c) /\ TypeOK /\ ServiceTypeOK /\ Typed
  BY CallFacts
<1>2. calls[c].pc = "assert" /\ calls[c].outcome # "none"
  BY <1>1 DEF AssertCurrent, At, RowShape
<1>3. step \in {"create", "append", "approve", "unlease"}
  BY DEF FirstRecord
<1>4. Moved(c, step, outcome)
  <2>1. CASE calls[c].outcome # "error" /\ FenceValid(calls[c].session, calls[c].fence, calls[c].now)
    <3>1. Goto(c, step) /\ step # "unlease"
      BY <2>1 DEF AssertCurrent, FirstRecord
    <3> QED BY <1>1, <1>3, <3>1, GotoMoves DEF Steps, Persisting, Closing
  <2>2. CASE ~(calls[c].outcome # "error" /\ FenceValid(calls[c].session, calls[c].fence, calls[c].now))
    <3>1. Fail(c, "unlease") /\ step = "unlease"
      BY <2>2 DEF AssertCurrent
    <3> QED BY <1>1, <3>1, FailMoves DEF Steps, Closing
  <2> QED BY <2>1, <2>2
<1>5. /\ UNCHANGED <<ledger, sessions, approvals, mutation, starts, effects, executed, overlapped>>
      /\ UNCHANGED vars
  BY DEF AssertCurrent, history
<1>6. TypeOK' /\ UNCHANGED <<clock, quiescence, guards, leases, fences>>
  BY <1>1, <1>5, FleetStays
<1>7. step # "unlease" => /\ FenceValid(calls[c].session, calls[c].fence, calls[c].now)
                          /\ step = FirstRecord(c) /\ calls[c].outcome \in Good
  BY <1>1, <1>2, <1>3 DEF FirstRecord, CallRows, Outcomes, Good
<1>8. calls'[c].pc = step /\ calls'[c].outcome = outcome
  BY <1>4 DEF Moved
<1> HIDE DEF step
<1>9. RowShape(calls'[c])
  BY <1>1, <1>2, <1>3, <1>4, <1>7 DEF Moved, RowShape, Gated, Working, Persisting, Closing
<1>10. EvidenceAt(c)'
  BY <1>1, <1>2, <1>3, <1>4, <1>5, <1>7
     DEF Moved, EvidenceAt, FirstRecord, Agent, Awaited, Closing, Good, RowShape, Working
<1>11. MutationInv'
  <2>1. LeaseAt(c)'
    BY <1>3, <1>8 DEF LeaseAt, Working
  <2> QED BY <1>4, <1>5, <1>6, <2>1, MutationKeeps DEF Moved, ServiceInv
<1>12. calls[c].fence < fences[calls[c].session].generation => step = "unlease"
  <2>1. calls[c].fence \in Nat /\ calls[c].session \in Keys
    BY <1>1, <1>2 DEF CallRows, RowShape, Working
  <2>2. fences[calls[c].session].generation \in Nat
    BY <1>1, <2>1 DEF TypeOK, FencesTypeOK, FenceRows
  <2> QED BY <1>7, <2>1, <2>2 DEF FenceValid
<1>13. Grows /\ sessions' \in [Keys -> SessionRows]
       /\ approvals' \in [Calls -> [state : ApprovalStates, session : Keys \cup {NoSession}]]
  BY <1>1, <1>5 DEF Grows, ServiceTypeOK
<1>14. step \in Underway /\ calls[c].pc \in Underway /\ step \notin Early /\ step # "complete"
  BY <1>2, <1>3 DEF Underway, Steps, Early, Gated, Working, Persisting, Closing
<1> QED BY <1>2, <1>4, <1>5, <1>6, <1>9, <1>10, <1>11, <1>12, <1>13, <1>14, MoveKeeps
        DEF Closing

\* A step that failed: the handler goes on to give up what it holds.
LEMMA FailKeeps ==
    ASSUME ServiceInv, NEW c \in Calls, NEW step \in {"unlease", "complete"}, Fail(c, step),
           calls[c].pc \in Underway \ Closing,
           step = "complete" => calls[c].fence = 0 /\ leases[c].state # "active",
           step = "unlease" => calls[c].session \in Keys,
           UNCHANGED <<vars, ledger, sessions, approvals, mutation, starts, history>>
    PROVE  ServiceInv'
<1>1. /\ calls[c] \in CallRows /\ RowShape(calls[c]) /\ calls[c].now <= clock
      /\ EvidenceAt(c) /\ LeaseAt(c) /\ TypeOK /\ ServiceTypeOK /\ Typed
  BY CallFacts
<1>2. Moved(c, step, "error")
  BY <1>1, FailMoves DEF Steps, Closing
<1>3. /\ UNCHANGED <<ledger, sessions, approvals, mutation, starts, effects, executed, overlapped>>
      /\ UNCHANGED <<clock, leases>>
  BY <1>1, FleetStays DEF history
<1>4. RowShape(calls'[c])
  BY <1>1, <1>2 DEF Moved, RowShape, Gated, Working, Persisting, Closing, Underway
<1>5. EvidenceAt(c)'
  BY <1>1, <1>2, <1>3 DEF Moved, EvidenceAt, Good
<1>6. LeaseAt(c)'
  BY <1>2, <1>3 DEF Moved, LeaseAt, Working
<1>7. Grows /\ sessions' \in [Keys -> SessionRows]
      /\ approvals' \in [Calls -> [state : ApprovalStates, session : Keys \cup {NoSession}]]
  BY <1>1, <1>3 DEF Grows, ServiceTypeOK
<1>8. step \in Underway /\ step \notin Early /\ step \in Closing
  BY DEF Underway, Steps, Early, Gated, Working, Closing
<1> QED BY <1>2, <1>3, <1>4, <1>5, <1>6, <1>7, <1>8, QuietMove

LEMMA ExecuteKeeps ==
    ASSUME ServiceInv, NEW c \in Calls, Execute(c)
    PROVE  ServiceInv'
<1>1. /\ calls[c] \in CallRows /\ RowShape(calls[c]) /\ calls[c].now <= clock
      /\ EvidenceAt(c) /\ LeaseAt(c) /\ TypeOK /\ ServiceTypeOK /\ Typed
  BY CallFacts
<1>2. calls[c].pc = "execute" /\ calls[c].request \in Requests
  BY <1>1 DEF Execute, At, RowShape
<1>3. PICK outcome \in {"completed", "approval_required", "error"} :
        calls' = [calls EXCEPT ![c].outcome = outcome, ![c].pc = "assert"]
  BY DEF Execute
<1>4. Moved(c, "assert", outcome)
  <2>1. calls' = [calls EXCEPT ![c] = [calls[c] EXCEPT !.outcome = outcome, !.pc = "assert"]]
    BY <1>1, <1>3 DEF CallRows, ServiceTypeOK
  <2>2. [calls[c] EXCEPT !.outcome = outcome, !.pc = "assert"] \in CallRows
    BY <1>1 DEF CallRows, Steps, Working, Outcomes
  <2> QED BY <1>1, <2>1, <2>2 DEF Moved, Others, CallRows, ServiceTypeOK
<1>5. /\ UNCHANGED <<vars, ledger, sessions, mutation, starts, executed, overlapped>>
      /\ UNCHANGED <<clock, leases>> /\ effects' \subseteq effects \cup {c}
  BY <1>1, FleetStays DEF Execute
<1>6. RowShape(calls'[c])
  BY <1>1, <1>2, <1>4 DEF Moved, RowShape, Gated, Working, Persisting, Closing
<1>7. EvidenceAt(c)'
  BY <1>1, <1>2, <1>4, <1>5 DEF Moved, EvidenceAt, Closing
<1>8. LeaseAt(c)'
  BY <1>1, <1>2, <1>4, <1>5 DEF Moved, LeaseAt, Working
<1>9. /\ approvals' \in [Calls -> [state : ApprovalStates, session : Keys \cup {NoSession}]]
      /\ \A d \in Calls : approvals[d].state # "none" => approvals'[d].state # "none"
  <2>1. CASE approvals' = approvals
    BY <1>1, <2>1 DEF ServiceTypeOK
  <2>2. CASE /\ Resumes(c)
             /\ approvals' = [approvals EXCEPT ![calls[c].request.target].state = "consumed"]
    <3>1. calls[c].request.target \in Calls
      BY <1>2, <2>2, ServiceAssumption DEF Resumes
    <3> QED BY <1>1, <2>2, <3>1 DEF ServiceTypeOK, ApprovalStates
  <2> QED BY <2>1, <2>2 DEF Execute
<1>10. Grows /\ sessions' \in [Keys -> SessionRows]
  BY <1>1, <1>5, <1>9 DEF Grows, ServiceTypeOK
<1>11. "assert" \in Underway /\ "execute" \in Underway /\ "assert" \in Working /\ "execute" \in Early
       /\ "execute" \notin Closing
  BY DEF Underway, Steps, Early, Working, Closing
<1> QED BY <1>2, <1>4, <1>5, <1>6, <1>7, <1>8, <1>9, <1>10, <1>11, QuietMove

LEMMA CreateSessionKeeps ==
    ASSUME ServiceInv, NEW c \in Calls, CreateSession(c)
    PROVE  ServiceInv'
<1>1. /\ calls[c] \in CallRows /\ RowShape(calls[c]) /\ calls[c].now <= clock
      /\ EvidenceAt(c) /\ LeaseAt(c) /\ TypeOK /\ ServiceTypeOK /\ Typed
  BY CallFacts
<1>2. calls[c].pc = "create" /\ calls[c].session \in Keys
  BY <1>1 DEF CreateSession, At, RowShape, Persisting
<1>3. Moved(c, "append", calls[c].outcome)
  BY <1>1, GotoMoves DEF CreateSession, Steps, Persisting
<1>4. /\ UNCHANGED <<vars, ledger, approvals, mutation, starts, effects, executed, overlapped>>
      /\ UNCHANGED <<clock, leases>>
  BY <1>1, FleetStays DEF CreateSession, history
<1>5. /\ sessions' \in [Keys -> SessionRows]
      /\ sessions'[calls[c].session].exists
      /\ \A s \in Keys : /\ sessions'[s].events = sessions[s].events
                         /\ sessions[s].exists => sessions'[s].exists
  <2>1. sessions \in [Keys -> SessionRows]
    BY <1>1 DEF ServiceTypeOK
  <2>2. sessions' = [sessions EXCEPT ![calls[c].session] =
                       [sessions[calls[c].session] EXCEPT !.exists = TRUE]]
    BY DEF CreateSession
  <2>3. [sessions[calls[c].session] EXCEPT !.exists = TRUE] \in SessionRows
    BY <1>2, <2>1 DEF SessionRows
  <2> QED BY <1>2, <2>1, <2>2, <2>3 DEF SessionRows
<1>6. RowShape(calls'[c])
  BY <1>1, <1>2, <1>3 DEF Moved, RowShape, Gated, Working, Persisting, Closing
<1>7. EvidenceAt(c)'
  BY <1>1, <1>2, <1>3, <1>5 DEF Moved, EvidenceAt, Closing, Agent
<1>8. LeaseAt(c)'
  BY <1>2, <1>3 DEF Moved, LeaseAt, Working
<1>9. Grows /\ approvals' \in [Calls -> [state : ApprovalStates, session : Keys \cup {NoSession}]]
  BY <1>1, <1>4, <1>5 DEF Grows, ServiceTypeOK
<1>10. "append" \in Underway /\ "create" \in Underway /\ "append" \notin Early
       /\ "create" \notin Working \cup Closing
  BY DEF Underway, Steps, Early, Gated, Persisting, Working, Closing
<1> QED BY <1>2, <1>3, <1>4, <1>5, <1>6, <1>7, <1>8, <1>9, <1>10, QuietMove

LEMMA AppendExecutionKeeps ==
    ASSUME ServiceInv, NEW c \in Calls, AppendExecution(c)
    PROVE  ServiceInv'
<1> DEFINE s == calls[c].session
<1>1. /\ calls[c] \in CallRows /\ RowShape(calls[c]) /\ calls[c].now <= clock
      /\ EvidenceAt(c) /\ LeaseAt(c) /\ TypeOK /\ ServiceTypeOK /\ Typed
  BY CallFacts
<1>2. calls[c].pc = "append" /\ s \in Keys /\ calls[c].outcome \in Good /\ sessions[s].exists
  BY <1>1 DEF AppendExecution, At, RowShape, Persisting, EvidenceAt
<1>3. CASE Fail(c, "unlease") /\ UNCHANGED sessions
  BY <1>2, <1>3, FailKeeps
     DEF AppendExecution, Underway, Steps, Persisting, Closing
<1>4. CASE /\ Goto(c, NextRecord(c))
           /\ \/ HasExecution(c) /\ sessions' = [sessions EXCEPT ![s].events = @ \cup {c}]
              \/ ~HasExecution(c) /\ UNCHANGED sessions
  <2>1. NextRecord(c) \in {"save", "approve", "unlease"}
    BY DEF NextRecord
  <2>2. Moved(c, NextRecord(c), calls[c].outcome)
    BY <1>1, <1>4, <2>1, GotoMoves DEF Steps, Persisting, Closing
  <2>3. /\ UNCHANGED <<vars, ledger, approvals, mutation, starts, effects, executed, overlapped>>
        /\ UNCHANGED <<clock, leases>>
    BY <1>1, FleetStays DEF AppendExecution, history
  <2>4. /\ sessions' \in [Keys -> SessionRows]
        /\ \A t \in Keys : /\ \/ sessions'[t].events = sessions[t].events
                              \/ sessions'[t].events = sessions[t].events \cup {c}
                           /\ sessions'[t].exists = sessions[t].exists
        /\ HasExecution(c) => c \in sessions'[s].events
    <3>1. sessions \in [Keys -> SessionRows]
      BY <1>1 DEF ServiceTypeOK
    <3>2. CASE UNCHANGED sessions /\ ~HasExecution(c)
      BY <3>1, <3>2
    <3>3. CASE sessions' = [sessions EXCEPT ![s].events = @ \cup {c}]
      <4>1. sessions' = [sessions EXCEPT ![s] = [sessions[s] EXCEPT !.events = @ \cup {c}]]
        BY <3>3
      <4>2. [sessions[s] EXCEPT !.events = @ \cup {c}] \in SessionRows
        BY <1>2, <3>1 DEF SessionRows
      <4> QED BY <1>2, <3>1, <4>1, <4>2 DEF SessionRows
    <3> QED BY <1>4, <3>2, <3>3
  <2>5. sessions'[s].exists /\ Recorded(c)'
    <3>1. sessions'[s].exists
      BY <1>2, <2>4
    <3>2. c \in effects => HasExecution(c)
      BY DEF HasExecution
    <3> QED BY <1>2, <2>3, <2>4, <3>1, <3>2 DEF Recorded
  <2>6. calls'[c].pc = NextRecord(c) /\ calls'[c].outcome = calls[c].outcome
        /\ calls'[c].request = calls[c].request /\ calls'[c].session = s
    BY <2>2 DEF Moved
  <2>7. NextRecord(c) # "approve" => Awaited(c, calls[c].outcome)
    BY <1>1, <1>2 DEF NextRecord, EvidenceAt, Awaited
  <2>8. RowShape(calls'[c])
    BY <1>1, <1>2, <2>1, <2>2 DEF Moved, Good, RowShape, Gated, Working, Persisting, Closing
  <2>9. Awaited(c, calls[c].outcome) => Awaited(c, calls[c].outcome)'
    BY <2>3, <2>6 DEF Awaited
  <2>10. EvidenceAt(c)'
    BY <1>1, <1>2, <2>1, <2>5, <2>6, <2>7, <2>9 DEF EvidenceAt, Closing, Agent, NextRecord
  <2>11. LeaseAt(c)'
    BY <2>1, <2>6 DEF LeaseAt, Working
  <2>12. Grows /\ approvals' \in [Calls -> [state : ApprovalStates, session : Keys \cup {NoSession}]]
    BY <1>1, <2>3, <2>4 DEF Grows, ServiceTypeOK
  <2>13. NextRecord(c) \in Underway /\ "append" \in Underway /\ NextRecord(c) \notin Early
         /\ "append" \notin Working \cup Closing /\ NextRecord(c) # "complete"
    BY <2>1 DEF Underway, Steps, Early, Gated, Persisting, Working, Closing
  <2> QED BY <1>2, <2>2, <2>3, <2>4, <2>8, <2>10, <2>11, <2>12, <2>13, QuietMove
<1> QED BY <1>3, <1>4 DEF AppendExecution

LEMMA SaveTranscriptKeeps ==
    ASSUME ServiceInv, NEW c \in Calls, SaveTranscript(c)
    PROVE  ServiceInv'
<1> DEFINE s == calls[c].session
           turn == [call |-> c, paused |-> calls[c].outcome = "approval_required"]
           messages == Append(calls[c].history, turn)
<1>1. /\ calls[c] \in CallRows /\ RowShape(calls[c]) /\ calls[c].now <= clock
      /\ EvidenceAt(c) /\ LeaseAt(c) /\ TypeOK /\ ServiceTypeOK /\ Typed
  BY CallFacts
<1>2. calls[c].pc = "save" /\ s \in Keys /\ calls[c].outcome \in Good /\ sessions[s].exists
      /\ Recorded(c) /\ Awaited(c, calls[c].outcome)
  BY <1>1 DEF SaveTranscript, At, RowShape, Persisting, EvidenceAt
<1>3. CASE Fail(c, "unlease") /\ UNCHANGED sessions
  BY <1>2, <1>3, FailKeeps
     DEF SaveTranscript, Underway, Steps, Persisting, Closing
<1>4. CASE /\ Goto(c, "unlease")
           /\ sessions' = [sessions EXCEPT ![s].transcript = messages]
  <2>1. Moved(c, "unlease", calls[c].outcome)
    BY <1>1, <1>4, GotoMoves DEF Steps, Closing
  <2>2. /\ UNCHANGED <<vars, ledger, approvals, mutation, starts, effects, executed, overlapped>>
        /\ UNCHANGED <<clock, leases>>
    BY <1>1, FleetStays DEF SaveTranscript, history
  <2>3. messages \in Seq(Turn)
    BY <1>1 DEF CallRows, Turn
  <2> HIDE DEF messages
  <2>4. /\ sessions' \in [Keys -> SessionRows]
        /\ \A t \in Keys : sessions'[t].events = sessions[t].events
                           /\ sessions'[t].exists = sessions[t].exists
    <3>1. sessions \in [Keys -> SessionRows]
      BY <1>1 DEF ServiceTypeOK
    <3>2. sessions' = [sessions EXCEPT ![s] = [sessions[s] EXCEPT !.transcript = messages]]
      BY <1>4
    <3>3. [sessions[s] EXCEPT !.transcript = messages] \in SessionRows
      BY <1>2, <2>3, <3>1 DEF SessionRows
    <3> QED BY <1>2, <3>1, <3>2, <3>3 DEF SessionRows
  <2>5. calls'[c].pc = "unlease" /\ calls'[c].outcome = calls[c].outcome
        /\ calls'[c].request = calls[c].request /\ calls'[c].session = s
    BY <2>1 DEF Moved
  <2>6. Recorded(c)' /\ Awaited(c, calls[c].outcome)'
    BY <1>2, <2>2, <2>4, <2>5 DEF Recorded, Awaited
  <2>7. RowShape(calls'[c])
    BY <1>1, <1>2, <2>1 DEF Moved, Good, RowShape, Gated, Working, Persisting, Closing
  <2>8. EvidenceAt(c)'
    BY <1>1, <1>2, <2>4, <2>5, <2>6 DEF EvidenceAt, Closing
  <2>9. LeaseAt(c)'
    BY <2>5 DEF LeaseAt, Working
  <2>10. Grows /\ approvals' \in [Calls -> [state : ApprovalStates, session : Keys \cup {NoSession}]]
    BY <1>1, <2>2, <2>4 DEF Grows, ServiceTypeOK
  <2>11. "unlease" \in Underway /\ "save" \in Underway /\ "unlease" \notin Early
         /\ "save" \notin Working \cup Closing
    BY DEF Underway, Steps, Early, Gated, Persisting, Working, Closing
  <2> QED BY <1>2, <2>1, <2>2, <2>4, <2>7, <2>8, <2>9, <2>10, <2>11, QuietMove
<1> QED BY <1>3, <1>4 DEF SaveTranscript

LEMMA CreateApprovalKeeps ==
    ASSUME ServiceInv, NEW c \in Calls, CreateApproval(c)
    PROVE  ServiceInv'
<1> DEFINE step == IF Agent(c) THEN "append" ELSE "unlease"
<1>0. CASE Fail(c, "unlease") /\ UNCHANGED approvals
  <2>1. calls[c].pc = "approve" /\ "approve" \in Underway \ Closing
    BY DEF CreateApproval, At, Underway, Steps, Persisting, Closing
  <2>2. calls[c].session \in Keys
    BY <2>1, CallFacts DEF RowShape, Persisting
  <2> QED BY <1>0, <2>1, <2>2, FailKeeps DEF CreateApproval
<1> SUFFICES ASSUME approvals' = [approvals EXCEPT ![c] =
                        [state |-> "pending", session |-> calls[c].session]],
                    Goto(c, step)
             PROVE  ServiceInv'
  BY <1>0 DEF CreateApproval
<1>1. /\ calls[c] \in CallRows /\ RowShape(calls[c]) /\ calls[c].now <= clock
      /\ EvidenceAt(c) /\ LeaseAt(c) /\ TypeOK /\ ServiceTypeOK /\ Typed
  BY CallFacts
<1>2. calls[c].pc = "approve" /\ calls[c].session \in Keys /\ calls[c].outcome \in Good
  BY <1>1 DEF CreateApproval, At, RowShape, Persisting
<1>3. Moved(c, step, calls[c].outcome)
  BY <1>1, GotoMoves DEF Steps, Persisting, Closing
<1>4. /\ UNCHANGED <<vars, ledger, sessions, mutation, starts, effects, executed, overlapped>>
      /\ UNCHANGED <<clock, leases>>
  BY <1>1, FleetStays DEF CreateApproval, history
<1>5. /\ approvals' \in [Calls -> [state : ApprovalStates, session : Keys \cup {NoSession}]]
      /\ approvals'[c].state = "pending"
      /\ \A d \in Calls : approvals[d].state # "none" => approvals'[d].state # "none"
  BY <1>1, <1>2 DEF ServiceTypeOK, ApprovalStates
<1>6. calls'[c].pc = step /\ calls'[c].outcome = calls[c].outcome
      /\ calls'[c].request = calls[c].request /\ calls'[c].session = calls[c].session
  BY <1>3 DEF Moved
<1>7. ~Agent(c) => Recorded(c)'
  BY <1>1, <1>2, <1>4 DEF EvidenceAt, Recorded
<1>8. Awaited(c, calls[c].outcome)'
  BY <1>5 DEF Awaited
<1>9. RowShape(calls'[c])
  BY <1>1, <1>2, <1>3 DEF Moved, Good, RowShape, Gated, Working, Persisting, Closing
<1>10. EvidenceAt(c)'
  BY <1>1, <1>2, <1>4, <1>6, <1>7, <1>8 DEF EvidenceAt, Closing, Agent
<1>11. LeaseAt(c)'
  BY <1>6 DEF LeaseAt, Working
<1>12. Grows /\ sessions' \in [Keys -> SessionRows]
  BY <1>1, <1>4, <1>5 DEF Grows, ServiceTypeOK
<1>13. step \in Underway /\ "approve" \in Underway /\ step \notin Early /\ step # "complete"
       /\ "approve" \notin Working \cup Closing
  BY DEF Underway, Steps, Early, Gated, Persisting, Working, Closing
<1> QED BY <1>2, <1>3, <1>4, <1>5, <1>9, <1>10, <1>11, <1>12, <1>13, QuietMove

-----------------------------------------------------------------------------
(* Leases.                                                                   *)

\* Steps that only end leases, as a look at the clock does.
LEMMA LeasesEndKeep ==
    ASSUME TypeOK, MutationInv, UNCHANGED <<clock, quiescence, guards, mutation>>,
           NEW c \in Calls, Others(c), LeaseAt(c)',
           \A d \in Calls \ {c} :
               leases'[d] = leases[d] \/ (leases'[d].state # "active" /\ clock >= leases[d].expires),
           \A d \in Calls : leases'[d].state = "active" => leases[d].state = "active",
           ServiceTypeOK
    PROVE  MutationInv'
<1>1. Calls = Leases
  BY ServiceAssumption
<1>2. ASSUME NEW d \in Calls \ {c} PROVE LeaseAt(d)'
  <2>1. LeaseAt(d) /\ calls'[d] = calls[d]
    BY DEF MutationInv, Others
  <2>2. leases'[d] = leases[d] \/ (leases'[d].state # "active" /\ clock >= leases[d].expires)
    BY <2>1
  <2> QED BY <2>1, <2>2 DEF LeaseAt
<1>3. GuardRow' /\ QuiescenceExcludesLeases'
  BY <1>1 DEF MutationInv, GuardRow, QuiescenceExcludesLeases, Quiescent
<1> QED BY <1>2, <1>3 DEF MutationInv

LEMMA ExpireKeeps ==
    ASSUME ServiceInv, NEW c \in Calls, Expire(c)
    PROVE  ServiceInv'
<1>1. /\ calls[c] \in CallRows /\ RowShape(calls[c]) /\ calls[c].now <= clock
      /\ EvidenceAt(c) /\ LeaseAt(c) /\ TypeOK /\ ServiceTypeOK /\ Typed
  BY CallFacts
<1>2. calls[c].pc = "expire"
  BY DEF Expire, At
<1>3. Moved(c, "lease", calls[c].outcome)
  BY <1>1, GotoMoves DEF Expire, Steps, Gated
<1>4. /\ UNCHANGED <<ledger, sessions, approvals, mutation, starts, effects, executed, overlapped>>
      /\ UNCHANGED <<clock, quiescence, guards, fences, nodes, supervisors>>
      /\ UNCHANGED fenceVars
      /\ leases' = Expired(Leases, calls[c].now)
  BY DEF Expire, ExpireLeases, history, baseVars, fenceVars
<1>5. TypeOK'
  <2>1. leases' \in [Leases -> LeaseRows]
    BY <1>1, <1>4, ExpiredFacts DEF TypeOK
  <2> QED BY <1>1, <1>4, <2>1 DEF TypeOK, BaseTypeOK, LeasesTypeOK, FencesTypeOK, fenceVars
<1>6. \A d \in Calls :
        /\ leases'[d] = leases[d] \/ (leases'[d].state # "active" /\ clock >= leases[d].expires)
        /\ leases'[d].state = "active" => leases[d].state = "active"
  <2>1. SUFFICES ASSUME NEW d \in Leases
                 PROVE  /\ leases'[d] = leases[d] \/ (leases'[d].state # "active" /\ clock >= leases[d].expires)
                        /\ leases'[d].state = "active" => leases[d].state = "active"
    BY ServiceAssumption
  <2>2. leases[d] \in LeaseRows /\ calls[c].now \in Nat /\ clock \in Nat
    BY <1>1 DEF TypeOK, LeasesTypeOK, BaseTypeOK, CallRows
  <2>3. CASE leases[d].state = "active" /\ leases[d].expires <= calls[c].now
    BY <1>1, <1>4, <2>2, <2>3 DEF Expired, LeaseRows
  <2>4. CASE ~(leases[d].state = "active" /\ leases[d].expires <= calls[c].now)
    BY <1>4, <2>4 DEF Expired
  <2> QED BY <2>3, <2>4
<1>7. calls'[c].pc = "lease" /\ calls'[c].outcome = calls[c].outcome
      /\ calls'[c].request = calls[c].request /\ calls'[c].session = calls[c].session
  BY <1>3 DEF Moved
<1>8. LeaseAt(c)'
  BY <1>1, <1>2, <1>6, <1>7 DEF LeaseAt, Working
<1>9. MutationInv'
  BY <1>1, <1>3, <1>4, <1>6, <1>8, LeasesEndKeep DEF Moved, ServiceInv
<1>10. RowShape(calls'[c])
  BY <1>1, <1>2, <1>3 DEF Moved, RowShape, Gated, Working, Persisting, Closing
<1>11. EvidenceAt(c)'
  BY <1>1, <1>4, <1>7 DEF EvidenceAt, Closing
<1>12. Grows /\ sessions' \in [Keys -> SessionRows]
      /\ approvals' \in [Calls -> [state : ApprovalStates, session : Keys \cup {NoSession}]]
  BY <1>1, <1>4 DEF Grows, ServiceTypeOK
<1>13. "lease" \in Underway /\ "expire" \in Underway /\ "expire" \in Early
       /\ "expire" \notin Working \cup Closing
  BY DEF Underway, Steps, Early, Gated, Persisting, Working, Closing
<1> QED BY <1>2, <1>3, <1>4, <1>5, <1>9, <1>10, <1>11, <1>12, <1>13, MoveKeeps

LEMMA ReleaseServiceLeaseKeeps ==
    ASSUME ServiceInv, NEW c \in Calls, ReleaseServiceLease(c)
    PROVE  ServiceInv'
<1> DEFINE step == IF calls[c].fence = 0 THEN "complete" ELSE "unfence"
<1>1. /\ calls[c] \in CallRows /\ RowShape(calls[c]) /\ calls[c].now <= clock
      /\ EvidenceAt(c) /\ LeaseAt(c) /\ TypeOK /\ ServiceTypeOK /\ Typed
  BY CallFacts
<1>2. calls[c].pc = "unlease" /\ c \in Leases
  BY ServiceAssumption DEF ReleaseServiceLease, At
<1>3. Moved(c, step, calls[c].outcome)
  BY <1>1, GotoMoves DEF ReleaseServiceLease, Steps, Closing
<1>4. /\ UNCHANGED <<ledger, sessions, approvals, mutation, starts, effects, executed, overlapped>>
      /\ UNCHANGED <<clock, quiescence, guards, fences, nodes, supervisors>>
      /\ UNCHANGED fenceVars
      /\ \/ leases[c].state = "active" /\ leases' = [leases EXCEPT ![c].state = "released"]
         \/ leases[c].state # "active" /\ leases' = leases
  BY DEF ReleaseServiceLease, ReleaseLease, history, vars, baseVars, leaseVars, fenceVars
<1>5. leases' \in [Leases -> LeaseRows]
  BY <1>1, <1>2, <1>4 DEF TypeOK, LeasesTypeOK, LeaseRows, LeaseStates
<1>6. TypeOK'
  BY <1>1, <1>4, <1>5 DEF TypeOK, BaseTypeOK, LeasesTypeOK, FencesTypeOK, fenceVars
<1>7. leases'[c].state # "active" /\ \A d \in Calls \ {c} : leases'[d] = leases[d]
  BY <1>1, <1>2, <1>4, ServiceAssumption DEF TypeOK, LeasesTypeOK, LeaseRows
<1>8. calls'[c].pc = step /\ calls'[c].outcome = calls[c].outcome
      /\ calls'[c].request = calls[c].request /\ calls'[c].session = calls[c].session
  BY <1>3 DEF Moved
<1>9. LeaseAt(c)'
  BY <1>7, <1>8 DEF LeaseAt, Working
<1>10. MutationInv'
  <2>1. \A d \in Calls : leases'[d].state = "active" => leases[d].state = "active"
    BY <1>7
  <2> QED BY <1>1, <1>3, <1>4, <1>7, <1>9, <2>1, LeasesEndKeep DEF Moved, ServiceInv
<1>11. RowShape(calls'[c])
  BY <1>1, <1>2, <1>3 DEF Moved, RowShape, Gated, Working, Persisting, Closing
<1>12. EvidenceAt(c)'
  <2>1. (Recorded(c) <=> Recorded(c)') /\ (Awaited(c, calls[c].outcome) <=> Awaited(c, calls[c].outcome)')
    BY <1>4, <1>8 DEF Recorded, Awaited
  <2> QED BY <1>1, <1>2, <1>4, <1>8, <2>1 DEF EvidenceAt, Closing
<1>13. Grows /\ sessions' \in [Keys -> SessionRows]
      /\ approvals' \in [Calls -> [state : ApprovalStates, session : Keys \cup {NoSession}]]
  BY <1>1, <1>4 DEF Grows, ServiceTypeOK
<1>14. step \in Underway /\ "unlease" \in Underway /\ step \notin Early /\ step \in Closing
       /\ "unlease" \notin Working
  BY DEF Underway, Steps, Early, Gated, Persisting, Working, Closing
<1> QED BY <1>2, <1>3, <1>4, <1>6, <1>10, <1>11, <1>12, <1>13, <1>14, MoveKeeps

LEMMA TakeLeaseKeeps ==
    ASSUME ServiceInv, NEW c \in Calls, TakeLease(c)
    PROVE  ServiceInv'
<1>1. /\ calls[c] \in CallRows /\ RowShape(calls[c]) /\ calls[c].now <= clock
      /\ EvidenceAt(c) /\ LeaseAt(c) /\ TypeOK /\ ServiceTypeOK /\ Typed
  BY CallFacts
<1>2. calls[c].pc = "lease" /\ calls[c].fence = 0 /\ leases[c].state # "active"
      /\ calls[c].session \in Keys /\ c \in Leases /\ "lease" \in Underway \ Closing
  BY <1>1, ServiceAssumption DEF TakeLease, At, RowShape, Gated, LeaseAt, Underway, Steps, Closing
<1>3. /\ UNCHANGED <<ledger, sessions, approvals, mutation, starts, effects, executed, overlapped>>
  BY DEF TakeLease, history
<1>4. CASE Fail(c, "complete") /\ UNCHANGED vars
  BY <1>2, <1>4, FailKeeps DEF TakeLease
<1>5. CASE /\ AcquireLease(c, ServiceNode, calls[c].now, ServiceLease) /\ UNCHANGED fenceVars
           /\ Goto(c, "fence")
  <2>1. Moved(c, "fence", calls[c].outcome)
    BY <1>1, <1>5, GotoMoves DEF Steps, Gated
  <2>2. /\ calls[c].now \in Nat /\ ServiceLease \in Nat /\ ServiceNode \in Nodes
        /\ calls[c].now + ServiceLease \in Nat
    BY <1>1, ServiceAssumption DEF CallRows
  <2>3. /\ UNCHANGED <<clock, guards, fences, nodes, supervisors>>
        /\ quiescence' = Purged(calls[c].now) /\ WorkPermitted(calls[c].now)
        /\ leases' = [leases EXCEPT ![c] =
             [state |-> "active", node |-> ServiceNode, expires |-> calls[c].now + ServiceLease,
              generation |-> supervisors[ServiceNode].generation]]
    BY <1>5 DEF AcquireLease, fenceVars
  <2>4. /\ leases' \in [Leases -> LeaseRows]
        /\ leases'[c].state = "active" /\ leases'[c].expires = calls[c].now + ServiceLease
        /\ \A d \in Calls \ {c} : leases'[d] = leases[d]
    BY <1>1, <1>2, <2>2, <2>3, ServiceAssumption
       DEF TypeOK, LeasesTypeOK, LeaseRows, LeaseStates, Supervisors
  <2>5. TypeOK'
    <3>1. quiescence' \in QuiescenceRows
      BY <1>1, <2>3, PurgedType DEF TypeOK
    <3> QED BY <1>1, <1>5, <2>3, <2>4, <3>1
            DEF TypeOK, BaseTypeOK, LeasesTypeOK, FencesTypeOK, fenceVars
  <2>6. calls'[c].pc = "fence" /\ calls'[c].outcome = calls[c].outcome
        /\ calls'[c].request = calls[c].request /\ calls'[c].session = calls[c].session
        /\ calls'[c].now = calls[c].now /\ Others(c)
    BY <2>1 DEF Moved
  <2>7. MutationInv'
    <3>1. GuardRow /\ QuiescenceExcludesLeases /\ BaseTypeOK
      BY <1>1 DEF ServiceInv, MutationInv, TypeOK
    <3>2. ~Quiescent
      BY <1>1, <2>2, <2>3, <3>1, PermittedMeansNoGuard
    <3>3. AtMostPurges
      BY <1>1, <2>2, <2>3 DEF AtMostPurges
    <3>4. GuardRow' /\ ~Quiescent'
      BY <3>1, <3>2, <3>3, WorkKeepsGuardRow
    <3>5. LeaseAt(c)'
      BY <2>4, <2>6 DEF LeaseAt, Working
    <3>6. \A d \in Calls \ {c} : LeaseAt(d)'
      BY <2>3, <2>4, <2>6 DEF LeaseAt, Others, ServiceInv, MutationInv
    <3> QED BY <1>3, <2>3, <3>4, <3>5, <3>6 DEF MutationInv, ServiceInv, QuiescenceExcludesLeases
  <2>8. RowShape(calls'[c])
    BY <1>1, <1>2, <2>1 DEF Moved, RowShape, Gated, Working, Persisting, Closing
  <2>9. EvidenceAt(c)'
    BY <1>1, <1>3, <2>6 DEF EvidenceAt, Closing
  <2>10. Grows /\ sessions' \in [Keys -> SessionRows]
        /\ approvals' \in [Calls -> [state : ApprovalStates, session : Keys \cup {NoSession}]]
    BY <1>1, <1>3 DEF Grows, ServiceTypeOK
  <2>11. "fence" \in Underway /\ "lease" \in Early /\ "lease" \notin Working \cup Closing
    BY DEF Underway, Steps, Early, Gated, Persisting, Working, Closing
  <2> QED BY <1>2, <1>3, <2>1, <2>3, <2>5, <2>7, <2>8, <2>9, <2>10, <2>11, MoveKeeps
<1> QED BY <1>4, <1>5 DEF TakeLease

-----------------------------------------------------------------------------
(* Fences.                                                                   *)

LEMMA TakeFenceKeeps ==
    ASSUME ServiceInv, NEW c \in Calls, TakeFence(c)
    PROVE  ServiceInv'
<1> DEFINE s == calls[c].session
           g == NextGeneration(s)
<1>1. /\ calls[c] \in CallRows /\ RowShape(calls[c]) /\ calls[c].now <= clock
      /\ EvidenceAt(c) /\ LeaseAt(c) /\ TypeOK /\ ServiceTypeOK /\ Typed
  BY CallFacts
<1>2. calls[c].pc = "fence" /\ calls[c].fence = 0 /\ s \in Keys /\ "fence" \in Underway \ Closing
  BY <1>1 DEF TakeFence, At, RowShape, Gated, Underway, Steps, Closing
<1>3. UNCHANGED <<ledger, sessions, approvals, mutation, starts, effects, executed>>
  BY DEF TakeFence
<1>4. CASE Fail(c, "unlease") /\ UNCHANGED <<vars, overlapped>>
  BY <1>2, <1>3, <1>4, FailKeeps DEF history
<1>5. CASE /\ AcquireFence(s, ServiceNode, calls[c].now, ServiceLease)
           /\ UNCHANGED leaseVars
           /\ calls' = [calls EXCEPT ![c].pc = "execute", ![c].fence = NextGeneration(s)]
           /\ overlapped' = overlapped \cup Overtakes(c, s)
  <2>1. /\ calls[c].now \in Nat /\ ServiceLease \in Nat /\ ServiceNode \in FenceOwners
        /\ calls[c].now + ServiceLease \in Nat
        /\ fences[s].generation \in Nat /\ g = fences[s].generation + 1 /\ g \in Nat
        /\ fences \in [Keys -> FenceRows] /\ calls \in [Calls -> CallRows]
    <3>1. fences \in [Keys -> FenceRows] /\ calls \in [Calls -> CallRows]
      BY <1>1 DEF TypeOK, FencesTypeOK, ServiceTypeOK
    <3>2. fences[s].generation \in Nat
      BY <1>2, <3>1 DEF FenceRows
    <3>3. calls[c].now \in Nat
      BY <1>1 DEF CallRows
    <3> QED BY <3>1, <3>2, <3>3, ServiceAssumption DEF NextGeneration
  <2>2. /\ UNCHANGED <<clock, guards, leases, nodes, supervisors, operations, relinquished>>
        /\ quiescence' = Purged(calls[c].now)
        /\ fences' = [fences EXCEPT ![s] =
             [state |-> "active", owner |-> ServiceNode, generation |-> g,
              issued |-> calls[c].now, expires |-> calls[c].now + ServiceLease]]
    BY <1>5 DEF AcquireFence, leaseVars
  <2> HIDE DEF g
  <2>3. /\ fences' \in [Keys -> FenceRows]
        /\ fences'[s].state = "active" /\ fences'[s].generation = g
        /\ fences'[s].issued = calls[c].now
        /\ fences'[s].expires = calls[c].now + ServiceLease
        /\ \A t \in Keys \ {s} : fences'[t] = fences[t]
    BY <1>2, <2>1, <2>2 DEF FenceRows, FenceStates
  <2>4. /\ calls' \in [Calls -> CallRows] /\ Others(c)
        /\ calls'[c].pc = "execute" /\ calls'[c].fence = g
        /\ calls'[c].outcome = calls[c].outcome /\ calls'[c].answer = calls[c].answer
        /\ calls'[c].request = calls[c].request /\ calls'[c].session = s
        /\ calls'[c].now = calls[c].now
    <3>1. calls' = [calls EXCEPT ![c] = [calls[c] EXCEPT !.pc = "execute", !.fence = g]]
      BY <1>1, <1>5, <2>1 DEF CallRows, g
    <3>2. [calls[c] EXCEPT !.pc = "execute", !.fence = g] \in CallRows
      BY <1>1, <2>1 DEF CallRows, Steps, Working
    <3> QED BY <1>1, <2>1, <3>1, <3>2 DEF CallRows, Others
  <2>5. TypeOK'
    <3>1. quiescence' \in QuiescenceRows
      BY <1>1, <2>2, PurgedType DEF TypeOK
    <3> QED BY <1>1, <2>2, <2>3, <3>1 DEF TypeOK, BaseTypeOK, LeasesTypeOK, FencesTypeOK
  <2>6. Typed'
    <3>1. overlapped' \subseteq Overlaps
      <4>1. \A d \in Calls : [first |-> d, second |-> c, checked |-> calls[d].pc \in Persisting]
                               \in Overlaps
        <5> SUFFICES ASSUME NEW d \in Calls
                     PROVE  [first |-> d, second |-> c, checked |-> calls[d].pc \in Persisting]
                              \in Overlaps
          OBVIOUS
        <5>1. (calls[d].pc \in Persisting) \in BOOLEAN
          OBVIOUS
        <5> QED BY <5>1, Zenon DEF Overlaps
      <4>2. Overtakes(c, s) \subseteq Overlaps
        BY <4>1, Zenon DEF Overtakes
      <4> QED BY <1>1, <1>5, <4>2 DEF ServiceTypeOK
    <3> QED BY <1>1, <1>3, <2>4, <2>5, <3>1 DEF Typed, ServiceTypeOK, LedgerTypeOK
  <2>7. Rows'
    <3>1. RowShape(calls'[c])
      BY <1>1, <1>2, <2>1, <2>4 DEF RowShape, Gated, Working, Persisting, Closing
    <3> QED BY <1>1, <2>2, <2>4, <3>1, RowsKeep DEF ServiceInv
  <2>8. LedgerInv'
    BY <1>2, <1>3, <2>4, LedgerKeeps DEF ServiceInv
  <2>9. EvidenceInv'
    <3>1. EvidenceAt(c)'
      BY <1>1, <1>3, <2>4 DEF EvidenceAt, Closing
    <3>2. Grows
      BY <1>3 DEF Grows
    <3> QED BY <1>2, <1>3, <2>4, <3>1, <3>2, EvidenceKeeps DEF ServiceInv
  <2>10. MutationInv'
    <3>1. GuardRow /\ QuiescenceExcludesLeases /\ BaseTypeOK /\ AtMostPurges
      BY <1>1, <2>1, <2>2 DEF ServiceInv, MutationInv, TypeOK, AtMostPurges
    <3>2. GuardRow' /\ QuiescenceExcludesLeases'
      BY <2>2, <3>1, WorkKeepsGuardRow DEF QuiescenceExcludesLeases
    <3>3. LeaseAt(c)'
      BY <1>1, <1>2, <2>2, <2>4 DEF LeaseAt, Working
    <3>4. \A d \in Calls \ {c} : LeaseAt(d)'
      BY <2>2, <2>4 DEF LeaseAt, Others, ServiceInv, MutationInv
    <3> QED BY <1>3, <2>2, <3>2, <3>3, <3>4 DEF MutationInv, ServiceInv
  <2>11. ASSUME NEW d \in Calls \ {c}
         PROVE  /\ calls'[d] = calls[d] /\ calls[d] \in CallRows /\ calls[d].fence \in Nat
                /\ calls[d].session = s => calls[d].fence < g
    <3>1. calls'[d] = calls[d] /\ calls[d] \in CallRows
      BY <2>1, <2>4 DEF Others
    <3>2. calls[d].fence \in Nat
      BY <3>1 DEF CallRows
    <3>3. calls[d].session = s => calls[d].fence <= fences[s].generation
      BY <1>2 DEF ServiceInv, FenceInv
    <3> QED BY <2>1, <3>1, <3>2, <3>3
  <2>12. FenceInv'
    <3>1. ASSUME NEW t \in Keys, fences'[t].state = "active"
          PROVE  /\ fences'[t].generation # 0
                 /\ \E d \in Calls : calls'[d].pc = "lost" \/ Holds(d, t)'
      <4>1. CASE t = s
        <5>1. Holds(c, t)'
          BY <2>3, <2>4, <4>1 DEF Holds
        <5>2. fences'[t].generation # 0
          BY <2>1, <2>3, <4>1
        <5> QED BY <5>1, <5>2
      <4>2. CASE t # s
        <5>1. fences'[t] = fences[t]
          BY <2>3, <4>2
        <5>2. PICK d \in Calls : calls[d].pc = "lost" \/ Holds(d, t)
          BY <3>1, <5>1 DEF ServiceInv, FenceInv
        <5>3. d # c
          BY <1>2, <4>2, <5>2 DEF Holds
        <5> QED BY <2>11, <3>1, <5>1, <5>2, <5>3 DEF ServiceInv, FenceInv, Holds
      <4> QED BY <4>1, <4>2
    <3>2. ASSUME NEW d \in Calls, NEW t \in Keys, calls'[d].session = t
          PROVE  /\ calls'[d].fence <= fences'[t].generation
                 /\ Holds(d, t)' /\ fences'[t].state = "active" =>
                      /\ calls'[d].pc # "complete"
                      /\ fences'[t].issued = calls'[d].now
                      /\ fences'[t].expires = calls'[d].now + ServiceLease
      <4>1. CASE d = c
        BY <2>1, <2>3, <2>4, <3>2, <4>1
      <4>2. CASE d # c /\ t = s
        BY <2>1, <2>3, <2>11, <3>2, <4>2 DEF Holds
      <4>3. CASE d # c /\ t # s
        <5>1. fences'[t] = fences[t] /\ calls'[d] = calls[d]
          BY <2>3, <2>11, <4>3
        <5> QED BY <3>2, <5>1 DEF ServiceInv, FenceInv, Holds
      <4> QED BY <4>1, <4>2, <4>3
    <3>3. ASSUME NEW d \in Calls, NEW e \in Calls, calls'[d].session = calls'[e].session,
                 calls'[d].fence = calls'[e].fence, calls'[d].fence # 0
          PROVE  d = e
      <4>1. CASE d # c /\ e # c
        BY <2>11, <3>3, <4>1 DEF ServiceInv, FenceInv
      <4>2. CASE d = c /\ e # c
        BY <2>1, <2>4, <2>11, <3>3, <4>2
      <4>3. CASE d # c /\ e = c
        BY <2>1, <2>4, <2>11, <3>3, <4>3
      <4> QED BY <4>1, <4>2, <4>3
    <3> QED BY <3>1, <3>2, <3>3 DEF FenceInv
  <2>13. OverlapInv'
    <3>1. \A d \in Calls : Unrecorded(d)' <=> Unrecorded(d)
      BY <1>3 DEF Unrecorded
    <3>2. \A d \in Calls : calls'[d].pc \in Early => Unrecorded(d)'
      BY <1>2, <2>11, <3>1 DEF ServiceInv, OverlapInv, Early, Gated
    <3>3. ASSUME NEW d \in Calls, Loses(d) PROVE Loses(d)'
      <4>1. d # c
        BY <1>2, <3>3 DEF Loses, Working, Closing
      <4>2. calls[d].pc \in Working => calls[d].session \in Keys
        BY DEF ServiceInv, Rows, RowShape
      <4>3. ASSUME calls[d].pc \in Working, calls[d].fence < fences[calls[d].session].generation
            PROVE  calls[d].fence < fences'[calls[d].session].generation
        <5>1. CASE calls[d].session = s
          BY <2>3, <2>11, <4>1, <5>1
        <5>2. CASE calls[d].session # s
          BY <2>3, <4>2, <4>3, <5>2
        <5> QED BY <5>1, <5>2
      <4> QED BY <2>11, <3>1, <3>3, <4>1, <4>3 DEF Loses
    <3>4. ASSUME NEW d \in Calls, calls[d].session = s, calls[d].pc \in Working PROVE Loses(d)'
      <4>1. d # c
        BY <1>2, <3>4 DEF Working
      <4>2. Unrecorded(d)
        BY <3>4 DEF ServiceInv, OverlapInv
      <4> QED BY <2>3, <2>11, <3>1, <3>4, <4>1, <4>2 DEF Loses
    <3>5. overlapped \subseteq Overlaps
      BY <1>1 DEF ServiceTypeOK
    <3>6. ASSUME NEW o \in overlapped' PROVE o.checked \/ Loses(o.first)'
      <4>1. CASE o \in overlapped
        BY <3>3, <3>5, <4>1 DEF ServiceInv, OverlapInv, Overlaps
      <4>2. CASE o \in Overtakes(c, s)
        <5>1. PICK d \in Calls :
                /\ calls[d].session = s /\ calls[d].pc \in Working \cup Persisting
                /\ o = [first |-> d, second |-> c, checked |-> calls[d].pc \in Persisting]
          BY <4>2 DEF Overtakes
        <5>2. o.first = d /\ (o.checked <=> calls[d].pc \in Persisting)
          BY <5>1
        <5> QED BY <3>4, <5>1, <5>2
      <4> QED BY <1>5, <4>1, <4>2
    <3> QED BY <3>2, <3>6 DEF OverlapInv, Early
  <2> QED BY <2>6, <2>7, <2>8, <2>9, <2>10, <2>12, <2>13 DEF ServiceInv
<1> QED BY <1>4, <1>5 DEF TakeFence

LEMMA ReleaseServiceFenceKeeps ==
    ASSUME ServiceInv, NEW c \in Calls, ReleaseServiceFence(c)
    PROVE  ServiceInv'
<1> DEFINE s == calls[c].session
           last == calls[c].now + ServiceLease - 1
<1>1. /\ calls[c] \in CallRows /\ RowShape(calls[c]) /\ calls[c].now <= clock
      /\ EvidenceAt(c) /\ LeaseAt(c) /\ TypeOK /\ ServiceTypeOK /\ Typed
  BY CallFacts
<1>2. /\ calls[c].pc = "unfence" /\ s \in Keys
      /\ calls[c].fence \in Nat /\ calls[c].now \in Nat /\ ServiceLease \in Nat \ {0}
  BY <1>1, ServiceAssumption DEF ReleaseServiceFence, At, RowShape, CallRows
<1>3. /\ UNCHANGED <<ledger, sessions, approvals, mutation, starts, effects, executed, overlapped>>
      /\ UNCHANGED <<clock, quiescence, guards, leases, nodes, supervisors, operations>>
  BY DEF ReleaseServiceFence, ReleaseFence, history, vars, baseVars, leaseVars, fenceVars
<1>4. Moved(c, "complete", calls[c].outcome)
  BY <1>1, GotoMoves DEF ReleaseServiceFence, Steps, Closing
<1>5. /\ calls'[c].pc = "complete" /\ calls'[c].outcome = calls[c].outcome
      /\ calls'[c].request = calls[c].request /\ calls'[c].session = s
      /\ calls'[c].now = calls[c].now /\ calls'[c].fence = calls[c].fence
      /\ calls'[c].answer = calls[c].answer
      /\ Others(c) /\ calls' \in [Calls -> CallRows]
  BY <1>4 DEF Moved
<1>6. /\ fences' \in [Keys -> FenceRows] /\ relinquished' \subseteq Keys \X Nat
      /\ \A t \in Keys \ {s} : fences'[t] = fences[t]
      /\ fences'[s].generation = fences[s].generation
      /\ fences'[s].issued = fences[s].issued /\ fences'[s].expires = fences[s].expires
      /\ fences'[s].state = "active" => fences[s].state = "active"
      /\ ~(Holds(c, s) /\ fences'[s].state = "active")
  <2>1. fences \in [Keys -> FenceRows] /\ relinquished \subseteq Keys \X Nat
    BY <1>1 DEF TypeOK, FencesTypeOK
  <2>2. CASE ReleaseFence(s, calls[c].fence, last)
    <3>1. fences' = [fences EXCEPT ![s] = [fences[s] EXCEPT !.state = "released"]]
          /\ relinquished' = relinquished \cup {<<s, calls[c].fence>>}
      BY <2>2 DEF ReleaseFence
    <3>2. [fences[s] EXCEPT !.state = "released"] \in FenceRows
      BY <1>2, <2>1 DEF FenceRows, FenceStates
    <3> QED BY <1>2, <2>1, <3>1, <3>2 DEF FenceRows
  <2>3. CASE ~FenceValid(s, calls[c].fence, last) /\ UNCHANGED vars
    <3>1. fences' = fences /\ relinquished' = relinquished
      BY <2>3 DEF vars, fenceVars
    <3>2. Holds(c, s) /\ fences[s].state = "active" =>
             /\ fences[s].generation = calls[c].fence
             /\ fences[s].issued = calls[c].now
             /\ fences[s].expires = calls[c].now + ServiceLease
      BY <1>2 DEF ServiceInv, FenceInv, Holds
    <3>3. calls[c].now <= last /\ last < calls[c].now + ServiceLease
      BY <1>2
    <3> QED BY <2>1, <2>3, <3>1, <3>2, <3>3 DEF FenceValid
  <2> QED BY <2>2, <2>3 DEF ReleaseServiceFence
<1>7. TypeOK'
  BY <1>1, <1>3, <1>6 DEF TypeOK, BaseTypeOK, LeasesTypeOK, FencesTypeOK
<1>8. Typed'
  BY <1>1, <1>3, <1>5, <1>7 DEF Typed, ServiceTypeOK, LedgerTypeOK
<1>9. Rows'
  <2>1. RowShape(calls'[c])
    BY <1>1, <1>2, <1>5 DEF RowShape, Gated, Working, Persisting, Closing
  <2> QED BY <1>1, <1>3, <1>5, <2>1, RowsKeep DEF ServiceInv
<1>10. LedgerInv'
  BY <1>2, <1>3, <1>5, LedgerKeeps DEF ServiceInv
<1>11. EvidenceInv'
  <2>1. (Recorded(c) <=> Recorded(c)') /\ (Awaited(c, calls[c].outcome) <=> Awaited(c, calls[c].outcome)')
    BY <1>3, <1>5 DEF Recorded, Awaited
  <2>2. EvidenceAt(c)'
    BY <1>1, <1>2, <1>3, <1>5, <2>1 DEF EvidenceAt, Closing
  <2>3. Grows
    BY <1>3 DEF Grows
  <2> QED BY <1>2, <1>3, <1>5, <2>2, <2>3, EvidenceKeeps DEF ServiceInv
<1>12. MutationInv'
  <2>1. LeaseAt(c)'
    BY <1>1, <1>2, <1>3, <1>5 DEF LeaseAt, Working
  <2> QED BY <1>3, <1>5, <2>1, MutationKeeps DEF ServiceInv
<1>13. FenceInv'
  <2>1. \A t \in Keys :
          /\ fences'[t].generation = fences[t].generation
          /\ fences'[t].issued = fences[t].issued /\ fences'[t].expires = fences[t].expires
          /\ fences'[t].state = "active" => fences[t].state = "active"
    BY <1>6
  <2>2. \A d \in Calls : /\ calls'[d].session = calls[d].session /\ calls'[d].now = calls[d].now
                         /\ calls'[d].fence = calls[d].fence
                         /\ d # c => calls'[d].pc = calls[d].pc
    BY <1>5 DEF Others
  <2>3. \A d \in Calls, t \in Keys : Holds(d, t)' <=> Holds(d, t)
    BY <2>1, <2>2 DEF Holds
  <2>4. ASSUME NEW t \in Keys, fences'[t].state = "active"
        PROVE  /\ fences'[t].generation # 0
               /\ \E d \in Calls : calls'[d].pc = "lost" \/ Holds(d, t)'
    <3>1. PICK d \in Calls : calls[d].pc = "lost" \/ Holds(d, t)
      BY <2>1, <2>4 DEF ServiceInv, FenceInv
    <3>2. calls'[d].pc = "lost" \/ Holds(d, t)'
      BY <1>2, <2>2, <2>3, <3>1
    <3> QED BY <2>1, <2>4, <3>2 DEF ServiceInv, FenceInv
  <2>5. ASSUME NEW d \in Calls, NEW t \in Keys, calls'[d].session = t
        PROVE  /\ calls'[d].fence <= fences'[t].generation
               /\ Holds(d, t)' /\ fences'[t].state = "active" =>
                    /\ calls'[d].pc # "complete"
                    /\ fences'[t].issued = calls'[d].now
                    /\ fences'[t].expires = calls'[d].now + ServiceLease
    <3>1. CASE d = c
      <4>1. t = s
        BY <1>5, <2>5, <3>1
      <4> QED BY <1>6, <2>1, <2>2, <2>3, <2>5, <3>1, <4>1 DEF ServiceInv, FenceInv
    <3>2. CASE d # c
      BY <2>1, <2>2, <2>3, <2>5, <3>2 DEF ServiceInv, FenceInv
    <3> QED BY <3>1, <3>2
  <2>6. \A d, e \in Calls :
         /\ calls'[d].session = calls'[e].session /\ calls'[d].fence = calls'[e].fence
         /\ calls'[d].fence # 0
         => d = e
    BY <2>2 DEF ServiceInv, FenceInv
  <2> QED BY <2>4, <2>5, <2>6 DEF FenceInv
<1>14. OverlapInv'
  <2>1. \A t \in Keys : fences'[t].generation = fences[t].generation
    BY <1>6
  <2>2. "complete" \in Closing /\ "complete" \notin Early /\ "unfence" \notin Working
    BY DEF Closing, Early, Gated, Working
  <2> QED BY <1>1, <1>2, <1>3, <1>5, <2>1, <2>2, OverlapKeeps DEF ServiceInv, ServiceTypeOK
<1> QED BY <1>8, <1>9, <1>10, <1>11, <1>12, <1>13, <1>14 DEF ServiceInv

-----------------------------------------------------------------------------
(* The beginning of a handler.                                               *)

LEMMA ReadSessionKeeps ==
    ASSUME ServiceInv, NEW c \in Calls, ReadSession(c)
    PROVE  ServiceInv'
<1> DEFINE r == calls[c].request
<1>1. /\ calls[c] \in CallRows /\ RowShape(calls[c]) /\ calls[c].now <= clock
      /\ EvidenceAt(c) /\ LeaseAt(c) /\ TypeOK /\ ServiceTypeOK /\ Typed
  BY CallFacts
<1>2. /\ calls[c].pc = "read" /\ calls[c].session = NoSession /\ calls[c].fence = 0
      /\ r \in Requests /\ leases[c].state # "active" /\ "read" \in Underway \ Closing
  BY <1>1 DEF ReadSession, At, RowShape, LeaseAt, Underway, Steps, Closing
<1>3. /\ UNCHANGED <<ledger, approvals, mutation, starts, effects, executed, overlapped>>
      /\ UNCHANGED vars
      /\ TypeOK' /\ UNCHANGED <<clock, quiescence, guards, leases, fences>>
  BY <1>1, FleetStays DEF ReadSession, history
<1>4. CASE Fail(c, "complete") /\ UNCHANGED sessions
  BY <1>2, <1>3, <1>4, FailKeeps DEF history
<1>5. ASSUME NEW s \in Keys, NEW h \in Seq(Turn),
             calls' = [calls EXCEPT ![c] = [calls[c] EXCEPT !.pc = "expire", !.session = s, !.history = h]],
             sessions' \in [Keys -> SessionRows],
             \A t \in Keys : sessions'[t].events = sessions[t].events,
             \A t \in Keys : sessions[t].exists => sessions'[t].exists,
             r.method # "run.execute" => sessions'[s].exists
      PROVE  ServiceInv'
  <2>1. /\ calls' \in [Calls -> CallRows] /\ Others(c)
        /\ calls'[c].pc = "expire" /\ calls'[c].session = s
        /\ calls'[c].outcome = calls[c].outcome /\ calls'[c].answer = calls[c].answer
        /\ calls'[c].request = r /\ calls'[c].fence = 0
        /\ calls'[c].now = calls[c].now
    <3>1. calls \in [Calls -> CallRows]
      BY <1>1 DEF ServiceTypeOK
    <3>2. [calls[c] EXCEPT !.pc = "expire", !.session = s, !.history = h] \in CallRows
      BY <1>1, <1>5 DEF CallRows, Steps, Gated
    <3> QED BY <1>1, <1>2, <1>5, <3>1, <3>2 DEF CallRows, Others
  <2>2. Typed'
    BY <1>1, <1>3, <1>5, <2>1 DEF Typed, ServiceTypeOK, LedgerTypeOK
  <2>3. Rows'
    <3>1. RowShape(calls'[c])
      BY <1>1, <1>2, <2>1 DEF RowShape, Gated, Working, Persisting, Closing
    <3> QED BY <1>1, <1>3, <2>1, <3>1, RowsKeep DEF ServiceInv
  <2>4. LedgerInv'
    BY <1>2, <1>3, <2>1, LedgerKeeps DEF ServiceInv
  <2>5. EvidenceInv'
    <3>1. EvidenceAt(c)'
      BY <1>5, <2>1 DEF EvidenceAt, Closing
    <3>2. Grows
      BY <1>3, <1>5 DEF Grows
    <3> QED BY <1>2, <1>3, <2>1, <3>1, <3>2, EvidenceKeeps DEF ServiceInv
  <2>6. MutationInv'
    <3>1. LeaseAt(c)'
      BY <1>1, <1>2, <1>3, <2>1 DEF LeaseAt, Working
    <3> QED BY <1>3, <2>1, <3>1, MutationKeeps DEF ServiceInv
  <2>7. FenceInv'
    <3>1. ASSUME NEW t \in Keys, fences'[t].state = "active"
          PROVE  /\ fences'[t].generation # 0
                 /\ \E d \in Calls : calls'[d].pc = "lost" \/ Holds(d, t)'
      <4>1. PICK d \in Calls : calls[d].pc = "lost" \/ Holds(d, t)
        BY <1>3, <3>1 DEF ServiceInv, FenceInv
      <4>2. d # c
        BY <1>2, <4>1, ServiceAssumption DEF Holds
      <4>3. calls'[d].pc = "lost" \/ Holds(d, t)'
        BY <1>3, <2>1, <4>1, <4>2 DEF Others, Holds
      <4> QED BY <1>3, <3>1, <4>3 DEF ServiceInv, FenceInv
    <3>2. ASSUME NEW d \in Calls, NEW t \in Keys, calls'[d].session = t
          PROVE  /\ calls'[d].fence <= fences'[t].generation
                 /\ Holds(d, t)' /\ fences'[t].state = "active" =>
                      /\ calls'[d].pc # "complete"
                      /\ fences'[t].issued = calls'[d].now
                      /\ fences'[t].expires = calls'[d].now + ServiceLease
      <4>1. CASE d = c
        <5>1. fences[t].generation \in Nat
          BY <1>1 DEF TypeOK, FencesTypeOK, FenceRows
        <5> QED BY <1>3, <2>1, <3>1, <4>1, <5>1 DEF Holds
      <4>2. CASE d # c
        <5>1. calls'[d] = calls[d]
          BY <2>1, <4>2 DEF Others
        <5> QED BY <1>3, <3>2, <5>1 DEF ServiceInv, FenceInv, Holds
      <4> QED BY <4>1, <4>2
    <3>3. \A d, e \in Calls :
           /\ calls'[d].session = calls'[e].session /\ calls'[d].fence = calls'[e].fence
           /\ calls'[d].fence # 0
           => d = e
      BY <2>1 DEF ServiceInv, FenceInv, Others
    <3> QED BY <3>1, <3>2, <3>3 DEF FenceInv
  <2>8. OverlapInv'
    <3>1. \A d \in Calls : Unrecorded(d)' <=> Unrecorded(d)
      BY <1>5 DEF Unrecorded
    <3>2. \A d \in Calls : Loses(d) => Loses(d)'
      <4>1. ~Loses(c)
        BY <1>2 DEF Loses, Working, Closing
      <4> QED BY <1>3, <2>1, <3>1, <4>1 DEF Loses, Others
    <3>3. \A d \in Calls : calls'[d].pc \in Early => Unrecorded(d)'
      BY <1>2, <2>1, <3>1 DEF ServiceInv, OverlapInv, Early, Gated, Others
    <3>4. overlapped \subseteq Overlaps
      BY <1>1 DEF ServiceTypeOK
    <3> QED BY <1>3, <3>2, <3>3, <3>4 DEF ServiceInv, OverlapInv, Early, Overlaps
  <2> QED BY <2>2, <2>3, <2>4, <2>5, <2>6, <2>7, <2>8 DEF ServiceInv
<1>6. CASE /\ r.target # NoSession /\ Stored(Named(r)) /\ UNCHANGED sessions
           /\ calls' = [calls EXCEPT ![c].pc = "expire", ![c].session = Named(r),
                         ![c].history = IF Agent(c) THEN sessions[Named(r)].transcript ELSE <<>>]
  <2> DEFINE h == IF Agent(c) THEN sessions[Named(r)].transcript ELSE <<>>
  <2>1. Named(r) \in Keys /\ sessions[Named(r)].exists
    BY <1>6 DEF Stored
  <2>2. sessions \in [Keys -> SessionRows] /\ calls \in [Calls -> CallRows]
    BY <1>1 DEF ServiceTypeOK
  <2>3. h \in Seq(Turn)
    <3>1. <<>> \in Seq(Turn)
      OBVIOUS
    <3>2. sessions[Named(r)].transcript \in Seq(Turn)
      BY <2>1, <2>2 DEF SessionRows
    <3> QED BY <3>1, <3>2
  <2>4. calls' = [calls EXCEPT ![c] = [calls[c] EXCEPT !.pc = "expire", !.session = Named(r), !.history = h]]
    BY <1>6, <2>2 DEF CallRows
  <2> HIDE DEF h
  <2> QED BY <1>5, <1>6, <2>1, <2>2, <2>3, <2>4
<1>7. ASSUME r.target = NoSession, NEW s \in Keys, Unused(s),
             calls' = [calls EXCEPT ![c].pc = "expire", ![c].session = s],
             sessions' = [sessions EXCEPT ![s].exists = Agent(c)]
      PROVE  ServiceInv'
  <2>1. sessions \in [Keys -> SessionRows] /\ calls \in [Calls -> CallRows]
    BY <1>1 DEF ServiceTypeOK
  <2>2. calls[c].history \in Seq(Turn)
    BY <1>1 DEF CallRows
  <2>3. calls' = [calls EXCEPT ![c] = [calls[c] EXCEPT !.pc = "expire", !.session = s,
                                                       !.history = calls[c].history]]
    BY <1>1, <1>7, <2>1 DEF CallRows
  <2>4. Agent(c) \in BOOLEAN
    BY DEF Agent
  <2>5. [sessions[s] EXCEPT !.exists = Agent(c)] \in SessionRows
    BY <1>7, <2>1, <2>4 DEF SessionRows
  <2>6. sessions' = [sessions EXCEPT ![s] = [sessions[s] EXCEPT !.exists = Agent(c)]]
    BY <1>7
  <2>7. /\ sessions' \in [Keys -> SessionRows] /\ sessions'[s].exists = Agent(c)
        /\ \A t \in Keys : sessions'[t].events = sessions[t].events
        /\ \A t \in Keys : sessions[t].exists => sessions'[t].exists
    BY <1>7, <2>1, <2>5, <2>6 DEF SessionRows, Unused
  <2>8. r.method # "run.execute" => Agent(c)
    BY <1>2, <1>7, ServiceAssumption DEF Agent
  <2> QED BY <1>5, <1>7, <2>2, <2>3, <2>7, <2>8
<1> QED BY <1>4, <1>6, <1>7 DEF ReadSession

-----------------------------------------------------------------------------
(* Steps that leave the handlers alone: approvals, mutations and the clock.   *)

LEMMA HandlersStay ==
    ASSUME ServiceInv,
           UNCHANGED <<ledger, calls, sessions, starts, effects, executed, overlapped, fences>>,
           approvals' \in [Calls -> [state : ApprovalStates, session : Keys \cup {NoSession}]],
           \A d \in Calls : approvals[d].state # "none" => approvals'[d].state # "none",
           clock' >= clock, TypeOK', mutation' \in [Mutations -> {"idle", "mutate", "done"}],
           MutationInv'
    PROVE  ServiceInv'
<1>1. TypeOK /\ ServiceTypeOK /\ Rows /\ LedgerInv /\ EvidenceInv /\ FenceInv /\ OverlapInv
  BY DEF ServiceInv, Typed
<1>2. Typed'
  BY <1>1 DEF Typed, ServiceTypeOK, LedgerTypeOK
<1>3. Rows'
  <2>1. clock \in Nat /\ clock' \in Nat /\ \A c \in Calls : calls[c].now \in Nat
    BY <1>1 DEF TypeOK, BaseTypeOK, ServiceTypeOK, CallRows
  <2>2. \A c \in Calls : RowShape(calls'[c]) /\ calls'[c].now <= clock'
    BY <1>1, <2>1 DEF Rows
  <2> QED BY <2>2 DEF Rows
<1>4. LedgerInv'
  BY <1>1 DEF LedgerInv, LedgerOf, ExecutedOnce
<1>5. EvidenceInv'
  <2>1. \A d \in Calls : Recorded(d)' <=> Recorded(d)
    BY DEF Recorded
  <2>2. \A d \in Calls : Awaited(d, calls[d].outcome) => Awaited(d, calls[d].outcome)'
    BY DEF Awaited
  <2>3. ASSUME NEW d \in Calls
        PROVE  EvidenceAt(d)'
    <3>1. EvidenceAt(d) /\ calls'[d] = calls[d] /\ (Agent(d)' <=> Agent(d))
      BY <1>1 DEF EvidenceInv, Agent
    <3> QED BY <2>1, <2>2, <3>1 DEF EvidenceAt
  <2>4. ASSUME NEW d \in executed, LedgerOf(d)'.state = "completed", LedgerOf(d)'.response \in Good
        PROVE  Recorded(d)' /\ Awaited(d, LedgerOf(d).response)'
    <3>1. d \in Calls /\ LedgerOf(d)' = LedgerOf(d)
      BY <1>1 DEF LedgerOf, ServiceTypeOK
    <3>2. Recorded(d) /\ Awaited(d, LedgerOf(d).response)
      BY <1>1, <2>4, <3>1 DEF EvidenceInv
    <3> QED BY <2>1, <3>1, <3>2 DEF Awaited
  <2> QED BY <2>3, <2>4 DEF EvidenceInv
<1>6. FenceInv'
  BY <1>1 DEF FenceInv, Holds
<1>7. OverlapInv'
  BY <1>1 DEF OverlapInv, Loses, Unrecorded
<1> QED BY <1>2, <1>3, <1>4, <1>5, <1>6, <1>7 DEF ServiceInv

LEMMA ResolveApprovalKeeps ==
    ASSUME ServiceInv, NEW a \in Calls, ResolveApproval(a)
    PROVE  ServiceInv'
<1>1. TypeOK /\ ServiceTypeOK /\ MutationInv
  BY DEF ServiceInv, Typed
<1>2. /\ UNCHANGED <<ledger, calls, sessions, mutation, starts, effects, executed, overlapped>>
      /\ TypeOK' /\ UNCHANGED <<clock, quiescence, guards, leases, fences>>
  BY <1>1, FleetStays DEF ResolveApproval, history
<1>3. /\ approvals' \in [Calls -> [state : ApprovalStates, session : Keys \cup {NoSession}]]
      /\ \A d \in Calls : approvals[d].state # "none" => approvals'[d].state # "none"
  BY <1>1 DEF ResolveApproval, ServiceTypeOK, ApprovalStates
<1>4. MutationInv'
  BY <1>1, <1>2, MutationKeeps DEF Others, MutationInv, LeaseAt
<1>5. clock' >= clock
  BY <1>1, <1>2 DEF TypeOK, BaseTypeOK
<1> QED BY <1>1, <1>2, <1>3, <1>4, <1>5, HandlersStay DEF ServiceTypeOK

LEMMA StartMutationKeeps ==
    ASSUME ServiceInv, NEW m \in Mutations, StartMutation(m)
    PROVE  ServiceInv'
<1>1. TypeOK /\ ServiceTypeOK /\ MutationInv /\ Rows
  BY DEF ServiceInv, Typed
<1>2. PICK now \in 0..clock : AcquireQuiescence(m, now, ServiceLease)
  BY DEF StartMutation
<1>3. /\ m \in Owners /\ Calls = Leases /\ Owners = Mutations
      /\ clock \in Nat /\ now \in Nat /\ now <= clock /\ ServiceLease \in Nat
      /\ now + ServiceLease \in Nat
  BY <1>1, ServiceAssumption DEF TypeOK, BaseTypeOK
<1>4. /\ leases' = Expired(Leases, now)
      /\ \A l \in Leases : leases'[l].state # "active"
      /\ quiescence' = [owner |-> m, expires |-> now + ServiceLease]
      /\ guards' = [guards EXCEPT ![m] = [state |-> "held", expires |-> now + ServiceLease]]
      /\ UNCHANGED <<clock, nodes, supervisors, fenceVars>>
  BY <1>2 DEF AcquireQuiescence
<1>5. TypeOK'
  <2>1. leases' \in [Leases -> LeaseRows]
    BY <1>1, <1>4, ExpiredFacts DEF TypeOK
  <2>2. LeasesTypeOK' /\ FencesTypeOK'
    BY <1>1, <1>4, <2>1 DEF TypeOK, LeasesTypeOK, FencesTypeOK, fenceVars
  <2>3. [state |-> "held", expires |-> now + ServiceLease] \in Guards
    BY <1>3 DEF Guards, GuardStates
  <2>4. BaseTypeOK'
    BY <1>1, <1>3, <1>4, <2>3 DEF TypeOK, BaseTypeOK, QuiescenceRows
  <2> QED BY <2>2, <2>4 DEF TypeOK
<1>6. \A d \in Calls : LeaseAt(d)'
  <2>1. \A d \in Calls : leases[d].state = "active" => leases[d].expires <= now
    BY <1>3, <1>4 DEF Expired
  <2>2. \A d \in Calls : calls[d].now \in Nat
    BY <1>1 DEF ServiceTypeOK, CallRows
  <2>3. UNCHANGED <<calls, clock>>
    BY <1>4 DEF StartMutation
  <2>4. ASSUME NEW d \in Calls, calls[d].pc \in {"fence"} \cup Working
        PROVE  clock >= calls[d].now + ServiceLease
    BY <1>1, <1>3, <2>1, <2>2, <2>4 DEF MutationInv, LeaseAt
  <2> QED BY <1>3, <1>4, <2>3, <2>4 DEF LeaseAt
<1>7. GuardRow'
  <2>1. ~Quiescent
    <3>1. WorkPermitted(now)
      BY <1>2 DEF AcquireQuiescence, WorkPermitted
    <3> QED BY <1>1, <1>3, <3>1, PermittedMeansNoGuard DEF TypeOK, MutationInv
  <2> QED BY <1>1, <1>3, <1>4, <2>1 DEF GuardRow, Quiescent, TypeOK, BaseTypeOK
<1>8. QuiescenceExcludesLeases'
  BY <1>4 DEF QuiescenceExcludesLeases
<1>9. \A n \in Mutations : mutation'[n] = "mutate" => guards'[n].state = "held"
  BY <1>1, <1>3, <1>4 DEF StartMutation, ServiceTypeOK, MutationInv, TypeOK, BaseTypeOK
<1>10. MutationInv'
  BY <1>6, <1>7, <1>8, <1>9 DEF MutationInv
<1>11. /\ mutation' \in [Mutations -> {"idle", "mutate", "done"}]
       /\ UNCHANGED <<ledger, calls, sessions, approvals, starts, effects, executed, overlapped, fences>>
       /\ clock' >= clock
  BY <1>1, <1>3, <1>4 DEF StartMutation, ServiceTypeOK, history, fenceVars
<1> QED BY <1>1, <1>5, <1>10, <1>11, HandlersStay DEF ServiceTypeOK

LEMMA EndMutationKeeps ==
    ASSUME ServiceInv, NEW m \in Mutations, EndMutation(m)
    PROVE  ServiceInv'
<1>1. TypeOK /\ ServiceTypeOK /\ MutationInv
  BY DEF ServiceInv, Typed
<1>2. /\ quiescence' = RowAfterDrop(m)
      /\ guards' = [guards EXCEPT ![m].state = "dropped"]
      /\ UNCHANGED <<clock, nodes, supervisors, leases, fenceVars>>
  BY DEF EndMutation, DropGuard, leaseVars
<1>3. m \in Owners /\ Owners = Mutations /\ clock \in Nat
  BY <1>1, ServiceAssumption DEF TypeOK, BaseTypeOK
<1>4. /\ guards' \in [Owners -> Guards] /\ guards'[m].state = "dropped"
      /\ \A o \in Owners \ {m} : guards'[o] = guards[o]
  BY <1>1, <1>2, <1>3 DEF TypeOK, BaseTypeOK, Guards, GuardStates
<1>5. TypeOK'
  BY <1>1, <1>2, <1>4
     DEF TypeOK, BaseTypeOK, LeasesTypeOK, FencesTypeOK, fenceVars, RowAfterDrop, QuiescenceRows
<1>6. GuardRow' /\ (Quiescent' => Quiescent)
  BY <1>1, <1>2, <1>3, <1>4 DEF MutationInv, GuardRow, Quiescent, RowAfterDrop
<1>7. /\ mutation' \in [Mutations -> {"idle", "mutate", "done"}]
      /\ UNCHANGED <<ledger, calls, sessions, approvals, starts, effects, executed, overlapped, fences>>
      /\ clock' >= clock
  BY <1>1, <1>2, <1>3 DEF EndMutation, ServiceTypeOK, history, fenceVars
<1>8. MutationInv'
  <2>1. \A d \in Calls : LeaseAt(d)'
    BY <1>1, <1>2, <1>7 DEF MutationInv, LeaseAt
  <2>2. QuiescenceExcludesLeases'
    BY <1>1, <1>2, <1>6 DEF MutationInv, QuiescenceExcludesLeases
  <2>3. \A n \in Mutations : mutation'[n] = "mutate" => guards'[n].state = "held"
    BY <1>1, <1>3, <1>4 DEF EndMutation, ServiceTypeOK, MutationInv
  <2> QED BY <1>6, <2>1, <2>2, <2>3 DEF MutationInv
<1> QED BY <1>1, <1>5, <1>7, <1>8, HandlersStay DEF ServiceTypeOK

LEMMA ServiceTickKeeps ==
    ASSUME ServiceInv, Tick, UNCHANGED <<ledger, serviceVars>>
    PROVE  ServiceInv'
<1>1. TypeOK /\ ServiceTypeOK /\ MutationInv
  BY DEF ServiceInv, Typed
<1>2. /\ UNCHANGED <<ledger, calls, sessions, approvals, mutation, starts, effects, executed, overlapped>>
      /\ UNCHANGED <<quiescence, guards, nodes, supervisors, leases, fenceVars, fences>>
      /\ clock \in Nat /\ clock' = clock + 1 /\ ServiceLease \in Nat
  BY <1>1, ServiceAssumption DEF Tick, serviceVars, history, leaseVars, fenceVars, TypeOK, BaseTypeOK
<1>3. TypeOK'
  BY <1>1, <1>2 DEF TypeOK, BaseTypeOK, LeasesTypeOK, FencesTypeOK, fenceVars
<1>4. MutationInv'
  <2>1. \A d \in Calls : LeaseAt(d)'
    <3>1. \A d \in Calls : calls[d].now \in Nat
      BY <1>1 DEF ServiceTypeOK, CallRows
    <3> QED BY <1>1, <1>2, <3>1 DEF MutationInv, LeaseAt
  <2>2. GuardRow' /\ (Quiescent' => Quiescent)
    <3>1. \A o \in Owners : guards[o].expires \in Nat
      BY <1>1 DEF TypeOK, BaseTypeOK, Guards
    <3> QED BY <1>1, <1>2, <3>1 DEF MutationInv, GuardRow, Quiescent
  <2>3. QuiescenceExcludesLeases'
    BY <1>1, <1>2, <2>2 DEF MutationInv, QuiescenceExcludesLeases
  <2> QED BY <1>1, <1>2, <2>1, <2>2, <2>3 DEF MutationInv
<1>5. clock' >= clock
  BY <1>2
<1> QED BY <1>1, <1>2, <1>3, <1>4, <1>5, HandlersStay DEF ServiceTypeOK

-----------------------------------------------------------------------------
(* The ledger: requests are let through, refused, replayed and answered.      *)

LEMMA AnswerKeeps ==
    ASSUME ServiceInv, NEW c \in Calls, NEW r \in Requests,
           NEW answer \in Responses \cup Refusals \cup {NoResponse}, Answer(c, r, answer),
           calls[c].pc \in {"idle", "complete"},
           UNCHANGED <<vars, sessions, approvals, mutation, starts, effects, executed, overlapped>>,
           LedgerTypeOK', LedgerInv',
           \A d \in executed :
               LedgerOf(d)'.state = "completed" /\ LedgerOf(d)'.response \in Good =>
                   Recorded(d) /\ Awaited(d, LedgerOf(d)'.response)
    PROVE  ServiceInv'
<1>1. /\ calls[c] \in CallRows /\ RowShape(calls[c]) /\ calls[c].now <= clock
      /\ EvidenceAt(c) /\ LeaseAt(c) /\ TypeOK /\ ServiceTypeOK /\ Typed
  BY CallFacts
<1>2. TypeOK' /\ UNCHANGED <<clock, quiescence, guards, leases, fences>>
  BY <1>1, FleetStays
<1>3. /\ Others(c) /\ calls' \in [Calls -> CallRows]
      /\ calls'[c].pc = "done" /\ calls'[c].outcome = "none"
      /\ calls'[c].request = r /\ calls'[c].now = 0
      /\ calls'[c].session = NoSession /\ calls'[c].fence = 0
      /\ calls'[c].answer = answer
  BY <1>1, AnswerForm
<1>4. Typed'
  BY <1>1, <1>2, <1>3 DEF Typed, ServiceTypeOK
<1>5. Rows'
  <2>1. RowShape(calls'[c])
    BY <1>3 DEF RowShape, Gated, Working, Persisting, Closing
  <2>2. calls'[c].now <= clock
    BY <1>1, <1>3 DEF TypeOK, BaseTypeOK
  <2> QED BY <1>2, <1>3, <2>1, <2>2, RowsKeep DEF ServiceInv
<1>6. EvidenceInv'
  <2>1. Grows
    BY DEF Grows
  <2>2. EvidenceAt(c)'
    BY <1>3, ServiceAssumption DEF EvidenceAt, Closing
  <2>3. \A d \in Calls : EvidenceAt(d)'
    BY <1>3, <2>1, <2>2, EvidenceOfOthers DEF ServiceInv
  <2>4. ASSUME NEW d \in executed, LedgerOf(d)'.state = "completed", LedgerOf(d)'.response \in Good
        PROVE  Recorded(d)' /\ Awaited(d, LedgerOf(d).response)'
    BY <2>4 DEF Recorded, Awaited
  <2> QED BY <2>3, <2>4 DEF EvidenceInv
<1>7. FenceInv'
  <2>1. ASSUME NEW t \in Keys, fences'[t].state = "active"
        PROVE  /\ fences'[t].generation # 0
               /\ \E d \in Calls : calls'[d].pc = "lost" \/ Holds(d, t)'
    <3>1. PICK d \in Calls : calls[d].pc = "lost" \/ Holds(d, t)
      BY <1>2, <2>1 DEF ServiceInv, FenceInv
    <3>2. d # c
      BY <1>1, <1>2, <2>1, <3>1, ServiceAssumption DEF ServiceInv, FenceInv, Holds, RowShape
    <3>3. calls'[d].pc = "lost" \/ Holds(d, t)'
      BY <1>2, <1>3, <3>1, <3>2 DEF Others, Holds
    <3> QED BY <1>2, <2>1, <3>3 DEF ServiceInv, FenceInv
  <2>2. ASSUME NEW d \in Calls, NEW t \in Keys, calls'[d].session = t
        PROVE  /\ calls'[d].fence <= fences'[t].generation
               /\ Holds(d, t)' /\ fences'[t].state = "active" =>
                    /\ calls'[d].pc # "complete"
                    /\ fences'[t].issued = calls'[d].now
                    /\ fences'[t].expires = calls'[d].now + ServiceLease
    <3>1. d # c
      BY <1>3, <2>2, ServiceAssumption
    <3>2. calls'[d] = calls[d]
      BY <1>3, <3>1 DEF Others
    <3> QED BY <1>2, <2>2, <3>2 DEF ServiceInv, FenceInv, Holds
  <2>3. \A d, e \in Calls :
         /\ calls'[d].session = calls'[e].session /\ calls'[d].fence = calls'[e].fence
         /\ calls'[d].fence # 0
         => d = e
    BY <1>3 DEF ServiceInv, FenceInv, Others
  <2> QED BY <2>1, <2>2, <2>3 DEF FenceInv
<1>8. MutationInv'
  <2>1. LeaseAt(c)'
    BY <1>1, <1>2, <1>3 DEF LeaseAt, Working
  <2> QED BY <1>2, <1>3, <2>1, MutationKeeps DEF ServiceInv
<1>9. OverlapInv'
  <2>1. \A d \in Calls : Unrecorded(d)' <=> Unrecorded(d)
    BY DEF Unrecorded
  <2>2. Loses(c) => Loses(c)'
    BY <1>3, <2>1 DEF Loses
  <2>3. \A d \in Calls : Loses(d) => Loses(d)'
    BY <1>2, <1>3, <2>1, <2>2 DEF Loses, Others
  <2>4. \A d \in Calls : calls'[d].pc \in Early => Unrecorded(d)'
    BY <1>3, <2>1 DEF ServiceInv, OverlapInv, Early, Gated, Working, Others
  <2>5. overlapped \subseteq Overlaps
    BY <1>1 DEF ServiceTypeOK
  <2> QED BY <2>3, <2>4, <2>5 DEF ServiceInv, OverlapInv, Early, Overlaps
<1> QED BY <1>4, <1>5, <1>6, <1>7, <1>8, <1>9 DEF ServiceInv

\* An answer that stores nothing: a refusal, a replay, a result that is too large.
LEMMA UnstoredAnswerKeeps ==
    ASSUME ServiceInv, NEW c \in Calls, NEW r \in Requests,
           NEW answer \in Responses \cup Refusals \cup {NoResponse}, Answer(c, r, answer),
           calls[c].pc \in {"idle", "complete"},
           calls[c].pc = "complete" => r = calls[c].request,
           answer \in Good =>
               ledger[r.key] = [state |-> "completed", request |-> r, response |-> answer],
           UNCHANGED <<vars, ledger, sessions, approvals, mutation, starts, effects, executed, overlapped>>
    PROVE  ServiceInv'
<1>1. TypeOK /\ ServiceTypeOK /\ Typed /\ LedgerInv /\ executed \subseteq Calls
  BY DEF ServiceInv, Typed, ServiceTypeOK
<1>2. /\ Others(c) /\ calls'[c].pc = "done" /\ calls'[c].request = r /\ calls'[c].answer = answer
  BY <1>1, AnswerForm
<1>3. \A d \in executed : calls'[d].request = calls[d].request /\ calls'[d].pc # "idle"
  BY <1>1, <1>2 DEF Others, LedgerInv
<1>4. \A d \in executed : LedgerOf(d)' = LedgerOf(d)
  BY <1>3 DEF LedgerOf
<1>5. LedgerInv'
  <2>1. \A d \in Calls : calls'[d].pc \notin {"idle", "done", "lost"} =>
           d \in executed' /\ LedgerOf(d)'.state = "pending"
    BY <1>1, <1>2, <1>4 DEF LedgerInv, Others
  <2>2. \A d \in executed' :
           /\ calls'[d].pc # "idle"
           /\ LedgerOf(d)'.state # "absent" /\ LedgerOf(d)'.request = calls'[d].request
    BY <1>1, <1>3, <1>4 DEF LedgerInv
  <2>3. ASSUME NEW d \in Calls, calls'[d].answer \in Good
        PROVE  LedgerOf(d)' = [state |-> "completed", request |-> calls'[d].request,
                               response |-> calls'[d].answer]
    <3>1. CASE d = c
      BY <1>2, <2>3, <3>1 DEF LedgerOf
    <3>2. CASE d # c
      BY <1>1, <1>2, <2>3, <3>2 DEF LedgerOf, LedgerInv, Others
    <3> QED BY <3>1, <3>2
  <2>4. ExecutedOnce'
    BY <1>1, <1>3 DEF LedgerInv, ExecutedOnce
  <2>5. \A k \in IdempotencyKeys : ledger'[k].state # "absent" =>
           ledger'[k].request \in Requests /\ ledger'[k].request.key = k
    BY <1>1 DEF LedgerInv
  <2> QED BY <2>1, <2>2, <2>3, <2>4, <2>5 DEF LedgerInv
<1>6. LedgerTypeOK'
  BY <1>1 DEF ServiceTypeOK, LedgerTypeOK
<1>7. \A d \in executed :
         LedgerOf(d)'.state = "completed" /\ LedgerOf(d)'.response \in Good =>
             Recorded(d) /\ Awaited(d, LedgerOf(d)'.response)
  BY <1>4 DEF ServiceInv, EvidenceInv
<1> QED BY <1>5, <1>6, <1>7, AnswerKeeps

LEMMA CompleteRpcKeeps ==
    ASSUME ServiceInv, NEW c \in Calls, CompleteRpc(c)
    PROVE  ServiceInv'
<1> DEFINE r == calls[c].request
           k == r.key
           outcome == calls[c].outcome
<1>1. /\ calls[c] \in CallRows /\ RowShape(calls[c])
      /\ EvidenceAt(c) /\ TypeOK /\ ServiceTypeOK /\ Typed
      /\ LedgerInv /\ executed \subseteq Calls
  BY CallFacts DEF ServiceInv, ServiceTypeOK
<1>2. /\ calls[c].pc = "complete" /\ r \in Requests /\ k \in IdempotencyKeys
      /\ outcome \in Responses /\ "completion_failed" \in Refusals
  BY <1>1, ServiceAssumption, LedgerAssumption
     DEF CompleteRpc, At, RowShape, Closing, CallRows, Outcomes, Refusals
<1>3. c \in executed /\ ledger[k].state = "pending" /\ ledger[k].request = r
  BY <1>1, <1>2 DEF LedgerInv, LedgerOf
<1>4. UNCHANGED <<vars, sessions, approvals, mutation, starts, effects, executed, overlapped>>
  BY DEF CompleteRpc, history
<1>5. CASE Answer(c, r, "completion_failed") /\ UNCHANGED ledger
  BY <1>2, <1>4, <1>5, UnstoredAnswerKeeps DEF Good
<1>6. CASE Complete(r, outcome) /\ Answer(c, r, outcome)
  <2>1. /\ Others(c) /\ calls'[c].pc = "done" /\ calls'[c].request = r /\ calls'[c].answer = outcome
    BY <1>1, <1>2, <1>6, AnswerForm
  <2>2. ledger \in [IdempotencyKeys -> LedgerRows]
    BY <1>1 DEF ServiceTypeOK, LedgerTypeOK
  <2>3. /\ ledger' \in [IdempotencyKeys -> LedgerRows]
        /\ ledger'[k] = [state |-> "completed", request |-> r, response |-> outcome]
        /\ \A j \in IdempotencyKeys \ {k} : ledger'[j] = ledger[j]
    <3> DEFINE row == [ledger[k] EXCEPT !.state = "completed", !.response = outcome]
    <3>1. ledger' = [ledger EXCEPT ![k] = row]
      BY <1>2, <1>6, <2>2 DEF Complete, LedgerRows
    <3>2. ledger[k] \in LedgerRows
      BY <1>2, <2>2
    <3>3. row = [state |-> "completed", request |-> r, response |-> outcome]
      <4>1. row \in LedgerRows
        BY <1>2, <3>2 DEF LedgerRows, LedgerStates
      <4>2. row.state = "completed" /\ row.request = r /\ row.response = outcome
        BY <1>3, <3>2 DEF LedgerRows
      <4> HIDE DEF row
      <4> QED BY <4>1, <4>2 DEF LedgerRows
    <3>4. [state |-> "completed", request |-> r, response |-> outcome] \in LedgerRows
      BY <1>2 DEF LedgerRows, LedgerStates
    <3> HIDE DEF row
    <3> QED BY <1>2, <2>2, <3>1, <3>3, <3>4
  <2>4. \A d \in executed : calls'[d].request = calls[d].request /\ calls'[d].pc # "idle"
    BY <1>1, <2>1 DEF Others, LedgerInv
  <2>5. ASSUME NEW d \in executed, d # c
        PROVE  LedgerOf(d)' = LedgerOf(d)
    <3>1. calls[d].request.key # k
      BY <1>1, <1>3, <2>5 DEF LedgerInv, ExecutedOnce
    <3>2. calls[d].request.key \in IdempotencyKeys
      BY <1>1, <2>5, LedgerAssumption DEF ServiceInv, LedgerInv, Rows, RowShape
    <3> QED BY <2>3, <2>4, <3>1, <3>2 DEF LedgerOf
  <2>6. LedgerOf(c)' = [state |-> "completed", request |-> r, response |-> outcome]
    BY <2>1, <2>3 DEF LedgerOf
  <2>7. LedgerInv'
    <3>1. \A d \in Calls : calls'[d].pc \notin {"idle", "done", "lost"} =>
             d \in executed' /\ LedgerOf(d)'.state = "pending"
      BY <1>1, <1>4, <2>1, <2>5 DEF LedgerInv, Others
    <3>2. \A d \in executed' :
             /\ calls'[d].pc # "idle"
             /\ LedgerOf(d)'.state # "absent" /\ LedgerOf(d)'.request = calls'[d].request
      BY <1>1, <1>4, <2>4, <2>5, <2>6 DEF LedgerInv
    <3>3. ASSUME NEW d \in Calls, calls'[d].answer \in Good
          PROVE  LedgerOf(d)' = [state |-> "completed", request |-> calls'[d].request,
                                 response |-> calls'[d].answer]
      <4>1. CASE d = c
        BY <2>1, <2>6, <4>1
      <4>2. CASE d # c
        <5>1. calls'[d] = calls[d]
          BY <2>1, <4>2 DEF Others
        <5>2. LedgerOf(d) = [state |-> "completed", request |-> calls[d].request,
                             response |-> calls[d].answer]
          BY <1>1, <3>3, <5>1 DEF LedgerInv
        <5>3. calls[d].request.key # k
          BY <1>3, <5>2 DEF LedgerOf
        <5>4. calls[d].request.key \in IdempotencyKeys
          <6>1. NoResponse \notin Good
            BY LedgerAssumption, ServiceAssumption DEF Good
          <6>2. calls[d].request \in Requests
            BY <3>3, <5>1, <6>1 DEF ServiceInv, Rows, RowShape
          <6> QED BY <6>2, LedgerAssumption
        <5> QED BY <2>3, <5>1, <5>2, <5>3, <5>4 DEF LedgerOf
      <4> QED BY <4>1, <4>2
    <3>4. ExecutedOnce'
      BY <1>1, <1>4, <2>4 DEF LedgerInv, ExecutedOnce
    <3>5. \A j \in IdempotencyKeys : ledger'[j].state # "absent" =>
             ledger'[j].request \in Requests /\ ledger'[j].request.key = j
      BY <1>1, <1>2, <2>3 DEF LedgerInv
    <3> QED BY <3>1, <3>2, <3>3, <3>4, <3>5 DEF LedgerInv
  <2>8. ASSUME NEW d \in executed, LedgerOf(d)'.state = "completed", LedgerOf(d)'.response \in Good
        PROVE  Recorded(d) /\ Awaited(d, LedgerOf(d)'.response)
    <3>1. CASE d = c
      BY <1>1, <1>2, <2>6, <2>8, <3>1 DEF EvidenceAt, Closing
    <3>2. CASE d # c
      BY <2>5, <2>8, <3>2 DEF ServiceInv, EvidenceInv
    <3> QED BY <3>1, <3>2
  <2>9. LedgerTypeOK'
    BY <2>3 DEF LedgerTypeOK
  <2> QED BY <1>2, <1>4, <1>6, <2>7, <2>8, <2>9, AnswerKeeps
<1> QED BY <1>5, <1>6 DEF CompleteRpc

LEMMA BeginRpcKeeps ==
    ASSUME ServiceInv, NEW c \in Calls, NEW r \in Requests, BeginRpc(c, r)
    PROVE  ServiceInv'
<1> DEFINE k == r.key
<1>1. /\ calls[c] \in CallRows /\ RowShape(calls[c]) /\ LeaseAt(c)
      /\ TypeOK /\ ServiceTypeOK /\ Typed
      /\ LedgerInv /\ executed \subseteq Calls
  BY CallFacts DEF ServiceInv, ServiceTypeOK
<1>2. /\ calls[c].pc = "idle" /\ calls[c].session = NoSession /\ calls[c].fence = 0
      /\ calls[c].answer = NoResponse /\ leases[c].state # "active" /\ k \in IdempotencyKeys
  BY <1>1, LedgerAssumption DEF BeginRpc, At, RowShape, LeaseAt
<1>3. UNCHANGED <<vars, sessions, approvals, mutation, starts, effects, overlapped>>
  BY DEF BeginRpc
<1>4. ledger \in [IdempotencyKeys -> LedgerRows]
  BY <1>1 DEF ServiceTypeOK, LedgerTypeOK
<1>5. CASE RpcBegin(r) \in Refusals /\ Answer(c, r, RpcBegin(r)) /\ UNCHANGED <<ledger, executed>>
  <2>1. RpcBegin(r) \notin Good
    BY <1>5 DEF Refusals, Good
  <2> QED BY <1>2, <1>3, <1>5, <2>1, UnstoredAnswerKeeps
<1>6. CASE RpcBegin(r) = "replay" /\ Answer(c, r, ledger[k].response) /\ UNCHANGED <<ledger, executed>>
  <2>1. ledger[k].state = "completed" /\ ledger[k].request = r
    BY <1>2, <1>4, <1>6 DEF RpcBegin, LedgerRows, LedgerStates
  <2>2. ledger[k] = [state |-> "completed", request |-> r, response |-> ledger[k].response]
    <3>1. ledger[k] \in LedgerRows
      BY <1>2, <1>4
    <3> QED BY <2>1, <3>1 DEF LedgerRows
  <2>3. ledger[k].response \in Responses \cup {NoResponse}
    BY <1>2, <1>4 DEF LedgerRows
  <2> QED BY <1>2, <1>3, <1>6, <2>2, <2>3, UnstoredAnswerKeeps
<1>7. CASE /\ RpcBegin(r) = "execute" /\ Reserve(r)
           /\ calls' = [calls EXCEPT ![c].pc = "read", ![c].request = r, ![c].now = clock]
           /\ executed' = executed \cup {c}
  <2>1. /\ calls' \in [Calls -> CallRows] /\ Others(c)
        /\ calls'[c].pc = "read" /\ calls'[c].session = NoSession
        /\ calls'[c].answer = NoResponse
        /\ calls'[c].request = r /\ calls'[c].fence = 0 /\ calls'[c].now = clock
    <3>1. calls \in [Calls -> CallRows] /\ clock \in Nat
      BY <1>1 DEF ServiceTypeOK, TypeOK, BaseTypeOK
    <3>2. calls' = [calls EXCEPT ![c] = [calls[c] EXCEPT !.pc = "read", !.request = r, !.now = clock]]
      BY <1>7, <3>1 DEF CallRows
    <3>3. [calls[c] EXCEPT !.pc = "read", !.request = r, !.now = clock] \in CallRows
      BY <1>1, <3>1 DEF CallRows, Steps
    <3> QED BY <1>1, <1>2, <3>1, <3>2, <3>3 DEF CallRows, Others
  <2>2. ledger[k].state = "absent"
    BY <1>7 DEF RpcBegin
  <2>3. /\ ledger' \in [IdempotencyKeys -> LedgerRows]
        /\ ledger'[k] = [state |-> "pending", request |-> r, response |-> NoResponse]
        /\ \A j \in IdempotencyKeys \ {k} : ledger'[j] = ledger[j]
    BY <1>2, <1>4, <1>7 DEF Reserve, LedgerRows, LedgerStates
  <2>4. TypeOK' /\ UNCHANGED <<clock, quiescence, guards, leases, fences>>
    BY <1>1, <1>3, FleetStays
  <2>5. Typed'
    BY <1>1, <1>3, <1>7, <2>1, <2>3, <2>4 DEF Typed, ServiceTypeOK, LedgerTypeOK
  <2>6. Rows'
    <3>1. RowShape(calls'[c])
      BY <2>1 DEF RowShape, Gated, Working, Persisting, Closing
    <3>2. calls'[c].now <= clock
      BY <1>1, <2>1 DEF TypeOK, BaseTypeOK
    <3> QED BY <2>1, <2>4, <3>1, <3>2, RowsKeep DEF ServiceInv
  <2>7. c \notin executed /\ \A d \in executed : calls'[d] = calls[d]
    BY <1>1, <1>2, <2>1 DEF LedgerInv, Others
  <2>8. ASSUME NEW d \in executed
        PROVE  LedgerOf(d)' = LedgerOf(d) /\ calls[d].request.key # k
    <3>1. calls[d].request.key # k
      BY <1>1, <2>2 DEF LedgerInv, LedgerOf
    <3>2. calls[d].request.key \in IdempotencyKeys
      BY <1>1, LedgerAssumption DEF ServiceInv, LedgerInv, Rows, RowShape
    <3> QED BY <2>3, <2>7, <3>1, <3>2 DEF LedgerOf
  <2>9. LedgerOf(c)' = [state |-> "pending", request |-> r, response |-> NoResponse]
    BY <2>1, <2>3 DEF LedgerOf
  <2>10. LedgerInv'
    <3>1. \A d \in Calls : calls'[d].pc \notin {"idle", "done", "lost"} =>
             d \in executed' /\ LedgerOf(d)'.state = "pending"
      BY <1>1, <1>7, <2>1, <2>8, <2>9 DEF LedgerInv, Others
    <3>2. \A d \in executed' :
             /\ calls'[d].pc # "idle"
             /\ LedgerOf(d)'.state # "absent" /\ LedgerOf(d)'.request = calls'[d].request
      BY <1>1, <1>7, <2>1, <2>7, <2>8, <2>9 DEF LedgerInv
    <3>3. ASSUME NEW d \in Calls, calls'[d].answer \in Good
          PROVE  LedgerOf(d)' = [state |-> "completed", request |-> calls'[d].request,
                                 response |-> calls'[d].answer]
      <4>1. NoResponse \notin Good
        BY LedgerAssumption, ServiceAssumption DEF Good
      <4>2. d # c /\ calls'[d] = calls[d]
        BY <2>1, <3>3, <4>1 DEF Others
      <4>3. LedgerOf(d) = [state |-> "completed", request |-> calls[d].request,
                           response |-> calls[d].answer]
        BY <1>1, <3>3, <4>2 DEF LedgerInv
      <4>4. calls[d].request.key # k
        BY <2>2, <4>3 DEF LedgerOf
      <4>5. calls[d].request \in Requests
        BY <3>3, <4>1, <4>2 DEF ServiceInv, Rows, RowShape
      <4> QED BY <2>3, <4>2, <4>3, <4>4, <4>5, LedgerAssumption DEF LedgerOf
    <3>4. ExecutedOnce'
      BY <1>1, <1>7, <2>1, <2>7, <2>8 DEF LedgerInv, ExecutedOnce
    <3>5. \A j \in IdempotencyKeys : ledger'[j].state # "absent" =>
             ledger'[j].request \in Requests /\ ledger'[j].request.key = j
      BY <1>1, <1>2, <2>3 DEF LedgerInv
    <3> QED BY <3>1, <3>2, <3>3, <3>4, <3>5 DEF LedgerInv
  <2>11. EvidenceInv'
    <3>1. Grows
      BY <1>3 DEF Grows
    <3>2. EvidenceAt(c)'
      BY <2>1, ServiceAssumption DEF EvidenceAt, Closing
    <3>3. \A d \in Calls : EvidenceAt(d)'
      BY <1>3, <2>1, <3>1, <3>2, EvidenceOfOthers DEF ServiceInv
    <3>4. ASSUME NEW d \in executed', LedgerOf(d)'.state = "completed", LedgerOf(d)'.response \in Good
          PROVE  Recorded(d)' /\ Awaited(d, LedgerOf(d).response)'
      <4>1. d \in executed /\ LedgerOf(d)' = LedgerOf(d)
        BY <1>7, <2>8, <2>9, <3>4
      <4>2. Recorded(d) /\ Awaited(d, LedgerOf(d).response)
        BY <3>4, <4>1 DEF ServiceInv, EvidenceInv
      <4> QED BY <1>3, <4>1, <4>2 DEF Recorded, Awaited
    <3> QED BY <3>3, <3>4 DEF EvidenceInv
  <2>12. FenceInv'
    <3>1. \A d \in Calls : /\ calls'[d].session = calls[d].session /\ calls'[d].fence = calls[d].fence
                           /\ calls'[d].pc = "lost" <=> calls[d].pc = "lost"
      BY <1>2, <2>1 DEF Others
    <3>2. ASSUME NEW d \in Calls, calls[d].session \in Keys
          PROVE  calls'[d] = calls[d]
      BY <1>2, <2>1, <3>2, ServiceAssumption DEF Others
    <3>3. \A s \in Keys : fences'[s].state = "active" =>
             /\ fences'[s].generation # 0
             /\ \E d \in Calls : calls'[d].pc = "lost" \/ Holds(d, s)'
      BY <2>4, <3>1 DEF ServiceInv, FenceInv, Holds
    <3>4. ASSUME NEW d \in Calls, NEW s \in Keys, calls'[d].session = s
          PROVE  /\ calls'[d].fence <= fences'[s].generation
                 /\ Holds(d, s)' /\ fences'[s].state = "active" =>
                      /\ calls'[d].pc # "complete"
                      /\ fences'[s].issued = calls'[d].now
                      /\ fences'[s].expires = calls'[d].now + ServiceLease
      BY <2>4, <3>1, <3>2, <3>4 DEF ServiceInv, FenceInv, Holds
    <3>5. \A d, e \in Calls :
             /\ calls'[d].session = calls'[e].session /\ calls'[d].fence = calls'[e].fence
             /\ calls'[d].fence # 0
             => d = e
      BY <3>1 DEF ServiceInv, FenceInv
    <3> QED BY <3>3, <3>4, <3>5 DEF FenceInv
  <2>13. MutationInv'
    <3>1. LeaseAt(c)'
      BY <1>2, <2>1, <2>4 DEF LeaseAt, Working
    <3> QED BY <1>3, <2>1, <2>4, <3>1, MutationKeeps DEF ServiceInv
  <2>14. OverlapInv'
    <3>1. \A d \in Calls : Unrecorded(d)' <=> Unrecorded(d)
      BY <1>3 DEF Unrecorded
    <3>2. \A d \in Calls : Loses(d) => Loses(d)'
      <4>1. ~Loses(c)
        BY <1>2 DEF Loses, Working, Closing
      <4> QED BY <2>1, <2>4, <3>1, <4>1 DEF Loses, Others
    <3>3. \A d \in Calls : calls'[d].pc \in Early => Unrecorded(d)'
      BY <1>2, <2>1, <3>1 DEF ServiceInv, OverlapInv, Early, Others
    <3>4. overlapped \subseteq Overlaps
      BY <1>1 DEF ServiceTypeOK
    <3> QED BY <1>3, <3>2, <3>3, <3>4 DEF ServiceInv, OverlapInv, Early, Overlaps
  <2> QED BY <2>5, <2>6, <2>10, <2>11, <2>12, <2>13, <2>14 DEF ServiceInv
<1> QED BY <1>5, <1>6, <1>7 DEF BeginRpc

-----------------------------------------------------------------------------
(* The process dies and another one is started.                              *)

LEMMA StartKeeps ==
    ASSUME ServiceInv, Start
    PROVE  ServiceInv'
<1>1. /\ TypeOK /\ ServiceTypeOK /\ Rows /\ LedgerInv /\ EvidenceInv /\ FenceInv
      /\ MutationInv /\ OverlapInv /\ executed \subseteq Calls
  BY DEF ServiceInv, Typed, ServiceTypeOK
<1>2. /\ UNCHANGED <<supervisors, clock, quiescence, guards, fenceVars, fences, ledger, sessions,
                     approvals, effects, executed, overlapped>>
      /\ leases' = Expired(Leases, clock) /\ starts' = starts + 1
  BY DEF Start, baseVars, history, fenceVars
<1>3. ASSUME NEW d \in Calls
      PROVE  /\ calls'[d] \in CallRows
             /\ calls[d].pc \in {"idle", "done"} => calls'[d] = calls[d]
             /\ calls[d].pc \notin {"idle", "done"} =>
                  /\ calls'[d].pc = "lost" /\ calls'[d].now = 0
                  /\ calls'[d].session = NoSession /\ calls'[d].fence = 0
                  /\ calls'[d].answer = NoResponse
                  /\ calls'[d].request = calls[d].request
  <2> DEFINE row == [Idle EXCEPT !.pc = "lost", !.request = calls[d].request]
  <2>1. calls[d] \in CallRows
    BY <1>1 DEF ServiceTypeOK
  <2>2. calls'[d] = IF calls[d].pc \in {"idle", "done"} THEN calls[d] ELSE row
    BY DEF Start
  <2>3. calls[d].request \in Requests \cup {NoRequest}
    BY <2>1 DEF CallRows
  <2>4. /\ row \in CallRows /\ row.pc = "lost" /\ row.now = 0 /\ row.session = NoSession
        /\ row.fence = 0 /\ row.answer = NoResponse /\ row.request = calls[d].request
    BY <2>3, IdleRow DEF CallRows, Steps
  <2> HIDE DEF row
  <2> QED BY <2>1, <2>2, <2>4
<1>4. calls' \in [Calls -> CallRows]
  <2>1. calls' = [d \in Calls |-> calls'[d]]
    BY DEF Start
  <2> QED BY <1>3, <2>1
<1>5. /\ \A d \in Calls : calls'[d].pc \in {"idle", "done", "lost"}
      /\ \A d \in Calls : calls'[d].request = calls[d].request
      /\ \A d \in Calls : calls'[d].session = NoSession
      /\ \A d \in Calls : calls'[d].fence = 0
  BY <1>1, <1>3 DEF Rows, RowShape
<1>6. TypeOK'
  <2>1. leases' \in [Leases -> LeaseRows]
    BY <1>1, <1>2, ExpiredFacts DEF TypeOK
  <2>2. nodes' \in [Nodes -> NodeStates]
    BY <1>1, ServiceAssumption DEF Start, TypeOK, LeasesTypeOK, NodeStates
  <2> QED BY <1>1, <1>2, <2>1, <2>2 DEF TypeOK, BaseTypeOK, LeasesTypeOK, FencesTypeOK, fenceVars
<1>7. /\ mutation' \in [Mutations -> {"idle", "mutate", "done"}]
      /\ \A m \in Mutations : mutation'[m] # "mutate"
  BY DEF Start
<1>8. Typed'
  BY <1>1, <1>2, <1>4, <1>6, <1>7 DEF Typed, ServiceTypeOK, LedgerTypeOK
<1>9. Rows'
  <2>1. clock \in Nat
    BY <1>1 DEF TypeOK, BaseTypeOK
  <2>2. ASSUME NEW d \in Calls
        PROVE  RowShape(calls'[d]) /\ calls'[d].now <= clock'
    <3>1. CASE calls[d].pc \in {"idle", "done"}
      BY <1>1, <1>2, <1>3, <3>1 DEF Rows
    <3>2. CASE calls[d].pc \notin {"idle", "done"}
      BY <1>1, <1>2, <1>3, <2>1, <3>2 DEF Rows, RowShape, Gated, Working, Persisting, Closing
    <3> QED BY <3>1, <3>2
  <2> QED BY <2>2 DEF Rows
<1>10. \A d \in Calls : LedgerOf(d)' = LedgerOf(d)
  BY <1>2, <1>5 DEF LedgerOf
<1>11. LedgerInv'
  <2>1. NoResponse \notin Good
    BY LedgerAssumption, ServiceAssumption DEF Good
  <2>2. \A d \in Calls : calls'[d].pc \notin {"idle", "done", "lost"} =>
           d \in executed' /\ LedgerOf(d)'.state = "pending"
    BY <1>5
  <2>3. \A d \in executed' :
           /\ calls'[d].pc # "idle"
           /\ LedgerOf(d)'.state # "absent" /\ LedgerOf(d)'.request = calls'[d].request
    BY <1>1, <1>2, <1>3, <1>5, <1>10 DEF LedgerInv
  <2>4. \A d \in Calls : calls'[d].answer \in Good =>
           LedgerOf(d)' = [state |-> "completed", request |-> calls'[d].request,
                           response |-> calls'[d].answer]
    BY <1>1, <1>3, <1>5, <1>10, <2>1 DEF LedgerInv
  <2>5. ExecutedOnce'
    BY <1>1, <1>2, <1>5 DEF LedgerInv, ExecutedOnce
  <2>6. \A k \in IdempotencyKeys : ledger'[k].state # "absent" =>
           ledger'[k].request \in Requests /\ ledger'[k].request.key = k
    BY <1>1, <1>2 DEF LedgerInv
  <2> QED BY <2>2, <2>3, <2>4, <2>5, <2>6 DEF LedgerInv
<1>12. EvidenceInv'
  <2>1. \A d \in Calls : EvidenceAt(d)'
    BY <1>5, ServiceAssumption DEF EvidenceAt, Closing
  <2>2. ASSUME NEW d \in executed', LedgerOf(d)'.state = "completed", LedgerOf(d)'.response \in Good
        PROVE  Recorded(d)' /\ Awaited(d, LedgerOf(d).response)'
    <3>1. d \in executed /\ d \in Calls /\ LedgerOf(d)' = LedgerOf(d)
      BY <1>1, <1>2, <1>10, <2>2
    <3>2. Recorded(d) /\ Awaited(d, LedgerOf(d).response)
      BY <1>1, <2>2, <3>1 DEF EvidenceInv
    <3> QED BY <1>2, <3>1, <3>2 DEF Recorded, Awaited
  <2> QED BY <2>1, <2>2 DEF EvidenceInv
<1>13. FenceInv'
  <2>1. ASSUME NEW t \in Keys, fences'[t].state = "active"
        PROVE  /\ fences'[t].generation # 0
               /\ \E d \in Calls : calls'[d].pc = "lost"
    <3>1. PICK d \in Calls : calls[d].pc = "lost" \/ Holds(d, t)
      BY <1>1, <1>2, <2>1 DEF FenceInv
    <3>2. calls[d].pc \notin {"idle", "done"}
      BY <1>1, <3>1, ServiceAssumption DEF Holds, Rows, RowShape
    <3> QED BY <1>1, <1>2, <1>3, <2>1, <3>2 DEF FenceInv
  <2> QED BY <1>5, <2>1, ServiceAssumption DEF FenceInv
<1>14. MutationInv'
  <2>1. Calls = Leases
    BY ServiceAssumption
  <2>2. \A d \in Calls : leases'[d].state = "active" => leases[d].state = "active"
    BY <1>1, <1>2, <2>1, ExpiredFacts DEF TypeOK
  <2>3. \A d \in Calls : LeaseAt(d)'
    <3>1. \A d \in Calls : calls'[d].pc \in {"idle", "done"} => calls[d].pc = calls'[d].pc
      BY <1>3
    <3>2. \A d \in Calls : calls'[d].pc \in {"idle", "done"} => leases'[d].state # "active"
      BY <1>1, <2>2, <3>1 DEF MutationInv, LeaseAt
    <3> QED BY <1>5, <3>2 DEF LeaseAt, Working
  <2>4. GuardRow'
    BY <1>1, <1>2 DEF MutationInv, GuardRow
  <2>5. QuiescenceExcludesLeases'
    BY <1>1, <1>2, <2>1, <2>2 DEF MutationInv, QuiescenceExcludesLeases, Quiescent
  <2> QED BY <1>7, <2>3, <2>4, <2>5 DEF MutationInv
<1>15. OverlapInv'
  <2>1. \A d \in Calls : Unrecorded(d)' <=> Unrecorded(d)
    BY <1>2 DEF Unrecorded
  <2>2. \A d \in Calls : Loses(d) => Loses(d)'
    BY <1>3, <2>1 DEF Loses, Working, Closing
  <2>3. \A d \in Calls : calls'[d].pc \in Early => Unrecorded(d)'
    BY <1>1, <1>3, <1>5, <2>1 DEF OverlapInv, Early, Gated, Working
  <2>4. overlapped \subseteq Overlaps
    BY <1>1 DEF ServiceTypeOK
  <2> QED BY <1>1, <1>2, <2>2, <2>3, <2>4 DEF OverlapInv, Early, Overlaps
<1> QED BY <1>8, <1>9, <1>11, <1>12, <1>13, <1>14, <1>15 DEF ServiceInv

-----------------------------------------------------------------------------
(* The theorems.                                                             *)

LEMMA ServiceInvInit == ServiceInit => ServiceInv
<1> SUFFICES ASSUME ServiceInit PROVE ServiceInv
  OBVIOUS
<1>1. TypeOK
  BY FleetTypeInit DEF ServiceInit
<1>2. /\ \A c \in Calls : calls[c] = Idle
      /\ calls \in [Calls -> CallRows]
      /\ effects = {} /\ executed = {} /\ overlapped = {}
      /\ clock = 0 /\ ServiceLease \in Nat
  BY IdleRow, ServiceAssumption DEF ServiceInit, Init, BaseInit
<1>3. Typed
  <2>1. sessions \in [Keys -> SessionRows]
    BY DEF ServiceInit, SessionRows
  <2>2. approvals \in [Calls -> [state : ApprovalStates, session : Keys \cup {NoSession}]]
    BY DEF ServiceInit, ApprovalStates
  <2>3. LedgerTypeOK
    BY DEF ServiceInit, LedgerInit, LedgerTypeOK, LedgerRows, LedgerStates
  <2> QED BY <1>1, <1>2, <2>1, <2>2, <2>3 DEF Typed, ServiceTypeOK, ServiceInit
<1>4. Rows
  BY <1>2, IdleRow DEF Rows, RowShape, Gated, Working, Persisting, Closing
<1>5. LedgerInv
  <2>1. NoResponse \notin Good
    BY LedgerAssumption, ServiceAssumption DEF Good
  <2>2. \A k \in IdempotencyKeys : ledger[k].state = "absent"
    BY DEF ServiceInit, LedgerInit
  <2> QED BY <1>2, <2>1, <2>2, IdleRow DEF LedgerInv, ExecutedOnce
<1>6. EvidenceInv
  BY <1>2, IdleRow, ServiceAssumption DEF EvidenceInv, EvidenceAt, Closing
<1>7. FenceInv
  <2>1. \A s \in Keys : fences[s].state = "absent"
    BY DEF ServiceInit, Init, FencesInit
  <2> QED BY <1>2, <2>1, IdleRow, ServiceAssumption DEF FenceInv
<1>8. MutationInv
  <2>1. \A c \in Calls : leases[c].state = "absent"
    BY ServiceAssumption DEF ServiceInit, Init, LeasesInit
  <2>2. \A m \in Mutations : mutation[m] = "idle" /\ guards[m].state = "none"
    BY ServiceAssumption DEF ServiceInit, Init, BaseInit
  <2> QED BY <1>2, <2>1, <2>2, IdleRow, ServiceAssumption
          DEF MutationInv, LeaseAt, Working, GuardRow, QuiescenceExcludesLeases
<1>9. OverlapInv
  BY <1>2 DEF OverlapInv, Unrecorded, ServiceInit
<1> QED BY <1>3, <1>4, <1>5, <1>6, <1>7, <1>8, <1>9 DEF ServiceInv

LEMMA ServiceInvStutter ==
    ASSUME ServiceInv, UNCHANGED allVars
    PROVE  ServiceInv'
<1>1. TypeOK /\ ServiceTypeOK /\ MutationInv
  BY DEF ServiceInv, Typed
<1>2. /\ UNCHANGED <<ledger, calls, sessions, approvals, mutation, starts, effects, executed, overlapped>>
      /\ TypeOK' /\ UNCHANGED <<clock, quiescence, guards, leases, fences>>
  BY <1>1, FleetStays DEF allVars, serviceVars, history
<1>3. MutationInv'
  BY <1>1, <1>2 DEF MutationInv, LeaseAt, GuardRow, QuiescenceExcludesLeases, Quiescent
<1>4. clock' >= clock
  BY <1>1, <1>2 DEF TypeOK, BaseTypeOK
<1> QED BY <1>1, <1>2, <1>3, <1>4, HandlersStay DEF ServiceTypeOK

LEMMA ServiceInvStep ==
    ASSUME ServiceInv, [ServiceNext]_allVars
    PROVE  ServiceInv'
<1>1. CASE Start
  BY <1>1, StartKeeps
<1>2. ASSUME NEW c \in Calls, NEW r \in Requests, BeginRpc(c, r)
      PROVE  ServiceInv'
  BY <1>2, BeginRpcKeeps
<1>3. ASSUME NEW c \in Calls, CallStep(c)
      PROVE  ServiceInv'
  BY <1>3, ReadSessionKeeps, ExpireKeeps, TakeLeaseKeeps, TakeFenceKeeps, ExecuteKeeps,
     AssertCurrentKeeps, CreateSessionKeeps, AppendExecutionKeeps, SaveTranscriptKeeps,
     CreateApprovalKeeps, ReleaseServiceLeaseKeeps, ReleaseServiceFenceKeeps, CompleteRpcKeeps
     DEF CallStep
<1>4. ASSUME NEW c \in Calls, ResolveApproval(c)
      PROVE  ServiceInv'
  BY <1>4, ResolveApprovalKeeps
<1>5. ASSUME NEW m \in Mutations, StartMutation(m) \/ EndMutation(m)
      PROVE  ServiceInv'
  BY <1>5, StartMutationKeeps, EndMutationKeeps
<1>6. CASE Tick /\ UNCHANGED <<ledger, serviceVars>>
  BY <1>6, ServiceTickKeeps
<1>7. CASE UNCHANGED allVars
  BY <1>7, ServiceInvStutter
<1> QED BY <1>1, <1>2, <1>3, <1>4, <1>5, <1>6, <1>7 DEF ServiceNext

\* The inductive invariant holds of every behaviour of the service.
THEOREM ServiceInvariant == ServiceSpec => []ServiceInv
BY ServiceInvInit, ServiceInvStep, PTL DEF ServiceSpec

\* At most once (handle_mutating_rpc, RpcLedger): of the calls that carry a key,
\* through duplicates, conflicts, answers and crashes, one is executed.
THEOREM RequestsExecuteOnce == ServiceSpec => []ExecutedOnce
<1>1. ServiceInv => ExecutedOnce
  BY DEF ServiceInv, LedgerInv
<1> QED BY <1>1, ServiceInvariant, PTL

\* Whoever is told of a success can find its evidence (persist_execution comes
\* before complete, and the ledger replays only what was completed).
THEOREM SuccessIsRecorded == ServiceSpec => []AnswersAreRecorded
<1>1. ServiceInv => AnswersAreRecorded
  <2> SUFFICES ASSUME ServiceInv, NEW c \in Calls, NEW d \in executed,
                      calls[c].answer \in Good, calls[d].request = calls[c].request
               PROVE  /\ d \in effects => \E s \in Keys : sessions[s].exists /\ d \in sessions[s].events
                      /\ calls[c].answer = "approval_required" => approvals[d].state # "none"
    BY DEF AnswersAreRecorded, Good
  <2>1. LedgerOf(d).state = "completed" /\ LedgerOf(d).response = calls[c].answer
    <3>1. LedgerOf(c) = [state |-> "completed", request |-> calls[c].request,
                         response |-> calls[c].answer]
      BY DEF ServiceInv, LedgerInv
    <3>2. LedgerOf(d) = LedgerOf(c)
      BY DEF LedgerOf
    <3> QED BY <3>1, <3>2
  <2>2. Recorded(d) /\ Awaited(d, calls[c].answer)
    BY <2>1 DEF ServiceInv, EvidenceInv
  <2> QED BY <2>2 DEF Recorded, Awaited
<1> QED BY <1>1, ServiceInvariant, PTL

\* Of two runs of a session that were under way at once, at most one is recorded,
\* unless the first had passed its check when the second was given the fence
\* (assert_current after the run, under the fence's generation).
THEOREM OverlapsRecordOne == ServiceSpec => []OverlappingRunsRecordOne
<1>1. ServiceInv => OverlappingRunsRecordOne
  BY DEF ServiceInv, OverlapInv, Loses, Unrecorded, OverlappingRunsRecordOne
<1> QED BY <1>1, ServiceInvariant, PTL

\* While a mutation's guard has not run out, only a run that outlived its lease
\* can be executing (acquire_execution_lease, ensure_evolution_quiescent).
THEOREM MutationsExclude == ServiceSpec => []MutationsRunAlone
<1>1. ServiceInv => MutationsRunAlone
  <2> SUFFICES ASSUME ServiceInv, NEW m \in Mutations, NEW c \in Calls,
                      mutation[m] = "mutate", clock < guards[m].expires, calls[c].pc \in Working
               PROVE  clock >= calls[c].now + ServiceLease
    BY DEF MutationsRunAlone
  <2>1. Quiescent
    BY ServiceAssumption DEF Quiescent, ServiceInv, MutationInv
  <2>2. leases[c].state # "active"
    BY <2>1, ServiceAssumption DEF ServiceInv, MutationInv, QuiescenceExcludesLeases
  <2> QED BY <2>2 DEF ServiceInv, MutationInv, LeaseAt
<1> QED BY <1>1, ServiceInvariant, PTL

\* An answered call holds neither lease nor fence (Drop for ActiveServiceLease,
\* the error paths of acquire_execution_lease).
THEOREM AnsweredCallsAreFree == ServiceSpec => []AnsweredCallsHoldNothing
<1>1. ServiceInv => AnsweredCallsHoldNothing
  BY DEF ServiceInv, Typed, MutationInv, LeaseAt, FenceInv, Holds, AnsweredCallsHoldNothing
<1> QED BY <1>1, ServiceInvariant, PTL

==============================================================================
