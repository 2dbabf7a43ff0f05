--------------------------- MODULE AuthorityProofs ---------------------------
(***************************************************************************)
(* The authority chain, for every set of controllers, runs, sessions,       *)
(* genes and policies and any number of crashes: types, complete mediation  *)
(* and one effect per approval.                                            *)
(***************************************************************************)
EXTENDS Authority, TLAPS

-----------------------------------------------------------------------------
(* Facts about the helpers. *)

\* A run that is not idle is a full record.
LEMMA ActiveRun ==
    ASSUME TypeOK, NEW r \in Runs, runs[r].pc # "idle"
    PROVE  runs[r] \in ActiveRuns
BY DEF TypeOK, IdleRun

\* Its current request is a request.
LEMMA RunRequest ==
    ASSUME NEW run \in ActiveRuns
    PROVE  CurrentRequest(run) \in Requests
BY DEF CurrentRequest, Request, Requests, ActiveRuns

\* Parliament's decision is a decision about that request.
LEMMA DecideType ==
    ASSUME NEW p \in Policies, NEW request \in Requests
    PROVE  /\ Decide(p.version, request, p) \in Decisions
           /\ Decide(p.version, request, p).request = request
           /\ Decide(p.version, request, p).version = p.version
BY GovernanceAssumption DEF Decide, Decisions, Outcomes

\* Replacing one run by a record of a run keeps the type of runs.
LEMMA RunReplaced ==
    ASSUME TypeOK, NEW r \in Runs, NEW run \in ActiveRuns \cup {IdleRun}
    PROVE  [runs EXCEPT ![r] = run] \in [Runs -> ActiveRuns \cup {IdleRun}]
BY DEF TypeOK

\* The permit a run is about to use is in the store.
LEMMA StoredPermit ==
    ASSUME TypeOK, PermitOfRun, NEW r \in Runs, runs[r].pc \in {"consume", "execute"}
    PROVE  /\ runs[r].ctl \in Controllers
           /\ runs[r].permit \in 1..Len(permits[runs[r].ctl])
           /\ permits[runs[r].ctl] \in Seq(StoredPermits)
           /\ permits[runs[r].ctl][runs[r].permit] \in StoredPermits
<1>1. runs[r] \in ActiveRuns
  BY ActiveRun
<1>2. runs[r].ctl \in Controllers
  BY <1>1 DEF ActiveRuns
<1>3. permits[runs[r].ctl] \in Seq(StoredPermits)
  BY <1>2 DEF TypeOK
<1>4. runs[r].permit \in 1..Len(permits[runs[r].ctl])
  BY DEF PermitOfRun
<1>5. \A q \in Seq(StoredPermits) : \A i \in 1..Len(q) : q[i] \in StoredPermits
  OBVIOUS
<1> QED BY <1>2, <1>3, <1>4, <1>5

-----------------------------------------------------------------------------
(* Type correctness, one action at a time. *)

\* run_at and run_with_approval
LEMMA BeginType ==
    ASSUME TypeOK, NEW r \in Runs, NEW c \in Controllers, NEW session \in Sessions,
           NEW gene \in Genes, NEW execution \in Nat,
           NEW a \in Approvals \cup {NoApproval}, NEW unrequired \in BOOLEAN,
           Begin(r, c, session, gene, execution, a, unrequired)
    PROVE  TypeOK'
<1>1. [pc |-> "decide", ctl |-> c, session |-> session, gene |-> gene,
       now |-> clock, execution |-> execution, approval |-> a,
       unrequired |-> unrequired, index |-> 1, outcome |-> "Deny",
       granted |-> FALSE, permit |-> 0, receipts |-> << >>] \in ActiveRuns
  BY DEF ActiveRuns, Steps, Terminal, Outcomes, TypeOK
<1>2. runs' \in [Runs -> ActiveRuns \cup {IdleRun}]
  BY <1>1, RunReplaced DEF Begin
<1>3. nextExec' \in [Controllers -> Nat]
  BY DEF Begin, TypeOK
<1> QED BY <1>2, <1>3 DEF Begin, TypeOK

\* The head of the request loop
LEMMA DecideRequestType ==
    ASSUME TypeOK, NEW r \in Runs, DecideRequest(r)
    PROVE  TypeOK'
<1>1. runs[r] \in ActiveRuns
  BY ActiveRun DEF DecideRequest, Stepping
<1>2. DecideArm(runs[r]) \in ActiveRuns
  <2>1. Decide(policy[runs[r].ctl].version, CurrentRequest(runs[r]),
               policy[runs[r].ctl]).outcome \in Outcomes
    BY DEF Decide, Outcomes
  <2>2. ASSUME NEW pc \in Steps \cup Terminal, NEW out \in Outcomes
        PROVE  [runs[r] EXCEPT !.pc = pc, !.outcome = out, !.granted = FALSE] \in ActiveRuns
    BY <1>1 DEF ActiveRuns
  <2> QED BY <2>1, <2>2 DEF DecideArm, Steps, Terminal, Outcomes
<1>3. [runs[r] EXCEPT !.pc = "completed"] \in ActiveRuns
  BY <1>1 DEF ActiveRuns, Terminal
<1>4. runs' \in [Runs -> ActiveRuns \cup {IdleRun}]
  BY <1>2, <1>3 DEF DecideRequest, TypeOK
<1> QED BY <1>4 DEF DecideRequest, TypeOK

\* consume_grant
LEMMA ConsumeGrantType ==
    ASSUME TypeOK, ApprovalsExist, NEW r \in Runs, ConsumeGrant(r)
    PROVE  TypeOK'
<1>1. runs[r] \in ActiveRuns
  BY ActiveRun DEF ConsumeGrant, Stepping
<1>2. runs[r].approval \in Approvals /\ approvals[runs[r].approval] \in ApprovalRows
  BY <1>1 DEF ConsumeGrant, Stepping, ApprovalsExist, IsActive, TypeOK, ActiveRuns
<1>3. approvals' \in [Approvals -> ApprovalRows \cup {NoApproval}]
  <2>1. ASSUME NEW s \in ApprovalStatuses
        PROVE  [approvals EXCEPT ![runs[r].approval].status = s]
                 \in [Approvals -> ApprovalRows \cup {NoApproval}]
    BY <1>2 DEF TypeOK, ApprovalRows
  <2>2. approvals \in [Approvals -> ApprovalRows \cup {NoApproval}]
    BY DEF TypeOK
  <2> QED BY <2>1, <2>2 DEF ConsumeGrant, ApprovalStatuses
<1>4. /\ [runs[r] EXCEPT !.pc = "authorize", !.granted = TRUE] \in ActiveRuns
      /\ [runs[r] EXCEPT !.pc = "error", !.receipts = << >>] \in ActiveRuns
  <2>1. ASSUME NEW pc \in Steps \cup Terminal, NEW g \in BOOLEAN, NEW s \in Seq(Nat)
        PROVE  /\ [runs[r] EXCEPT !.pc = pc, !.granted = g] \in ActiveRuns
               /\ [runs[r] EXCEPT !.pc = pc, !.receipts = s] \in ActiveRuns
    BY <1>1 DEF ActiveRuns
  <2>2. << >> \in Seq(Nat)
    OBVIOUS
  <2> QED BY <2>1, <2>2 DEF Steps, Terminal
<1>5. runs' \in [Runs -> ActiveRuns \cup {IdleRun}]
  BY <1>4, RunReplaced DEF ConsumeGrant, TypeOK
<1> QED BY <1>3, <1>5 DEF ConsumeGrant, TypeOK

\* authorize and register
LEMMA AuthorizeType ==
    ASSUME TypeOK, NEW r \in Runs, Authorize(r)
    PROVE  TypeOK'
<1>1. runs[r] \in ActiveRuns
  BY ActiveRun DEF Authorize, Stepping
<1>2. IssuedPermit(runs[r]) \in StoredPermits
  <2>1. monitor[runs[r].ctl] \in Policies /\ runs[r].now \in Nat /\ runs[r].now + PermitTtl \in Nat
    BY <1>1, AuthorityAssumption DEF TypeOK, ActiveRuns
  <2>2. CurrentRequest(runs[r]) \in Requests
    BY <1>1, RunRequest
  <2>3. monitor[runs[r].ctl].version \in Nat
    BY <2>1, GovernanceAssumption
  <2>4. [request |-> CurrentRequest(runs[r]), version |-> monitor[runs[r].ctl].version,
         issued |-> runs[r].now, expires |-> runs[r].now + PermitTtl] \in Permits
    BY <2>1, <2>2, <2>3 DEF Permits
  <2>5. Decide(monitor[runs[r].ctl].version, CurrentRequest(runs[r]), monitor[runs[r].ctl])
          \in Decisions
    BY <2>1, <2>2, DecideType
  <2>6. (IF runs[r].granted THEN runs[r].approval ELSE NoApproval)
          \in Approvals \cup {NoApproval}
    BY <1>1 DEF ActiveRuns
  <2> QED BY <2>4, <2>5, <2>6 DEF IssuedPermit, StoredPermits, PermitStates
<1>3. permits' \in [Controllers -> Seq(StoredPermits)]
  <2>1. runs[r].ctl \in Controllers
    BY <1>1 DEF ActiveRuns
  <2>2. Append(permits[runs[r].ctl], IssuedPermit(runs[r])) \in Seq(StoredPermits)
    BY <1>2, <2>1 DEF TypeOK
  <2> QED BY <2>1, <2>2 DEF Authorize, TypeOK
<1>4. Len(permits[runs[r].ctl]) + 1 \in Nat
  BY <1>1 DEF TypeOK, ActiveRuns
<1>5. /\ [runs[r] EXCEPT !.pc = "consume", !.permit = Len(permits[runs[r].ctl]) + 1]
           \in ActiveRuns
      /\ [runs[r] EXCEPT !.pc = "failed"] \in ActiveRuns
  BY <1>1, <1>4 DEF ActiveRuns, Steps, Terminal
<1>6. runs' \in [Runs -> ActiveRuns \cup {IdleRun}]
  BY <1>5, RunReplaced DEF Authorize, TypeOK
<1> QED BY <1>3, <1>6 DEF Authorize, TypeOK

\* consume
LEMMA ConsumePermitType ==
    ASSUME TypeOK, PermitOfRun, NEW r \in Runs, ConsumePermit(r)
    PROVE  TypeOK'
<1>1. runs[r] \in ActiveRuns
  BY ActiveRun DEF ConsumePermit, Stepping
<1>2. /\ runs[r].ctl \in Controllers
      /\ runs[r].permit \in 1..Len(permits[runs[r].ctl])
      /\ permits[runs[r].ctl] \in Seq(StoredPermits)
      /\ permits[runs[r].ctl][runs[r].permit] \in StoredPermits
  BY StoredPermit DEF ConsumePermit, Stepping
<1>3. [permits EXCEPT ![runs[r].ctl][runs[r].permit].state = "consumed"]
         \in [Controllers -> Seq(StoredPermits)]
  <2>1. [permits[runs[r].ctl][runs[r].permit] EXCEPT !.state = "consumed"] \in StoredPermits
    BY <1>2 DEF StoredPermits, PermitStates
  <2>2. [permits[runs[r].ctl] EXCEPT ![runs[r].permit] =
           [permits[runs[r].ctl][runs[r].permit] EXCEPT !.state = "consumed"]]
           \in Seq(StoredPermits)
    BY <1>2, <2>1
  <2> QED BY <1>2, <2>2 DEF TypeOK
<1>4. [runs[r] EXCEPT !.pc = "execute"] \in ActiveRuns
      /\ [runs[r] EXCEPT !.pc = "failed"] \in ActiveRuns
  BY <1>1 DEF ActiveRuns, Steps, Terminal
<1>5. runs' \in [Runs -> ActiveRuns \cup {IdleRun}]
  BY <1>4, RunReplaced DEF ConsumePermit, TypeOK
<1> QED BY <1>3, <1>5 DEF ConsumePermit, TypeOK

\* execute_request with an executor
LEMMA ExecuteType ==
    ASSUME TypeOK, PermitOfRun, NEW r \in Runs, NEW succeeded \in BOOLEAN,
           Execute(r, succeeded)
    PROVE  TypeOK'
<1>1. runs[r] \in ActiveRuns
  BY ActiveRun DEF Execute, Stepping
<1>2. permits[runs[r].ctl][runs[r].permit] \in StoredPermits
  BY StoredPermit DEF Execute, Stepping
<1>3. EffectOf(runs[r]) \in EffectRecords
  BY <1>1, <1>2, RunRequest DEF EffectOf, EffectRecords, StoredPermits, ActiveRuns, TypeOK
<1>4. ASSUME NEW i \in Nat, NEW pc \in Steps \cup Terminal, NEW s \in Seq(Nat)
      PROVE  [runs[r] EXCEPT !.receipts = s, !.index = i, !.pc = pc] \in ActiveRuns
  BY <1>1 DEF ActiveRuns
<1>5. Append(runs[r].receipts, runs[r].permit) \in Seq(Nat)
      /\ runs[r].index \in Nat /\ runs[r].index + 1 \in Nat
  BY <1>1 DEF ActiveRuns
<1>6. AfterEffect(runs[r], succeeded) \in ActiveRuns
  <2>1. CASE succeeded
    BY <1>4, <1>5, <2>1 DEF Steps, AfterEffect
  <2>2. CASE ~succeeded
    BY <1>4, <1>5, <2>2 DEF Terminal, AfterEffect
  <2> QED BY <2>1, <2>2
<1>7. runs' \in [Runs -> ActiveRuns \cup {IdleRun}]
  BY <1>6, RunReplaced DEF Execute
<1> QED BY <1>3, <1>7 DEF Execute, TypeOK

\* A refusal before the executor, and the caller taking a result
LEMMA EndRunType ==
    ASSUME TypeOK, NEW r \in Runs, Refuse(r) \/ Return(r)
    PROVE  TypeOK'
<1>1. CASE Refuse(r)
  <2>1. runs[r] \in ActiveRuns
    BY <1>1, ActiveRun DEF Refuse, Stepping
  <2>2. [runs[r] EXCEPT !.pc = "failed"] \in ActiveRuns
    BY <2>1 DEF ActiveRuns, Terminal
  <2>3. runs' \in [Runs -> ActiveRuns \cup {IdleRun}]
    BY <1>1, <2>2, RunReplaced DEF Refuse, TypeOK
  <2> QED BY <1>1, <2>3 DEF Refuse, TypeOK
<1>2. CASE Return(r)
  BY <1>2 DEF Return, TypeOK
<1> QED BY <1>1, <1>2

\* The approval of a paused run is a row.
LEMMA NewApprovalType ==
    ASSUME NEW run \in ActiveRuns, NEW version \in Nat, NEW now \in Nat
    PROVE  /\ NewApproval(run, version, now) \in ApprovalRows
           /\ NewApproval(run, version, now) # NoApproval
<1>1. now + ApprovalTtl \in Nat
  BY AuthorityAssumption
<1>2. Request(run.session, run.execution, run.gene, 1) \in Requests
  BY DEF Request, Requests, ActiveRuns
<1> QED BY <1>1, <1>2, AuthorityAssumption
        DEF NewApproval, ApprovalRows, ApprovalStatuses

\* create_approval, of the CLI and of the service
LEMMA CreateType ==
    ASSUME TypeOK, NEW r \in Runs,
           CreateServiceApproval(r) \/ \E nonce \in Nonces : CreateCliApproval(r, nonce)
    PROVE  TypeOK'
<1>1. runs[r] \in ActiveRuns
  BY ActiveRun DEF CreateServiceApproval, CreateCliApproval, Stepping
<1>2. ASSUME NEW id, NEW version \in Nat, NEW now \in Nat
      PROVE  [approvals EXCEPT ![id] = NewApproval(runs[r], version, now)]
               \in [Approvals -> ApprovalRows \cup {NoApproval}]
  BY <1>1, NewApprovalType DEF TypeOK
<1>3. CASE CreateServiceApproval(r)
  <2>1. << >> \in Seq(Nat)
    OBVIOUS
  <2>2. [runs[r] EXCEPT !.pc = "error", !.receipts = << >>] \in ActiveRuns
    <3>1. ASSUME NEW s \in Seq(Nat)
          PROVE  [runs[r] EXCEPT !.pc = "error", !.receipts = s] \in ActiveRuns
      BY <1>1 DEF ActiveRuns, Terminal
    <3> QED BY <2>1, <3>1
  <2>3. runs' \in [Runs -> ActiveRuns \cup {IdleRun}]
    BY <1>3, <2>2, RunReplaced DEF CreateServiceApproval, TypeOK
  <2>4. policy[runs[r].ctl].version \in Nat /\ runs[r].now \in Nat
    BY <1>1, GovernanceAssumption DEF TypeOK, ActiveRuns
  <2>5. approvals' \in [Approvals -> ApprovalRows \cup {NoApproval}]
    <3>1. approvals' = approvals
          \/ \E id : approvals' = [approvals EXCEPT ![id] =
                NewApproval(runs[r], policy[runs[r].ctl].version, runs[r].now)]
      BY <1>3 DEF CreateServiceApproval
    <3>2. CASE approvals' = approvals
      BY <3>2 DEF TypeOK
    <3>3. ASSUME NEW id,
                 approvals' = [approvals EXCEPT ![id] =
                   NewApproval(runs[r], policy[runs[r].ctl].version, runs[r].now)]
          PROVE  approvals' \in [Approvals -> ApprovalRows \cup {NoApproval}]
      BY <1>2, <2>4, <3>3
    <3> QED BY <3>1, <3>2, <3>3
  <2> QED BY <1>3, <2>3, <2>5 DEF CreateServiceApproval, TypeOK
<1>4. ASSUME NEW nonce \in Nonces, CreateCliApproval(r, nonce)
      PROVE  TypeOK'
  <2>1. approvals' \in [Approvals -> ApprovalRows \cup {NoApproval}]
    BY <1>2, <1>4 DEF CreateCliApproval, TypeOK
  <2>2. runs' \in [Runs -> ActiveRuns \cup {IdleRun}]
    BY <1>4, RunReplaced DEF CreateCliApproval
  <2> QED BY <1>4, <2>1, <2>2 DEF CreateCliApproval, TypeOK
<1> QED BY <1>3, <1>4

\* Operators: resolutions, policy updates and crashes
LEMMA OperatorType ==
    ASSUME TypeOK, Operator
    PROVE  TypeOK'
<1>1. ASSUME NEW a \in Approvals, NEW allow \in BOOLEAN, Resolve(a, allow)
      PROVE  TypeOK'
  <2>1. approvals[a] \in ApprovalRows
    BY <1>1 DEF Resolve, TypeOK
  <2>2. ASSUME NEW s \in ApprovalStatuses
        PROVE  [approvals EXCEPT ![a].status = s]
                 \in [Approvals -> ApprovalRows \cup {NoApproval}]
    BY <2>1 DEF TypeOK, ApprovalRows
  <2>3. approvals' \in [Approvals -> ApprovalRows \cup {NoApproval}]
    BY <1>1, <2>2 DEF Resolve, ApprovalStatuses
  <2> QED BY <1>1, <2>3 DEF Resolve, TypeOK
<1>2. ASSUME NEW c \in Controllers, NEW p \in Policies,
             UpdatePolicy(c, p) \/ UpdateMonitorPolicy(c, p)
      PROVE  TypeOK'
  BY <1>2 DEF UpdatePolicy, UpdateMonitorPolicy, TypeOK
<1>3. ASSUME NEW c \in Controllers, NEW p \in Policies, Crash(c, p)
      PROVE  TypeOK'
  <2>1. << >> \in Seq(StoredPermits)
    OBVIOUS
  <2>2. permits' \in [Controllers -> Seq(StoredPermits)]
    BY <1>3, <2>1 DEF Crash, TypeOK
  <2>3. runs' \in [Runs -> ActiveRuns \cup {IdleRun}]
    BY <1>3 DEF Crash, TypeOK
  <2> QED BY <1>3, <2>2, <2>3 DEF Crash, TypeOK
<1>4. ASSUME NEW c \in Controllers, RejectIntent(c)
      PROVE  TypeOK'
  BY <1>4 DEF RejectIntent, TypeOK
<1> QED BY <1>1, <1>2, <1>3, <1>4 DEF Operator

\* A call begins, in any of its three forms.
LEMMA CallerType ==
    ASSUME TypeOK, NEW r \in Runs, Caller(r)
    PROVE  TypeOK'
<1>1. ASSUME NEW c \in Controllers, NEW session \in Sessions, NEW gene \in Genes,
             RunAt(r, c, session, gene)
      PROVE  TypeOK'
  <2>1. nextExec[c] \in Nat
    BY DEF TypeOK
  <2> QED BY <1>1, <2>1, BeginType DEF RunAt
<1>2. ASSUME NEW c \in Controllers, NEW session \in Sessions, NEW gene \in Genes,
             NEW a \in Approvals, NEW unrequired \in BOOLEAN,
             RunWithApproval(r, c, session, gene, a, unrequired)
      PROVE  TypeOK'
  <2>1. approvals[a].request.execution \in Nat
    BY <1>2 DEF RunWithApproval, TypeOK, ApprovalRows, Requests
  <2> QED BY <1>2, <2>1, BeginType DEF RunWithApproval
<1> QED BY <1>1, <1>2, CreateType, EndRunType DEF Caller

\* Every step of the chain keeps the types.
LEMMA TypeStep ==
    ASSUME TypeOK, ApprovalsExist, PermitOfRun, [Next]_vars
    PROVE  TypeOK'
<1>1. ASSUME NEW r \in Runs, RunStep(r)
      PROVE  TypeOK'
  BY <1>1, DecideRequestType, ConsumeGrantType, AuthorizeType, ConsumePermitType,
     ExecuteType, EndRunType DEF RunStep
<1>2. CASE Tick
  BY <1>2 DEF Tick, TypeOK
<1>3. CASE UNCHANGED vars
  BY <1>3 DEF vars, TypeOK
<1> QED BY <1>1, <1>2, <1>3, CallerType, OperatorType DEF Next

-----------------------------------------------------------------------------
(* Approval rows. *)

\* What a step may do to a row: nothing, or one forward move of its status.
Moves == {<<"pending", "approved">>, <<"pending", "denied">>, <<"pending", "expired">>,
          <<"approved", "consumed">>, <<"approved", "expired">>}

MovesRow(a) ==
    \/ approvals'[a] = approvals[a]
    \/ \E s \in ApprovalStatuses :
         /\ approvals'[a] = [approvals[a] EXCEPT !.status = s]
         /\ <<approvals[a].status, s>> \in Moves

RowsMove == \A a \in Approvals : approvals[a] # NoApproval => MovesRow(a)

\* consume_grant spends or expires an approved row.
LEMMA ConsumeGrantMoves ==
    ASSUME TypeOK, ApprovalsExist, NEW r \in Runs, ConsumeGrant(r)
    PROVE  RowsMove
<1>1. runs[r] \in ActiveRuns
  BY ActiveRun DEF ConsumeGrant, Stepping
<1>2. runs[r].approval \in Approvals
  BY <1>1 DEF ConsumeGrant, Stepping, ApprovalsExist, ActiveRuns
<1>3. CASE approvals' = approvals
  BY <1>3 DEF RowsMove, MovesRow
<1>4. ASSUME NEW s \in {"consumed", "expired"},
             approvals' = [approvals EXCEPT ![runs[r].approval].status = s],
             approvals[runs[r].approval].status = "approved"
      PROVE  RowsMove
  BY <1>2, <1>4 DEF RowsMove, MovesRow, Moves, TypeOK, ApprovalStatuses
<1> QED BY <1>3, <1>4 DEF ConsumeGrant, Grantable

\* resolve settles a pending row, or expires an elapsed one.
LEMMA ResolveMoves ==
    ASSUME TypeOK, NEW a \in Approvals, NEW allow \in BOOLEAN, Resolve(a, allow)
    PROVE  RowsMove
<1>1. ASSUME NEW s \in {"approved", "denied", "expired"},
             approvals' = [approvals EXCEPT ![a].status = s],
             <<approvals[a].status, s>> \in Moves
      PROVE  RowsMove
  BY <1>1 DEF RowsMove, MovesRow, TypeOK, ApprovalStatuses
<1>2. CASE StatusAt(approvals[a], clock) = "expired"
  <2>1. approvals' = [approvals EXCEPT ![a].status = "expired"]
    BY <1>2 DEF Resolve
  <2>2. approvals[a].status \in {"pending", "approved"}
    BY DEF Resolve
  <2> QED BY <1>1, <2>1, <2>2 DEF Moves
<1>3. CASE StatusAt(approvals[a], clock) # "expired"
  <2>1. approvals[a].status = "pending"
    BY <1>3 DEF Resolve
  <2>2. CASE allow
    BY <1>1, <1>3, <2>1, <2>2 DEF Resolve, Moves
  <2>3. CASE ~allow
    BY <1>1, <1>3, <2>1, <2>3 DEF Resolve, Moves
  <2> QED BY <2>2, <2>3
<1> QED BY <1>2, <1>3

\* create_approval adds a row and changes none.
LEMMA CreateMoves ==
    ASSUME TypeOK, NEW r \in Runs,
           CreateServiceApproval(r) \/ \E nonce \in Nonces : CreateCliApproval(r, nonce)
    PROVE  RowsMove
<1>1. ASSUME NEW id, NEW row, approvals[id] = NoApproval,
             approvals' = [approvals EXCEPT ![id] = row]
      PROVE  RowsMove
  BY <1>1 DEF RowsMove, MovesRow, TypeOK
<1>2. CASE approvals' = approvals
  BY <1>2 DEF RowsMove, MovesRow
<1> QED BY <1>1, <1>2 DEF CreateServiceApproval, CreateCliApproval

\* No other step touches the table.
LEMMA RowsMoveStep ==
    ASSUME TypeOK, ApprovalsExist, [Next]_vars
    PROVE  RowsMove
<1>1. CASE approvals' = approvals
  BY <1>1 DEF RowsMove, MovesRow
<1>2. ASSUME NEW r \in Runs, RunStep(r)
      PROVE  RowsMove
  <2>1. CASE ConsumeGrant(r)
    BY <2>1, ConsumeGrantMoves
  <2>2. CASE ~ConsumeGrant(r)
    BY <1>1, <1>2, <2>2
    DEF RunStep, DecideRequest, Authorize, ConsumePermit, Execute, Refuse
  <2> QED BY <2>1, <2>2
<1>3. ASSUME NEW r \in Runs, Caller(r)
      PROVE  RowsMove
  <2>1. CASE CreateServiceApproval(r) \/ \E nonce \in Nonces : CreateCliApproval(r, nonce)
    BY <2>1, CreateMoves
  <2>2. CASE ~(CreateServiceApproval(r) \/ \E nonce \in Nonces : CreateCliApproval(r, nonce))
    BY <1>1, <1>3, <2>2 DEF Caller, RunAt, RunWithApproval, Begin, Return
  <2> QED BY <2>1, <2>2
<1>4. CASE Operator
  <2>1. ASSUME NEW a \in Approvals, NEW allow \in BOOLEAN, Resolve(a, allow)
        PROVE  RowsMove
    BY <2>1, ResolveMoves
  <2> QED BY <1>1, <1>4, <2>1
          DEF Operator, RejectIntent, UpdatePolicy, UpdateMonitorPolicy, Crash
<1> QED BY <1>1, <1>2, <1>3, <1>4 DEF Next, Tick, vars

\* So a row stays, keeps its request and version, and stays spent once spent.
LEMMA RowsKept ==
    ASSUME TypeOK, RowsMove, NEW a \in Approvals, approvals[a] # NoApproval
    PROVE  /\ approvals'[a] # NoApproval
           /\ approvals'[a].request = approvals[a].request
           /\ approvals'[a].version = approvals[a].version
           /\ approvals[a].status = "consumed" => approvals'[a].status = "consumed"
<1>1. approvals[a] \in ApprovalRows
  BY DEF TypeOK
<1>2. approvals'[a] \in ApprovalRows
  BY <1>1 DEF RowsMove, MovesRow, ApprovalRows
<1>3. CASE approvals'[a] = approvals[a]
  BY <1>3
<1>4. ASSUME NEW s \in ApprovalStatuses,
             approvals'[a] = [approvals[a] EXCEPT !.status = s],
             <<approvals[a].status, s>> \in Moves
      PROVE  /\ approvals'[a].request = approvals[a].request
             /\ approvals'[a].version = approvals[a].version
             /\ approvals[a].status # "consumed"
  BY <1>1, <1>4 DEF ApprovalRows, Moves
<1> QED BY <1>2, <1>3, <1>4, AuthorityAssumption DEF RowsMove, MovesRow

-----------------------------------------------------------------------------
(* The inductive invariant. *)

Held == ApprovalsExist /\ GrantHeldOnce /\ PermitOfRun
Done == EffectsSpend /\ EffectsAuthorized /\ OneEffectPerApproval

\* Effects already done stay authorized while approvals only move forward.
LEMMA DoneKept ==
    ASSUME TypeOK, Done, RowsMove, effects' = effects
    PROVE  Done'
<1>1. ASSUME NEW e \in effects, e.approval # NoApproval
      PROVE  e.approval \in Approvals /\ approvals[e.approval] # NoApproval
             /\ approvals[e.approval].status = "consumed"
  BY <1>1 DEF Done, EffectsSpend, TypeOK, EffectRecords
<1>2. EffectsSpend'
  BY <1>1, RowsKept DEF EffectsSpend
<1>3. EffectsAuthorized'
  BY <1>1, RowsKept DEF Done, EffectsAuthorized, GrantMatches
<1>4. OneEffectPerApproval'
  BY DEF Done, OneEffectPerApproval
<1> QED BY <1>2, <1>3, <1>4 DEF Done

\* A run that another run's step leaves alone keeps what it holds.
OtherKept(s) ==
    /\ IsActive(s) /\ runs[s].approval # NoApproval =>
         approvals'[runs[s].approval] # NoApproval
    /\ Holds(s) => approvals'[runs[s].approval].status = "consumed"
    /\ Holds(s) => \A request, version :
         GrantMatches(approvals[runs[s].approval], request, version) =>
           GrantMatches(approvals'[runs[s].approval], request, version)

\* Every run keeps what it holds while approvals only move forward.
LEMMA OthersKept ==
    ASSUME TypeOK, Held, RowsMove, NEW s \in Runs
    PROVE  OtherKept(s)
<1>1. IsActive(s) /\ runs[s].approval # NoApproval =>
        runs[s].approval \in Approvals /\ approvals[runs[s].approval] # NoApproval
  BY ActiveRun DEF IsActive, ActiveRuns, Held, ApprovalsExist
<1>2. Holds(s) => IsActive(s) /\ runs[s].approval # NoApproval
                  /\ approvals[runs[s].approval].status = "consumed"
  BY DEF Holds, IsActive, Held, ApprovalsExist, GrantHeldOnce
<1> QED BY <1>1, <1>2, RowsKept DEF OtherKept, GrantMatches

\* A step of a run that neither holds an approval nor has a permit afterwards.
LEMMA QuietStep ==
    ASSUME TypeOK, Held, RowsMove, NEW r \in Runs,
           permits' = permits,
           \A e \in effects' :
             e \in effects \/ \A s \in Runs \ {r} : Holds(s) => e.approval # runs[s].approval,
           \A s \in Runs \ {r} : runs'[s] = runs[s],
           ~Holds(r)', runs'[r].pc \notin {"consume", "execute"},
           runs'[r].pc # "idle" /\ runs'[r].approval # NoApproval =>
             approvals'[runs'[r].approval] # NoApproval,
           runs'[r].pc = "grant" => runs'[r].approval # NoApproval
    PROVE  Held'
<1>1. \A s \in Runs : OtherKept(s)
  BY OthersKept
<1>2. ApprovalsExist'
  BY <1>1 DEF OtherKept, Held, ApprovalsExist, IsActive, Stepping, Holds
<1>3. GrantHeldOnce'
  BY <1>1 DEF OtherKept, Held, GrantHeldOnce, Holds
<1>4. PermitOfRun'
  <2> SUFFICES ASSUME NEW s \in Runs, runs'[s].pc \in {"consume", "execute"}
               PROVE  /\ runs'[s].permit \in 1..Len(permits'[runs'[s].ctl])
                      /\ IssuedTo(permits'[runs'[s].ctl][runs'[s].permit], runs'[s],
                                  approvals'[runs'[s].approval])
    BY DEF PermitOfRun
  <2>1. s # r /\ runs'[s] = runs[s]
    OBVIOUS
  <2> QED BY <1>1, <2>1 DEF Held, PermitOfRun, IssuedTo, OtherKept, Holds
<1> QED BY <1>2, <1>3, <1>4 DEF Held

\* A call begins: it holds nothing, and its approval, if any, is in the table.
LEMMA BeginHeld ==
    ASSUME TypeOK, Held, RowsMove, NEW r \in Runs, NEW c, NEW session, NEW gene,
           NEW execution, NEW a \in Approvals \cup {NoApproval}, NEW unrequired,
           a # NoApproval => approvals[a] # NoApproval,
           Begin(r, c, session, gene, execution, a, unrequired)
    PROVE  Held'
<1>1. /\ effects' = effects /\ permits' = permits /\ approvals' = approvals
      /\ \A s \in Runs \ {r} : runs'[s] = runs[s]
      /\ runs'[r].pc = "decide" /\ runs'[r].approval = a
  BY DEF Begin, TypeOK
<1> QED BY <1>1, QuietStep DEF Holds

\* The head of the loop: whatever arm is taken, no grant is held afterwards.
LEMMA DecideHeld ==
    ASSUME TypeOK, Held, RowsMove, NEW r \in Runs, DecideRequest(r)
    PROVE  Held'
<1>1. runs[r] \in ActiveRuns /\ runs[r].pc = "decide"
  BY ActiveRun DEF DecideRequest, Stepping
<1>2. /\ effects' = effects /\ permits' = permits /\ approvals' = approvals
      /\ \A s \in Runs \ {r} : runs'[s] = runs[s]
  BY DEF DecideRequest, TypeOK
<1>3. runs'[r] = [runs[r] EXCEPT !.pc = "completed"] \/ runs'[r] = DecideArm(runs[r])
  BY DEF DecideRequest, TypeOK
<1>4. /\ DecideArm(runs[r]).approval = runs[r].approval
      /\ DecideArm(runs[r]).granted = FALSE
      /\ DecideArm(runs[r]).pc \in {"denied", "failed", "authorize", "grant",
                                    "approval_required"}
      /\ DecideArm(runs[r]).pc = "grant" => runs[r].approval # NoApproval
  <2>1. Decide(policy[runs[r].ctl].version, CurrentRequest(runs[r]),
               policy[runs[r].ctl]).outcome \in Outcomes
    BY DEF Decide, Outcomes
  <2> QED BY <1>1, <2>1 DEF DecideArm, ActiveRuns, Outcomes
<1>5. [runs[r] EXCEPT !.pc = "completed"].pc = "completed"
      /\ [runs[r] EXCEPT !.pc = "completed"].approval = runs[r].approval
  BY <1>1 DEF ActiveRuns
<1>6. runs[r].approval # NoApproval => approvals[runs[r].approval] # NoApproval
  BY <1>1 DEF Held, ApprovalsExist, IsActive
<1> QED BY <1>2, <1>3, <1>4, <1>5, <1>6, QuietStep DEF Holds

\* The run ends, or its result is taken, or its approval is created.
LEMMA EndHeld ==
    ASSUME TypeOK, Held, RowsMove, NEW r \in Runs,
           effects' = effects, permits' = permits,
           runs[r].pc # "idle",
           \A s \in Runs \ {r} : runs'[s] = runs[s],
           runs'[r].pc \in Terminal \cup {"idle"},
           runs'[r].pc # "idle" => runs'[r].approval = runs[r].approval
    PROVE  Held'
<1>1. OtherKept(r)
  BY OthersKept
<1>2. runs'[r].pc \notin {"authorize", "consume", "execute", "grant"}
  BY DEF Terminal
<1> QED BY <1>1, <1>2, QuietStep DEF OtherKept, Holds, IsActive

\* consume_grant: the run that finds the row approved is the only one to hold it.
LEMMA ConsumeGrantHeld ==
    ASSUME TypeOK, Held, Done, RowsMove, NEW r \in Runs, ConsumeGrant(r)
    PROVE  Held'
<1>1. runs[r] \in ActiveRuns /\ runs[r].pc = "grant"
  BY ActiveRun DEF ConsumeGrant, Stepping
<1>2. /\ effects' = effects /\ permits' = permits
      /\ \A s \in Runs \ {r} : runs'[s] = runs[s]
  BY DEF ConsumeGrant, TypeOK
<1>3. runs[r].approval \in Approvals /\ approvals[runs[r].approval] \in ApprovalRows
  BY <1>1 DEF Held, ApprovalsExist, IsActive, Stepping, ActiveRuns, TypeOK
<1>4. CASE Grantable(approvals[runs[r].approval], CurrentRequest(runs[r]), runs[r].now)
  <2> DEFINE a == runs[r].approval
  <2>1. approvals[a].status = "approved"
    BY <1>4 DEF Grantable
  <2>2. /\ runs'[r].pc = "authorize" /\ runs'[r].granted = TRUE
        /\ runs'[r].approval = a
        /\ approvals'[a].status = "consumed" /\ approvals'[a] # NoApproval
    <3>1. runs'[r] = [runs[r] EXCEPT !.pc = "authorize", !.granted = TRUE]
      BY <1>4 DEF ConsumeGrant, TypeOK
    <3>2. approvals' = [approvals EXCEPT ![a].status = "consumed"]
      BY <1>4 DEF ConsumeGrant
    <3>3. approvals'[a] \in ApprovalRows /\ approvals'[a].status = "consumed"
      BY <1>3, <3>2 DEF TypeOK, ApprovalRows, ApprovalStatuses
    <3> QED BY <1>1, <3>1, <3>3, AuthorityAssumption DEF ActiveRuns
  <2>3. a # NoApproval
    BY <1>3, AuthorityAssumption
  <2>4. \A s \in Runs : Holds(s) => runs[s].approval # a
    BY <2>1 DEF Held, GrantHeldOnce
  <2>5. \A e \in effects : e.approval # a
    BY <2>1, <2>3 DEF Done, EffectsSpend
  <2>6. \A s \in Runs : OtherKept(s)
    BY OthersKept
  <2>7. \A s \in Runs \ {r} : Holds(s)' <=> Holds(s)
    BY <1>2 DEF Holds
  <2>8. ApprovalsExist'
    BY <1>2, <2>2, <2>3, <2>6, <2>7
    DEF OtherKept, Held, ApprovalsExist, IsActive, Stepping
  <2>9. GrantHeldOnce'
    BY <1>2, <2>2, <2>4, <2>5, <2>6, <2>7 DEF OtherKept, Held, GrantHeldOnce
  <2>10. PermitOfRun'
    <3> SUFFICES ASSUME NEW s \in Runs, runs'[s].pc \in {"consume", "execute"}
                 PROVE  /\ runs'[s].permit \in 1..Len(permits'[runs'[s].ctl])
                      /\ IssuedTo(permits'[runs'[s].ctl][runs'[s].permit], runs'[s],
                                  approvals'[runs'[s].approval])
      BY DEF PermitOfRun
    <3>1. runs'[s] = runs[s]
      BY <1>2, <2>2
    <3> QED BY <1>2, <2>6, <3>1 DEF Held, PermitOfRun, IssuedTo, OtherKept, Holds
  <2> QED BY <2>8, <2>9, <2>10 DEF Held
<1>5. CASE ~Grantable(approvals[runs[r].approval], CurrentRequest(runs[r]), runs[r].now)
  <2>1. runs'[r] = [runs[r] EXCEPT !.pc = "error", !.receipts = << >>]
    BY <1>5 DEF ConsumeGrant, TypeOK
  <2>2. runs'[r].pc = "error" /\ runs'[r].approval = runs[r].approval
    BY <1>1, <2>1 DEF ActiveRuns
  <2> QED BY <1>1, <1>2, <2>2, EndHeld DEF Terminal
<1> QED BY <1>4, <1>5

\* authorize: the permit carries the monitor's own verdict and the run's grant.
LEMMA AuthorizeHeld ==
    ASSUME TypeOK, Held, RowsMove, NEW r \in Runs, Authorize(r)
    PROVE  Held'
<1> DEFINE c == runs[r].ctl
           n == Len(permits[c]) + 1
<1>1. runs[r] \in ActiveRuns /\ runs[r].pc = "authorize"
  BY ActiveRun DEF Authorize, Stepping
<1>2. /\ effects' = effects /\ approvals' = approvals
      /\ \A s \in Runs \ {r} : runs'[s] = runs[s]
  BY DEF Authorize, TypeOK
<1>3. c \in Controllers /\ permits[c] \in Seq(StoredPermits)
  BY <1>1 DEF ActiveRuns, TypeOK
<1>4. CASE Authorized(runs[r])
  <2>1. runs'[r] = [runs[r] EXCEPT !.pc = "consume", !.permit = n]
    BY <1>4 DEF Authorize, TypeOK
  <2>2. permits' = [permits EXCEPT ![c] = Append(@, IssuedPermit(runs[r]))]
    BY <1>4 DEF Authorize
  <2>3. /\ runs'[r].pc = "consume" /\ runs'[r].permit = n /\ runs'[r].ctl = c
        /\ runs'[r].granted = runs[r].granted /\ runs'[r].approval = runs[r].approval
        /\ CurrentRequest(runs'[r]) = CurrentRequest(runs[r])
    BY <1>1, <2>1 DEF ActiveRuns, CurrentRequest, Request
  <2>4. permits'[c] = Append(permits[c], IssuedPermit(runs[r]))
        /\ \A d \in Controllers \ {c} : permits'[d] = permits[d]
    BY <1>3, <2>2 DEF TypeOK
  <2>5. /\ Len(permits'[c]) = n /\ permits'[c][n] = IssuedPermit(runs[r])
        /\ \A i \in 1..Len(permits[c]) : i \in 1..n /\ permits'[c][i] = permits[c][i]
    <3>1. ASSUME NEW q \in Seq(StoredPermits), NEW x
          PROVE  /\ Len(Append(q, x)) = Len(q) + 1 /\ Append(q, x)[Len(q) + 1] = x
                 /\ \A i \in 1..Len(q) :
                       i \in 1..(Len(q) + 1) /\ Append(q, x)[i] = q[i]
      OBVIOUS
    <3> QED BY <1>3, <2>4, <3>1
  <2>6. IssuedTo(IssuedPermit(runs[r]), runs'[r], approvals'[runs'[r].approval])
    <3>1. monitor[c] \in Policies /\ CurrentRequest(runs[r]) \in Requests
      BY <1>1, <1>3, RunRequest DEF TypeOK
    <3>2. /\ IssuedPermit(runs[r]).verdict =
                Decide(monitor[c].version, CurrentRequest(runs[r]), monitor[c])
          /\ IssuedPermit(runs[r]).grant =
                IF runs[r].granted THEN runs[r].approval ELSE NoApproval
      BY DEF IssuedPermit
    <3>3. Decide(monitor[c].version, CurrentRequest(runs[r]), monitor[c])
            = CurrentDecision(runs[r])
      BY <1>4 DEF Authorized, ValidDecision
    <3>4. /\ IssuedPermit(runs[r]).verdict.request = CurrentRequest(runs[r])
          /\ IssuedPermit(runs[r]).verdict.version = monitor[c].version
      BY <3>1, <3>2, DecideType
    <3>5. IssuedPermit(runs[r]).verdict.outcome = runs[r].outcome
      BY <3>2, <3>3 DEF CurrentDecision
    <3>6. IF runs[r].granted
          THEN /\ runs[r].outcome = "RequireApproval"
               /\ GrantMatches(approvals[runs[r].approval], CurrentRequest(runs[r]),
                               monitor[c].version)
          ELSE runs[r].outcome = "Allow"
      BY <1>4 DEF Authorized
    <3> HIDE DEF c
    <3> QED BY <1>2, <2>3, <3>2, <3>4, <3>5, <3>6 DEF IssuedTo
  <2>7. n \in 1..n
    BY <1>3
  <2>8. Holds(r)' <=> Holds(r)
    BY <1>1, <2>3 DEF Holds
  <2>9. \A s \in Runs \ {r} : Holds(s)' <=> Holds(s)
    BY <1>2 DEF Holds
  <2>10. ApprovalsExist'
    BY <1>1, <1>2, <2>3, <2>8, <2>9 DEF Held, ApprovalsExist, IsActive, Stepping
  <2>11. GrantHeldOnce'
    BY <1>2, <2>3, <2>8, <2>9 DEF Held, GrantHeldOnce
  <2>12. PermitOfRun'
    <3> SUFFICES ASSUME NEW s \in Runs, runs'[s].pc \in {"consume", "execute"}
                 PROVE  /\ runs'[s].permit \in 1..Len(permits'[runs'[s].ctl])
                        /\ IssuedTo(permits'[runs'[s].ctl][runs'[s].permit], runs'[s],
                                    approvals'[runs'[s].approval])
      BY DEF PermitOfRun
    <3>1. CASE s = r
      BY <2>3, <2>5, <2>6, <2>7, <3>1
    <3>2. CASE s # r
      <4>1. runs'[s] = runs[s] /\ runs[s].ctl \in Controllers
            /\ runs[s].permit \in 1..Len(permits[runs[s].ctl])
            /\ IssuedTo(permits[runs[s].ctl][runs[s].permit], runs[s],
                        approvals[runs[s].approval])
        BY <1>2, <3>2, StoredPermit DEF Held, PermitOfRun
      <4>2. CASE runs[s].ctl = c
        BY <1>2, <2>5, <4>1, <4>2
      <4>3. CASE runs[s].ctl # c
        BY <1>2, <2>4, <4>1, <4>3
      <4> QED BY <4>2, <4>3
    <3> QED BY <3>1, <3>2
  <2> QED BY <2>10, <2>11, <2>12 DEF Held
<1>5. CASE ~Authorized(runs[r])
  <2>1. runs'[r] = [runs[r] EXCEPT !.pc = "failed"] /\ permits' = permits
    BY <1>5 DEF Authorize, TypeOK
  <2>2. runs'[r].pc = "failed" /\ runs'[r].approval = runs[r].approval
    BY <1>1, <2>1 DEF ActiveRuns
  <2> QED BY <1>1, <1>2, <2>1, <2>2, EndHeld DEF Terminal
<1> QED BY <1>4, <1>5

\* consume: only the state of the permit changes.
LEMMA ConsumePermitHeld ==
    ASSUME TypeOK, Held, RowsMove, NEW r \in Runs, ConsumePermit(r)
    PROVE  Held'
<1>1. runs[r] \in ActiveRuns /\ runs[r].pc = "consume"
  BY ActiveRun DEF ConsumePermit, Stepping
<1>2. /\ effects' = effects /\ approvals' = approvals
      /\ \A s \in Runs \ {r} : runs'[s] = runs[s]
  BY DEF ConsumePermit, TypeOK
<1>3. CASE runs' = [runs EXCEPT ![r].pc = "execute"]
           /\ permits' = [permits EXCEPT ![runs[r].ctl][runs[r].permit].state = "consumed"]
  <2>1. /\ runs'[r].pc = "execute" /\ runs'[r].permit = runs[r].permit
        /\ runs'[r].ctl = runs[r].ctl /\ runs'[r].granted = runs[r].granted
        /\ runs'[r].approval = runs[r].approval
        /\ CurrentRequest(runs'[r]) = CurrentRequest(runs[r])
    BY <1>1, <1>3 DEF ActiveRuns, TypeOK, CurrentRequest, Request
  <2>2. ASSUME NEW d \in Controllers, NEW i \in 1..Len(permits[d])
        PROVE  /\ i \in 1..Len(permits'[d])
               /\ permits'[d][i].verdict = permits[d][i].verdict
               /\ permits'[d][i].grant = permits[d][i].grant
    <3>1. permits[d] \in Seq(StoredPermits) /\ permits[d][i] \in StoredPermits
      <4>1. \A q \in Seq(StoredPermits) : \A j \in 1..Len(q) : q[j] \in StoredPermits
        OBVIOUS
      <4> QED BY <2>2, <4>1 DEF TypeOK
    <3>2. CASE d # runs[r].ctl
      BY <1>3, <3>2 DEF TypeOK
    <3>3. CASE d = runs[r].ctl
      <4>1. permits'[d] = [permits[d] EXCEPT ![runs[r].permit].state = "consumed"]
        BY <1>3, <3>3 DEF TypeOK
      <4>2. Len(permits'[d]) = Len(permits[d])
        BY <3>1, <4>1
      <4>3. permits'[d][i] = permits[d][i]
            \/ permits'[d][i] = [permits[d][i] EXCEPT !.state = "consumed"]
        BY <3>1, <4>1
      <4> QED BY <3>1, <4>2, <4>3 DEF StoredPermits
    <3> QED BY <3>2, <3>3
  <2>3. \A s \in Runs : Holds(s)' <=> Holds(s)
    BY <1>1, <1>2, <2>1 DEF Holds
  <2>4. ApprovalsExist'
    BY <1>1, <1>2, <2>1, <2>3 DEF Held, ApprovalsExist, IsActive, Stepping
  <2>5. GrantHeldOnce'
    <3>1. \A s \in Runs : runs'[s].approval = runs[s].approval
      BY <1>2, <2>1
    <3> QED BY <1>2, <2>3, <3>1 DEF Held, GrantHeldOnce
  <2>6. PermitOfRun'
    <3> SUFFICES ASSUME NEW s \in Runs, runs'[s].pc \in {"consume", "execute"}
                 PROVE  /\ runs'[s].permit \in 1..Len(permits'[runs'[s].ctl])
                        /\ IssuedTo(permits'[runs'[s].ctl][runs'[s].permit], runs'[s],
                                    approvals'[runs'[s].approval])
      BY DEF PermitOfRun
    <3>1. /\ runs[s].pc \in {"consume", "execute"}
          /\ runs'[s].permit = runs[s].permit /\ runs'[s].ctl = runs[s].ctl
          /\ runs'[s].granted = runs[s].granted /\ runs'[s].approval = runs[s].approval
          /\ CurrentRequest(runs'[s]) = CurrentRequest(runs[s])
      BY <1>1, <1>2, <2>1
    <3>2. /\ runs[s].ctl \in Controllers
          /\ runs[s].permit \in 1..Len(permits[runs[s].ctl])
          /\ IssuedTo(permits[runs[s].ctl][runs[s].permit], runs[s],
                      approvals[runs[s].approval])
      BY <3>1, StoredPermit DEF Held, PermitOfRun
    <3>3. /\ runs'[s].permit \in 1..Len(permits'[runs'[s].ctl])
          /\ permits'[runs'[s].ctl][runs'[s].permit].verdict =
               permits[runs[s].ctl][runs[s].permit].verdict
          /\ permits'[runs'[s].ctl][runs'[s].permit].grant =
               permits[runs[s].ctl][runs[s].permit].grant
      BY <2>2, <3>1, <3>2
    <3>4. approvals'[runs'[s].approval] = approvals[runs[s].approval]
      BY <1>2, <3>1
    <3> QED BY <3>1, <3>2, <3>3, <3>4 DEF IssuedTo
  <2> QED BY <2>4, <2>5, <2>6 DEF Held
<1>4. CASE runs' = [runs EXCEPT ![r].pc = "failed"] /\ permits' = permits
  <2>1. runs'[r].pc = "failed" /\ runs'[r].approval = runs[r].approval
    BY <1>1, <1>4 DEF ActiveRuns, TypeOK
  <2> QED BY <1>1, <1>2, <1>4, <2>1, EndHeld DEF Terminal
<1> QED BY <1>3, <1>4 DEF ConsumePermit

\* The effect takes over what the run held.
LEMMA ExecuteHeld ==
    ASSUME TypeOK, Held, Done, RowsMove, NEW r \in Runs, NEW succeeded \in BOOLEAN,
           Execute(r, succeeded)
    PROVE  Held' /\ Done'
<1> DEFINE e == EffectOf(runs[r])
           a == runs[r].approval
<1>1. runs[r] \in ActiveRuns /\ runs[r].pc = "execute"
  BY ActiveRun DEF Execute, Stepping
<1>2. /\ effects' = effects \cup {e} /\ approvals' = approvals /\ permits' = permits
      /\ \A s \in Runs \ {r} : runs'[s] = runs[s]
  BY DEF Execute, TypeOK
<1>3. IssuedTo(permits[runs[r].ctl][runs[r].permit], runs[r], approvals[a])
  BY <1>1 DEF Held, PermitOfRun
<1>4. /\ e.request = CurrentRequest(runs[r])
      /\ e.verdict = permits[runs[r].ctl][runs[r].permit].verdict
      /\ e.approval = IF runs[r].granted THEN a ELSE NoApproval
  BY <1>3 DEF EffectOf, IssuedTo
<1>5. runs[r].granted =>
        /\ Holds(r) /\ a # NoApproval /\ approvals[a] # NoApproval
        /\ approvals[a].status = "consumed"
        /\ \A f \in effects : f.approval # a
        /\ \A s \in Runs \ {r} : Holds(s) => runs[s].approval # a
  BY <1>1 DEF Holds, Held, ApprovalsExist, GrantHeldOnce, IsActive
<1>6. runs'[r].pc \in {"decide", "failed"} /\ runs'[r].approval = a
  <2>1. runs'[r] = AfterEffect(runs[r], succeeded)
    BY DEF Execute, TypeOK
  <2>2. AfterEffect(runs[r], succeeded).pc \in {"decide", "failed"}
        /\ AfterEffect(runs[r], succeeded).approval = a
    BY <1>1 DEF AfterEffect, ActiveRuns
  <2> QED BY <2>1, <2>2
<1>7. \A s \in Runs \ {r} : Holds(s) => e.approval # runs[s].approval
  BY <1>4, <1>5 DEF Held, ApprovalsExist
<1>8. a # NoApproval => approvals[a] # NoApproval
  BY <1>1 DEF Held, ApprovalsExist, IsActive
<1>9. Held'
  <2>1. ~Holds(r)'
    BY <1>6 DEF Holds
  <2> HIDE DEF e
  <2> QED BY <1>2, <1>6, <1>7, <1>8, <2>1, QuietStep
<1>10. EffectsSpend'
  BY <1>2, <1>4, <1>5 DEF Done, EffectsSpend
<1>11. EffectsAuthorized'
  <2>1. /\ e.verdict.request = e.request
        /\ \/ e.verdict.outcome = "Allow"
           \/ /\ e.verdict.outcome = "RequireApproval"
              /\ e.approval # NoApproval
              /\ approvals[e.approval] # NoApproval
              /\ approvals[e.approval].status = "consumed"
              /\ GrantMatches(approvals[e.approval], e.request, e.verdict.version)
    <3> HIDE DEF e
    <3> QED BY <1>3, <1>4, <1>5 DEF IssuedTo
  <2> HIDE DEF e
  <2> QED BY <1>2, <2>1 DEF Done, EffectsAuthorized
<1>12. OneEffectPerApproval'
  <2> HIDE DEF e
  <2>1. e.approval # NoApproval => \A f \in effects : f.approval # e.approval
    BY <1>4, <1>5
  <2> QED BY <1>2, <2>1 DEF Done, OneEffectPerApproval
<1> QED BY <1>9, <1>10, <1>11, <1>12 DEF Done

\* Steps that leave each run and its permits alone, or lose the run.
LEMMA BackgroundStep ==
    ASSUME TypeOK, Held, RowsMove, effects' = effects,
           \A s \in Runs :
             \/ runs'[s].pc = "idle"
             \/ runs'[s] = runs[s] /\ permits'[runs[s].ctl] = permits[runs[s].ctl]
    PROVE  Held'
<1>1. \A s \in Runs : OtherKept(s)
  BY OthersKept
<1>2. ApprovalsExist'
  BY <1>1 DEF OtherKept, Held, ApprovalsExist, IsActive, Stepping, Holds
<1>3. GrantHeldOnce'
  BY <1>1 DEF OtherKept, Held, GrantHeldOnce, Holds
<1>4. PermitOfRun'
  <2> SUFFICES ASSUME NEW s \in Runs, runs'[s].pc \in {"consume", "execute"}
               PROVE  /\ runs'[s].permit \in 1..Len(permits'[runs'[s].ctl])
                      /\ IssuedTo(permits'[runs'[s].ctl][runs'[s].permit], runs'[s],
                                  approvals'[runs'[s].approval])
    BY DEF PermitOfRun
  <2>1. runs'[s] = runs[s] /\ permits'[runs[s].ctl] = permits[runs[s].ctl]
    OBVIOUS
  <2> QED BY <1>1, <2>1 DEF Held, PermitOfRun, IssuedTo, OtherKept, Holds
<1> QED BY <1>2, <1>3, <1>4 DEF Held

\* Resolutions, policy updates, crashes and the clock are such steps.
LEMMA OperatorHeld ==
    ASSUME TypeOK, Held, RowsMove, Operator \/ Tick \/ UNCHANGED vars
    PROVE  Held' /\ effects' = effects
<1>1. ASSUME NEW c \in Controllers, NEW p \in Policies, Crash(c, p)
      PROVE  Held' /\ effects' = effects
  <2>1. effects' = effects
    BY <1>1 DEF Crash
  <2>2. ASSUME NEW s \in Runs
        PROVE  \/ runs'[s].pc = "idle"
               \/ runs'[s] = runs[s] /\ permits'[runs[s].ctl] = permits[runs[s].ctl]
    <3>1. CASE s \in OnController(c)
      BY <1>1, <3>1 DEF Crash, IdleRun
    <3>2. CASE s \notin OnController(c) /\ runs[s].pc = "idle"
      BY <1>1, <3>2 DEF Crash
    <3>3. CASE s \notin OnController(c) /\ runs[s].pc # "idle"
      <4>1. runs[s].ctl \in Controllers \ {c}
        BY <3>3, ActiveRun DEF OnController, IsActive, ActiveRuns
      <4> QED BY <1>1, <3>3, <4>1 DEF Crash, TypeOK
    <3> QED BY <3>1, <3>2, <3>3
  <2> QED BY <2>1, <2>2, BackgroundStep
<1>2. CASE runs' = runs /\ permits' = permits /\ effects' = effects
  BY <1>2, BackgroundStep
<1> QED BY <1>1, <1>2
        DEF Operator, Resolve, RejectIntent, UpdatePolicy, UpdateMonitorPolicy, Tick, vars

\* A call begins or ends.
LEMMA CallerHeld ==
    ASSUME TypeOK, Held, RowsMove, NEW r \in Runs, Caller(r)
    PROVE  Held' /\ effects' = effects
<1>1. ASSUME NEW c \in Controllers, NEW session \in Sessions, NEW gene \in Genes,
             RunAt(r, c, session, gene)
      PROVE  Held' /\ effects' = effects
  <2>1. effects' = effects
    BY <1>1 DEF RunAt, Begin
  <2>2. Held'
    BY <1>1, BeginHeld DEF RunAt
  <2> QED BY <2>1, <2>2
<1>3. ASSUME NEW c \in Controllers, NEW session \in Sessions, NEW gene \in Genes,
             NEW a \in Approvals, NEW unrequired \in BOOLEAN,
             RunWithApproval(r, c, session, gene, a, unrequired)
      PROVE  Held' /\ effects' = effects
  <2>1. effects' = effects
    BY <1>3 DEF RunWithApproval, Begin
  <2>2. Held'
    BY <1>3, BeginHeld DEF RunWithApproval
  <2> QED BY <2>1, <2>2
<1>2. CASE \/ CreateServiceApproval(r)
           \/ \E nonce \in Nonces : CreateCliApproval(r, nonce)
           \/ Return(r)
  <2>1. effects' = effects /\ permits' = permits /\ runs[r].pc # "idle"
    BY <1>2 DEF CreateServiceApproval, CreateCliApproval, Return, Stepping, Terminal
  <2>2. runs[r] \in ActiveRuns
    BY <2>1, ActiveRun
  <2>3. \A s \in Runs \ {r} : runs'[s] = runs[s]
    BY <1>2 DEF CreateServiceApproval, CreateCliApproval, Return, TypeOK
  <2>4. runs'[r] = IdleRun \/ runs'[r] = [runs[r] EXCEPT !.pc = "error", !.receipts = << >>]
    BY <1>2 DEF CreateServiceApproval, CreateCliApproval, Return, TypeOK
  <2>5. CASE runs'[r] = IdleRun
    <3>1. runs'[r].pc = "idle"
      BY <2>5 DEF IdleRun
    <3> QED BY <2>1, <2>3, <3>1, EndHeld
  <2>6. ASSUME NEW none, runs'[r] = [runs[r] EXCEPT !.pc = "error", !.receipts = none]
        PROVE  Held'
    <3>1. runs'[r].pc = "error" /\ runs'[r].approval = runs[r].approval
      BY <2>2, <2>6 DEF ActiveRuns
    <3> QED BY <2>1, <2>3, <3>1, EndHeld DEF Terminal
  <2> QED BY <2>1, <2>4, <2>5, <2>6
<1> QED BY <1>1, <1>2, <1>3 DEF Caller

\* execute_request refuses.
LEMMA RefuseHeld ==
    ASSUME TypeOK, Held, RowsMove, NEW r \in Runs, Refuse(r)
    PROVE  Held'
<1>1. runs[r] \in ActiveRuns
  BY ActiveRun DEF Refuse, Stepping
<1>2. runs'[r] = [runs[r] EXCEPT !.pc = "failed"]
      /\ \A s \in Runs \ {r} : runs'[s] = runs[s]
  BY DEF Refuse, TypeOK
<1>3. runs'[r].pc = "failed" /\ runs'[r].approval = runs[r].approval
  BY <1>1, <1>2 DEF ActiveRuns
<1> QED BY <1>2, <1>3, EndHeld DEF Refuse, Stepping, Terminal

-----------------------------------------------------------------------------
\* The inductive invariant of the authority chain holds in every reachable state.
THEOREM AuthorityInvariant == Spec => []Inv
<1>1. Init => Inv
  <2> SUFFICES ASSUME Init PROVE Inv
    OBVIOUS
  <2>1. << >> \in Seq(StoredPermits)
    OBVIOUS
  <2>2. TypeOK
    BY <2>1 DEF Init, TypeOK, IdleRun
  <2>3. Held
    BY DEF Init, Held, ApprovalsExist, GrantHeldOnce, PermitOfRun, IsActive,
           Stepping, Holds, IdleRun
  <2>4. Done
    BY DEF Init, Done, EffectsSpend, EffectsAuthorized, OneEffectPerApproval
  <2> QED BY <2>2, <2>3, <2>4 DEF Inv, Held, Done
<1>2. Inv /\ [Next]_vars => Inv'
  <2> SUFFICES ASSUME Inv, [Next]_vars PROVE Inv'
    OBVIOUS
  <2>1. TypeOK /\ Held /\ Done
    BY DEF Inv, Held, Done
  <2>2. TypeOK'
    BY <2>1, TypeStep DEF Held
  <2>3. RowsMove
    BY <2>1, RowsMoveStep DEF Held
  <2>4. ASSUME NEW r \in Runs, RunStep(r)
        PROVE  Held' /\ Done'
    <3>1. CASE \E succeeded \in BOOLEAN : Execute(r, succeeded)
      BY <2>1, <2>3, <3>1, ExecuteHeld
    <3>2. CASE ~ \E succeeded \in BOOLEAN : Execute(r, succeeded)
      <4>1. Held'
        BY <2>1, <2>3, <2>4, <3>2, DecideHeld, ConsumeGrantHeld, AuthorizeHeld,
           ConsumePermitHeld, RefuseHeld DEF RunStep
      <4>2. effects' = effects
        BY <2>4, <3>2
        DEF RunStep, DecideRequest, ConsumeGrant, Authorize, ConsumePermit, Refuse
      <4> QED BY <2>1, <2>3, <4>1, <4>2, DoneKept
    <3> QED BY <3>1, <3>2
  <2>5. ASSUME NEW r \in Runs, Caller(r)
        PROVE  Held' /\ Done'
    BY <2>1, <2>3, <2>5, CallerHeld, DoneKept
  <2>6. ASSUME Operator \/ Tick \/ UNCHANGED vars
        PROVE  Held' /\ Done'
    <3>1. Held' /\ effects' = effects
      BY <2>1, <2>3, <2>6, OperatorHeld
    <3> QED BY <2>1, <2>3, <3>1, DoneKept
  <2>7. \/ \E r \in Runs : RunStep(r) \/ Caller(r)
        \/ Operator \/ Tick \/ UNCHANGED vars
    BY DEF Next
  <2>8. Held' /\ Done'
    BY <2>4, <2>5, <2>6, <2>7
  <2> QED BY <2>2, <2>8 DEF Inv, Held, Done
<1> QED BY <1>1, <1>2, PTL DEF Spec

\* Type correctness of the authority chain (execution_controller.rs,
\* approvals.rs, permit_store.rs).
THEOREM AuthorityTypeCorrect == Spec => []TypeOK
BY AuthorityInvariant, PTL DEF Inv

\* Complete mediation (reference_monitor.rs): every effect was allowed, or its
\* exact approval is spent, by the monitor's own verdict.
THEOREM CompleteMediation == Spec => []EffectsAuthorized
BY AuthorityInvariant, PTL DEF Inv

\* One approval, one effect (approvals.rs consume_grant), over any number of
\* processes, runs and crashes.
THEOREM ApprovalsAreOneShot == Spec => []OneEffectPerApproval
BY AuthorityInvariant, PTL DEF Inv

\* Approvals only move forward (approvals.rs resolve, consume_grant).
THEOREM ApprovalsMoveForward == Spec => ApprovalForward
<1> DEFINE Forward ==
      \A a \in Approvals :
         approvals[a] # NoApproval /\ approvals'[a] # approvals[a] =>
            <<approvals[a].status, approvals'[a].status>> \in
               {<<"pending", "approved">>, <<"pending", "denied">>,
                <<"pending", "expired">>, <<"approved", "consumed">>,
                <<"approved", "expired">>}
<1>1. Inv /\ [Next]_vars => [Forward]_vars
  <2> SUFFICES ASSUME Inv, [Next]_vars,
                      NEW a \in Approvals, approvals[a] # NoApproval,
                      approvals'[a] # approvals[a]
               PROVE  <<approvals[a].status, approvals'[a].status>> \in Moves
    BY DEF Moves
  <2>1. approvals[a] \in ApprovalRows
    BY DEF Inv, TypeOK
  <2>2. PICK s \in ApprovalStatuses :
          /\ approvals'[a] = [approvals[a] EXCEPT !.status = s]
          /\ <<approvals[a].status, s>> \in Moves
    BY RowsMoveStep DEF Inv, RowsMove, MovesRow
  <2> QED BY <2>1, <2>2 DEF ApprovalRows
<1> QED BY <1>1, AuthorityInvariant, PTL DEF Spec, ApprovalForward
=============================================================================
