----------------------------- MODULE Governance -----------------------------
(***************************************************************************)
(* The pure decisions of the authority chain: what Parliament decides for  *)
(* a request, when the ReferenceMonitor accepts that decision, when a      *)
(* permit may be used and what an approval row means at a given time.      *)
(*                                                                         *)
(* A request is identified with its digest: OperationRequest hashes every  *)
(* field that matters to authority (execution, session, principal, gene,   *)
(* capability, operation, target, payload), and SHA-256 is taken to be     *)
(* injective.                                                              *)
(***************************************************************************)
EXTENDS Naturals

CONSTANTS
    Sessions,       \* SessionId; a session determines its principal
    Genes,          \* GeneId
    Capabilities,   \* Capability
    Operations,     \* Operation
    GeneEffect,     \* the capability, operation and number of targets of a gene
    Policies        \* the PolicyContexts a controller may be given

Effects == [capability : Capabilities, operation : Operations, targets : Nat]

ASSUME GovernanceAssumption ==
    /\ GeneEffect \in [Genes -> Effects]
    /\ \A p \in Policies :
         p \in [version : Nat, allowed : SUBSET Capabilities,
               approval : SUBSET Operations]

\* OperationRequest::new: the n-th request a gene plans for one execution.
Request(session, execution, gene, n) ==
    [session |-> session, execution |-> execution, gene |-> gene, target |-> n]

Requests == [session : Sessions, execution : Nat, gene : Genes, target : Nat]

\* ParliamentDecision
Outcomes == {"Allow", "Deny", "RequireApproval"}
Decisions == [outcome : Outcomes, request : Requests, version : Nat]

\* Parliament::decide for a Parliament of the given version.
Decide(version, request, policy) ==
    [ outcome |->
        IF \/ policy.version # version
           \/ GeneEffect[request.gene].capability \notin policy.allowed
        THEN "Deny"
        ELSE IF GeneEffect[request.gene].operation \in policy.approval
        THEN "RequireApproval"
        ELSE "Allow",
      request |-> request,
      version |-> policy.version ]

\* ReferenceMonitor::validate_decision against the monitor's own policy.
ValidDecision(request, decision, policy) ==
    /\ Decide(policy.version, request, policy) = decision
    /\ decision.request = request
    /\ decision.version = policy.version

-----------------------------------------------------------------------------
\* PermitStore: a stored permit, and the checks of consume in their order.
PermitStates == {"active", "consumed"}
Permits == [request : Requests, version : Nat, issued : Nat, expires : Nat]

PermitUsable(stored, permit, request, now) ==
    /\ stored.permit = permit
    /\ stored.state # "consumed"
    /\ now >= stored.permit.issued
    /\ now < stored.permit.expires
    /\ request = stored.permit.request

-----------------------------------------------------------------------------
\* Approval rows (the approvals table) and their derived status.
ApprovalStatuses == {"pending", "approved", "denied", "consumed", "expired"}
ApprovalRows == [request : Requests, version : Nat, expires : Nat,
                 status : ApprovalStatuses]

\* PendingApproval::status_at
StatusAt(row, now) ==
    IF row.status \in {"pending", "approved"} /\ now >= row.expires
    THEN "expired"
    ELSE row.status

\* ApprovalGrant::matches: session, execution, gene and digest are the request's.
GrantMatches(row, request, version) ==
    /\ row.request = request
    /\ row.version = version
=============================================================================
