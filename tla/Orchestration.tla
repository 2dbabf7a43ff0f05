----------------------------- MODULE Orchestration -----------------------------
(***************************************************************************)
(* OrchestrationStore: runs of one plan, claimed by workers, whose roles are *)
(* dispatched in dependency order under an aggregate budget.  Each call is   *)
(* one IMMEDIATE transaction over orchestration_runs, _budgets,              *)
(* _budget_reservations and _budget_reconciliations, hence one action; a     *)
(* call that fails changes nothing.  `orchestration claim' and `complete'    *)
(* call start_ready in a second transaction, so a worker may die in between. *)
(***************************************************************************)
EXTENDS Naturals, Sequences, FiniteSets, FiniteSetsExt, Functions

CONSTANTS
    Runs, Workers, Receipts, Digests, Resources,
    NoWorker, NoReceipt,
    RoleOrder,      \* the roles of the plan, in its order
    DependsOn,      \* role -> the roles it depends on
    MaxParallelism,
    Reserve,        \* role -> its reservation
    Ceiling,        \* aggregate ceiling
    MaxAmount,      \* u64::MAX
    Usages          \* measured usages: amounts, and whether the cost is known

Roles == {RoleOrder[i] : i \in DOMAIN RoleOrder}

Nothing == [r \in Resources |-> 0]
Within(a, b) == \A r \in Resources : a[r] <= b[r]
Plus(a, b) == [r \in Resources |-> a[r] + b[r]]

\* What a set of roles reserves together.
Reserved(roles) ==
    [r \in Resources |-> SumFunctionOnSet([o \in Roles |-> Reserve[o][r]], roles)]

\* OrchestrationPlan::new and validate_for_plan: no role is named twice, every
\* role has one reservation and their sum fits the ceiling.
ASSUME OrchestrationAssumption ==
    /\ NoWorker \notin Workers /\ NoReceipt \notin Receipts /\ IsFiniteSet(Runs)
    /\ "cost" \in Resources
    /\ RoleOrder \in Seq(Roles)
    /\ \A i, j \in DOMAIN RoleOrder : RoleOrder[i] = RoleOrder[j] => i = j
    /\ DependsOn \in [Roles -> SUBSET Roles]
    /\ MaxParallelism \in 1..Len(RoleOrder)
    /\ Reserve \in [Roles -> [Resources -> 0..MaxAmount]]
    /\ Ceiling \in [Resources -> 0..MaxAmount] /\ MaxAmount \in Nat
    /\ Within(Reserved(Roles), Ceiling)
    /\ Usages \subseteq [amount : [Resources -> 0..MaxAmount], known : BOOLEAN]

VARIABLES
    runs,           \* orchestration_runs
    ledger,         \* enforced_consumed of orchestration_budgets
    unknownCost,    \* unknown_cost_receipts
    reservations,   \* orchestration_budget_reservations
    reconciled,     \* orchestration_budget_reconciliations: what each charged
    dispatcher      \* history: the worker that was last given each role

orchVars == <<runs, ledger, unknownCost, reservations, reconciled, dispatcher>>

RunStatuses == {"absent", "queued", "running", "completed", "interrupted", "cancelled"}
RunRows ==
    [status : RunStatuses, worker : Workers \cup {NoWorker}, sequence : Nat,
     completed : SUBSET Roles, active : SUBSET Roles]
Reservations ==
    [state : {"none", "active", "settled", "released"}, receipt : Receipts \cup {NoReceipt},
     charge : [Resources -> 0..MaxAmount]]

Init ==
    /\ runs = [x \in Runs |-> [status |-> "absent", worker |-> NoWorker, sequence |-> 0,
                               completed |-> {}, active |-> {}]]
    /\ ledger = [x \in Runs |-> Nothing]
    /\ unknownCost = [x \in Runs |-> 0]
    /\ reservations = [x \in Runs |-> [o \in Roles |->
         [state |-> "none", receipt |-> NoReceipt, charge |-> Nothing]]]
    /\ reconciled = [x \in Runs |-> [o \in Roles |-> [d \in {} |-> Nothing]]]
    /\ dispatcher = [x \in Runs |-> [o \in Roles |-> NoWorker]]

budgetRows == <<ledger, unknownCost, reservations, reconciled>>

Submit(x) ==
    /\ runs[x].status = "absent"
    /\ runs' = [runs EXCEPT ![x].status = "queued",
                            ![x].sequence = Cardinality({y \in Runs : runs[y].sequence > 0}) + 1]
    /\ UNCHANGED <<budgetRows, dispatcher>>

Queued == {x \in Runs : runs[x].status = "queued"}

ClaimNext(x, w) ==
    /\ x \in Queued
    /\ \A y \in Queued : runs[x].sequence <= runs[y].sequence
    /\ runs' = [runs EXCEPT ![x].status = "running", ![x].worker = w]
    /\ UNCHANGED <<budgetRows, dispatcher>>

\* running_owned
Owns(x, w) == runs[x].status = "running" /\ runs[x].worker = w

-----------------------------------------------------------------------------
(* start_ready                                                               *)

\* The first n of some roles, in the order of the plan.
Before(p, o) ==
    \E i, j \in DOMAIN RoleOrder : i < j /\ RoleOrder[i] = p /\ RoleOrder[j] = o
First(roles, n) ==
    {o \in roles : Cardinality({p \in roles : Before(p, o)}) < n}

\* ready_roles of the plan, then of the run.
PlanReady(completed) ==
    First({o \in Roles \ completed : DependsOn[o] \subseteq completed}, MaxParallelism)

ReadyRoles(x) ==
    First(PlanReady(runs[x].completed) \ runs[x].active,
          MaxParallelism - Cardinality(runs[x].active))

\* sum_active_reservations, over all roles but `excluded'
ActiveReserved(x, excluded) ==
    Reserved({o \in Roles \ excluded : reservations[x][o].state = "active"})

\* Mutant: what was consumed is not counted.
CanReserveUnspent(x, roles) ==
    /\ \A o \in roles : reservations[x][o].state \in {"none", "released"}
    /\ Within(Plus(ActiveReserved(x, {}), Reserved(roles)), Ceiling)

\* reserve_role_budget for each ready role in turn; one refusal undoes them all.
CanReserve(x, roles) ==
    /\ \A o \in roles : reservations[x][o].state \in {"none", "released"}
    /\ Within(Plus(Plus(ledger[x], ActiveReserved(x, {})), Reserved(roles)), Ceiling)

StartReady(x, w) ==
    LET ready == ReadyRoles(x)
    IN /\ Owns(x, w)
       /\ ready # {}
       /\ CanReserve(x, ready)
       /\ runs' = [runs EXCEPT ![x].active = @ \cup ready]
       /\ reservations' = [reservations EXCEPT ![x] =
            [o \in Roles |-> IF o \in ready
                             THEN [state |-> "active", receipt |-> NoReceipt, charge |-> Nothing]
                             ELSE @[o]]]
       /\ dispatcher' = [dispatcher EXCEPT ![x] =
            [o \in Roles |-> IF o \in ready THEN w ELSE @[o]]]
       /\ UNCHANGED <<ledger, unknownCost, reconciled>>

-----------------------------------------------------------------------------
(* complete_role and reconcile_interrupted_role charge the ledger alike.     *)

\* Mutant: an unknown cost is charged as nothing.
EnforcedFree(o, u) ==
    IF u.known THEN u.amount ELSE [u.amount EXCEPT !["cost"] = 0]

\* An unknown cost is charged as the whole reservation.
Enforced(o, u) ==
    IF u.known THEN u.amount ELSE [u.amount EXCEPT !["cost"] = Reserve[o]["cost"]]

Chargeable(x, o, u) ==
    LET charge == Enforced(o, u)
    IN /\ reservations[x][o].state = "active"
       /\ Within(charge, Reserve[o])
       /\ Within(Plus(Plus(ledger[x], charge), ActiveReserved(x, {o})), Ceiling)

Charge(x, o, u) ==
    /\ ledger' = [ledger EXCEPT ![x] = Plus(@, Enforced(o, u))]
    /\ unknownCost' = [unknownCost EXCEPT ![x] = @ + (IF u.known THEN 0 ELSE 1)]

\* completion_receipt_id is unique over all runs.
FreshReceipt(c) == \A y \in Runs, p \in Roles : reservations[y][p].receipt # c

\* Mutant: the reservation stays active, to be released with the run.
CompleteRoleUnsettled(x, w, o, c, u) ==
    /\ Owns(x, w) /\ o \in runs[x].active
    /\ FreshReceipt(c) /\ Chargeable(x, o, u)
    /\ Charge(x, o, u)
    /\ runs' = [runs EXCEPT ![x].active = @ \ {o}, ![x].completed = @ \cup {o}]
    /\ UNCHANGED <<reservations, reconciled, dispatcher>>

CompleteRole(x, w, o, c, u) ==
    /\ Owns(x, w)
    /\ FreshReceipt(c)
    /\ Chargeable(x, o, u)
    /\ o \in runs[x].active
    /\ Charge(x, o, u)
    /\ reservations' = [reservations EXCEPT ![x][o] =
         [state |-> "settled", receipt |-> c, charge |-> Enforced(o, u)]]
    /\ runs' = [runs EXCEPT ![x].active = @ \ {o},
                            ![x].completed = @ \cup {o},
                            ![x].status = IF runs[x].completed \cup {o} = Roles
                                          THEN "completed" ELSE @]
    /\ UNCHANGED <<reconciled, dispatcher>>

MarkInterrupted(x) ==
    /\ runs[x].status = "running"
    /\ runs' = [runs EXCEPT ![x].status = "interrupted"]
    /\ UNCHANGED <<budgetRows, dispatcher>>

\* The primary key of a reconciliation holds its evidence digest.
ReconcileInterruptedRole(x, o, d, u) ==
    /\ runs[x].status = "interrupted"
    /\ o \in runs[x].active
    /\ Chargeable(x, o, u)
    /\ d \notin DOMAIN reconciled[x][o]
    /\ Charge(x, o, u)
    /\ reconciled' = [reconciled EXCEPT ![x][o] =
         [e \in DOMAIN @ \cup {d} |-> IF e = d THEN Enforced(o, u) ELSE @[e]]]
    /\ reservations' = [reservations EXCEPT ![x][o].state = "released",
                                            ![x][o].charge = Enforced(o, u)]
    /\ runs' = [runs EXCEPT ![x].active = @ \ {o}]
    /\ UNCHANGED dispatcher

\* Mutant: roles that may still run are taken back into the queue with the run.
ResumeActive(x) ==
    /\ runs[x].status = "interrupted"
    /\ runs' = [runs EXCEPT ![x].status = "queued", ![x].worker = NoWorker]
    /\ UNCHANGED <<budgetRows, dispatcher>>

Resume(x) ==
    /\ runs[x].status = "interrupted"
    /\ runs[x].active = {}
    /\ runs' = [runs EXCEPT ![x].status = "queued", ![x].worker = NoWorker]
    /\ UNCHANGED <<budgetRows, dispatcher>>

\* Only a queued run, so release_active_budget_reservations finds none to release.
Cancel(x) ==
    /\ runs[x].status = "queued"
    /\ runs' = [runs EXCEPT ![x].status = "cancelled"]
    /\ reservations' = [reservations EXCEPT ![x] =
         [o \in Roles |-> IF @[o].state = "active" THEN [@[o] EXCEPT !.state = "released"]
                          ELSE @[o]]]
    /\ UNCHANGED <<ledger, unknownCost, reconciled, dispatcher>>

Next ==
    \E x \in Runs :
        \/ Submit(x) \/ MarkInterrupted(x) \/ Resume(x) \/ Cancel(x)
        \/ \E w \in Workers : ClaimNext(x, w) \/ StartReady(x, w)
        \/ \E w \in Workers, o \in Roles, c \in Receipts, u \in Usages : CompleteRole(x, w, o, c, u)
        \/ \E o \in Roles, d \in Digests, u \in Usages : ReconcileInterruptedRole(x, o, d, u)

Spec == Init /\ [][Next]_orchVars

-----------------------------------------------------------------------------
\* validate_record and from_snapshot: otherwise the run cannot be loaded again.
TypeOK ==
    /\ runs \in [Runs -> RunRows]
    /\ reservations \in [Runs -> [Roles -> Reservations]]
    /\ ledger \in [Runs -> [Resources -> 0..MaxAmount]]
    /\ \A x \in Runs :
         /\ runs[x].worker # NoWorker <=>
               runs[x].status \in {"running", "completed", "interrupted"}
         /\ runs[x].status = "completed" => runs[x].completed = Roles
         /\ runs[x].completed \cap runs[x].active = {}

\* Snapshot and reservations agree (start_ready, complete_role,
\* reconcile_interrupted_role): a role that is active without its reservation, or
\* the reverse, could never be completed or reconciled, nor its run resumed;
\* and a snapshot that breaks TypeOK could not be loaded again.
ReservationsMatchRoles ==
    /\ TypeOK
    /\ \A x \in Runs, o \in Roles :
        /\ o \in runs[x].active <=> reservations[x][o].state = "active"
        /\ o \in runs[x].completed <=> reservations[x][o].state = "settled"
        /\ reservations[x][o].receipt # NoReceipt <=> o \in runs[x].completed

\* What receipts charged a run, and what reconciliations charged a role of it.
Settled(x, r) ==
    SumFunctionOnSet([o \in Roles |-> reservations[x][o].charge[r]], runs[x].completed)
Reconciled(x, o, r) ==
    SumFunction([d \in DOMAIN reconciled[x][o] |-> reconciled[x][o][d][r]])

\* No attempt is charged twice or not at all (settle_role_budget,
\* reconcile_failed_role_budget): the ledger is the sum of what receipts and
\* reconciliations charged, over retries and changes of worker.
LedgerMatchesAudit ==
    \A x \in Runs, r \in Resources :
        ledger[x][r] = Settled(x, r) + SumFunction([o \in Roles |-> Reconciled(x, o, r)])

\* Missing telemetry creates no capacity (settle_role_budget; ORCHESTRATION.md):
\* what a run charged in cost covers a full reservation for every attempt whose
\* cost stayed unknown (the smallest one of the plan, where they differ).
UnknownCostCharged ==
    \A x \in Runs :
        ledger[x]["cost"] >= unknownCost[x] * Min({Reserve[o]["cost"] : o \in Roles})

\* The accounts of a run: every charge once, and none too low for want of telemetry.
AccountsKept == LedgerMatchesAudit /\ UnknownCostCharged

\* A worker crash causes no replay (resume, start_ready, running_owned;
\* ORCHESTRATION.md "Crash and resume semantics"): a role in progress is in the
\* hands of the worker that holds the run; whoever was interrupted has none left.
ActiveRolesAreTheWorkers ==
    \A x \in Runs : \A o \in runs[x].active : dispatcher[x][o] = runs[x].worker

\* The plan is kept (ready_roles): roles run after what they depend on and at most
\* MaxParallelism at a time, also when a run is resumed or two completions race.
PlanKept ==
    \A x \in Runs :
        /\ Cardinality(runs[x].active) <= MaxParallelism
        /\ \A o \in runs[x].active \cup runs[x].completed :
             DependsOn[o] \subseteq runs[x].completed

\* The roles in progress: each in one worker's hands, and in the order of the plan.
RolesKept == ActiveRolesAreTheWorkers /\ PlanKept

\* The store implements the abstract budget: settled and reconciled use is spent,
\* active reservations are held.
Ledger == INSTANCE Budget WITH
            spent <- ledger,
            held <- [x \in Runs |-> ActiveReserved(x, {})]

\* Every step of the store is a step of the budget, or none.
ImplementsBudget == Ledger!BudgetSpec
================================================================================
