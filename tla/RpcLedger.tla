------------------------------ MODULE RpcLedger ------------------------------
(***************************************************************************)
(* DurableRpcLedger: the table rpc_idempotency, which decides whether a     *)
(* mutating RPC is executed, answered from the table, or refused.  begin    *)
(* and complete are one IMMEDIATE transaction each.                         *)
(*                                                                         *)
(* A request is a record with the key its client gave it; two requests have *)
(* the same method and digest iff they are the same record.  Scopes are     *)
(* left out: a scope and a key form the primary key together.               *)
(***************************************************************************)
EXTENDS Naturals, FiniteSets

CONSTANTS
    Requests,       \* [key, method, target]: what clients ask for
    IdempotencyKeys,
    NoRequest,      \* the request of an absent row
    Responses,      \* what the runtime may answer
    NoResponse,
    MaxLedgerRows   \* MAX_LEDGER_ROWS

ASSUME LedgerAssumption ==
    /\ \A r \in Requests : r.key \in IdempotencyKeys
    /\ IsFiniteSet(IdempotencyKeys)
    /\ NoRequest \notin Requests /\ NoResponse \notin Responses
    /\ MaxLedgerRows \in Nat

VARIABLE ledger

LedgerStates == {"absent", "pending", "completed"}
LedgerRows == [state : LedgerStates, request : Requests \cup {NoRequest},
               response : Responses \cup {NoResponse}]

LedgerInit ==
    ledger = [k \in IdempotencyKeys |->
        [state |-> "absent", request |-> NoRequest, response |-> NoResponse]]

LedgerFull == Cardinality({k \in IdempotencyKeys : ledger[k].state # "absent"}) >= MaxLedgerRows

\* Mutant: a request that was interrupted is executed again.
RpcBeginAgain(r) ==
    LET row == ledger[r.key]
    IN IF row.state = "absent" THEN (IF LedgerFull THEN "unavailable" ELSE "execute")
       ELSE IF row.request # r THEN "conflict"
       ELSE IF row.state = "pending" THEN "execute" ELSE "replay"

\* What begin answers.
RpcBegin(r) ==
    LET row == ledger[r.key]
    IN IF row.state = "absent" THEN (IF LedgerFull THEN "unavailable" ELSE "execute")
       ELSE IF row.request # r THEN "conflict"
       ELSE IF row.state = "pending" THEN "in_progress" ELSE "replay"

\* The INSERT of a request that is to be executed.
Reserve(r) ==
    ledger' = [ledger EXCEPT ![r.key] =
        [state |-> "pending", request |-> r, response |-> NoResponse]]

\* complete.  A completed row takes only the response it already has.
Complete(r, response) ==
    /\ ledger[r.key].request = r
    /\ \/ ledger[r.key].state = "pending"
       \/ ledger[r.key].state = "completed" /\ ledger[r.key].response = response
    /\ ledger' = [ledger EXCEPT ![r.key].state = "completed",
                                ![r.key].response = response]

LedgerTypeOK == ledger \in [IdempotencyKeys -> LedgerRows]
=============================================================================
