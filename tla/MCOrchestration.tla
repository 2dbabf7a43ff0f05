---------------------------- MODULE MCOrchestration ----------------------------
(* Small plans for Orchestration.  Tokens stand for the three resources that     *)
(* are always measured, cost is the one that may be unknown.                     *)
EXTENDS Orchestration, TLC

MCResources == {"tokens", "cost"}
Amount(t, c) == [r \in MCResources |-> IF r = "tokens" THEN t ELSE c]

\* Two roles wait for a third that comes after them in the plan, beside one that is
\* independent; two at a time.
MCRoleOrder == <<"make", "check", "plan", "watch">>
MCDependsOn ==
    [o \in {"make", "check", "plan", "watch"} |->
        IF o \in {"make", "check"} THEN {"plan"} ELSE {}]
MCReserve == [o \in {"make", "check", "plan", "watch"} |-> Amount(2, 1)]
MCCeiling == Amount(10, 5)

MCUsages ==
    {[amount |-> Amount(1, 1), known |-> TRUE], [amount |-> Amount(2, 0), known |-> FALSE]}

Symmetry == Permutations(Workers) \cup Permutations(Receipts) \cup Permutations(Digests)
================================================================================
