-------------------------------- MODULE Budget --------------------------------
(***************************************************************************)
(* What the orchestration budget promises, without roles, receipts, workers  *)
(* or tables (docs/ORCHESTRATION.md: "At all times the store enforces         *)
(* enforced_consumed + active_reservations <= aggregate_ceiling"): capacity   *)
(* is held before it is spent, a hold is spent in part or in full once, and   *)
(* what was spent is never given back.  Orchestration implements it.          *)
(***************************************************************************)
EXTENDS Naturals

CONSTANTS
    Runs,           \* each has a budget of its own
    Resources,      \* tokens, tools, elapsed time, cost
    Ceiling         \* aggregate ceiling, the same for every run here

Amounts == [Resources -> Nat]
Ledgers == [Runs -> Amounts]

VARIABLES spent, held

budgetVars == <<spent, held>>

Plus(a, b) == [r \in Resources |-> a[r] + b[r]]
Within(a, b) == \A r \in Resources : a[r] <= b[r]
Nothing == [r \in Resources |-> 0]

BudgetInit ==
    /\ spent = [x \in Runs |-> Nothing]
    /\ held = [x \in Runs |-> Nothing]

\* Only the budget of x moves.
Only(x) ==
    /\ spent' \in Ledgers /\ held' \in Ledgers
    /\ \A y \in Runs \ {x} : spent'[y] = spent[y] /\ held'[y] = held[y]

\* More is held, as far as the ceiling allows.
Hold(x) ==
    /\ Only(x)
    /\ spent'[x] = spent[x]
    /\ Within(held[x], held'[x])
    /\ Within(Plus(spent[x], held'[x]), Ceiling)

\* Of what was held, a part is spent and a part is free again.
Spend(x) ==
    /\ Only(x)
    /\ Within(spent[x], spent'[x])
    /\ Within(held'[x], held[x])
    /\ Within(Plus(spent'[x], held'[x]), Plus(spent[x], held[x]))

BudgetNext == \E x \in Runs : Hold(x) \/ Spend(x)

BudgetSpec == BudgetInit /\ [][BudgetNext]_budgetVars

\* The promise: no run is committed beyond its ceiling, in any resource.
WithinCeiling == \A x \in Runs : Within(Plus(spent[x], held[x]), Ceiling)

\* What was spent stays spent.
NeverRefunded == [][\A x \in Runs : Within(spent[x], spent'[x])]_budgetVars
===============================================================================
