------------------------------ MODULE FleetBase ------------------------------
(***************************************************************************)
(* What every table of fleet.sqlite3 shares: the clock and the quiescence   *)
(* row with the guards that name it.  Each operation of FleetEngine is one  *)
(* IMMEDIATE transaction, hence one action of FleetLeases, FleetFences or   *)
(* Fleet.  A call that returns an error rolls its transaction back and is   *)
(* not an action, except where the code commits before it returns one.      *)
(***************************************************************************)
EXTENDS Naturals, FiniteSets

CONSTANTS
    Owners,         \* quiescence owners: one name per acquisition
    Durations,      \* duration_seconds of leases, fences, operations, guards
    Lag,            \* seconds a caller's `now' may age before its transaction
    MaxTime,        \* bound: clock
    NoOwner         \* no quiescence row

ASSUME FleetBaseAssumption ==
    /\ Durations \subseteq Nat \ {0}
    /\ Lag \in Nat
    /\ MaxTime \in Nat
    /\ NoOwner \notin Owners

VARIABLES
    clock,          \* wall clock, which is also the TrustedClock
    quiescence,     \* the row of fleet_quiescence
    guards          \* FleetQuiescenceGuards: what each owner holds

baseVars == <<clock, quiescence, guards>>

NoQuiescence == [owner |-> NoOwner, expires |-> 0]
QuiescenceRows == [owner : Owners, expires : Nat] \cup {NoQuiescence}
GuardStates == {"none", "held", "dropped"}
Guards == [state : GuardStates, expires : Nat]

\* The values of `now' a caller may pass: sampled before it waited for the
\* connection mutex and for SQLite's write lock.
Samples == {t \in 0..MaxTime : t <= clock /\ clock <= t + Lag}

\* DELETE FROM fleet_quiescence WHERE expires_at <= now
Purged(now) ==
    IF quiescence # NoQuiescence /\ quiescence.expires <= now
    THEN NoQuiescence ELSE quiescence

\* ensure_work_permitted: purges, then refuses while a row remains.
WorkPermitted(now) == Purged(now) = NoQuiescence

BaseInit ==
    /\ clock = 0
    /\ quiescence = NoQuiescence
    /\ guards = [o \in Owners |-> [state |-> "none", expires |-> 0]]

\* Mutant: the guard deletes whatever row there is.
DropsAnyRow(o) == NoQuiescence

\* Drop for FleetQuiescenceGuard: DELETE ... WHERE id = 1 AND owner = ?1
RowAfterDrop(o) == IF quiescence.owner = o THEN NoQuiescence ELSE quiescence

\* A guard that still "holds": its holder has neither dropped it nor outlived it.
Quiescent == \E o \in Owners : guards[o].state = "held" /\ clock < guards[o].expires

BaseTypeOK ==
    /\ clock \in Nat
    /\ quiescence \in QuiescenceRows
    /\ guards \in [Owners -> Guards]
=============================================================================
