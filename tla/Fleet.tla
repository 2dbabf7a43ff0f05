-------------------------------- MODULE Fleet --------------------------------
(***************************************************************************)
(* FleetEngine as a whole: workers (FleetLeases) and fences (FleetFences)   *)
(* under one clock, and the quiescence guard that must see both.            *)
(***************************************************************************)
EXTENDS FleetLeases, FleetFences

vars == <<baseVars, leaseVars, fenceVars>>

Init == BaseInit /\ LeasesInit /\ FencesInit

\* acquire_quiescence: expire elapsed leases, purge an elapsed row, and refuse
\* while a row, an active lease or a live operation remains.  A refusal rolls
\* the expiries back.
AcquireQuiescence(o, now, d) ==
    /\ guards[o].state = "none"
    /\ Purged(now) = NoQuiescence
    /\ \A l \in Leases : Expired(Leases, now)[l].state # "active"
    /\ \A p \in OperationRowsPresent : operations[p].expires <= clock
    /\ leases' = Expired(Leases, now)
    /\ quiescence' = [owner |-> o, expires |-> now + d]
    /\ guards' = [guards EXCEPT ![o] = [state |-> "held", expires |-> now + d]]
    /\ UNCHANGED <<clock, nodes, supervisors, fenceVars>>

\* The guard goes out of scope, in time or late.
DropGuard(o) ==
    /\ guards[o].state = "held"
    /\ quiescence' = RowAfterDrop(o)
    /\ guards' = [guards EXCEPT ![o].state = "dropped"]
    /\ UNCHANGED <<clock, leaseVars, fenceVars>>

Tick ==
    /\ clock < MaxTime
    /\ clock' = clock + 1
    /\ UNCHANGED <<quiescence, guards, leaseVars, fenceVars>>

QuiescenceStep ==
    \/ \E o \in Owners, now \in Samples, d \in Durations : AcquireQuiescence(o, now, d)
    \/ \E o \in Owners : DropGuard(o)

Next ==
    \/ LeasesNext /\ UNCHANGED fenceVars
    \/ FencesNext /\ UNCHANGED leaseVars
    \/ QuiescenceStep
    \/ Tick

Spec == Init /\ [][Next]_vars

-----------------------------------------------------------------------------
TypeOK == BaseTypeOK /\ LeasesTypeOK /\ FencesTypeOK

\* Quiescence excludes workers (acquire_quiescence, ensure_work_permitted, Drop
\* for FleetQuiescenceGuard): while a guard is held and has not run out, no
\* lease is active, whatever an earlier guard's late drop does to the table.
QuiescenceExcludesLeases ==
    Quiescent => \A l \in Leases : leases[l].state # "active"

\* What makes it inductive: such a guard's row is in the table.
GuardRow ==
    \A o \in Owners :
        guards[o].state = "held" /\ clock < guards[o].expires =>
            quiescence = [owner |-> o, expires |-> guards[o].expires]

\* The inductive invariant.
Inv ==
    /\ TypeOK
    /\ LeaseBookkeeping /\ NoLeaseOnStoppedNode /\ ActiveLeaseOfGeneration
    /\ OperationBookkeeping /\ OneOperationPerFence /\ OperationPinsFence
    /\ ReleasedByItsHolder
    /\ GuardRow /\ QuiescenceExcludesLeases
=============================================================================
