----------------------------- MODULE FleetFences -----------------------------
(***************************************************************************)
(* The fencing half of FleetEngine: one row per fence key with a growing    *)
(* generation, and the operations that pin a fence while they run.          *)
(*                                                                         *)
(* A FleetLeaseFence handle is a key and a generation: owner, issue time    *)
(* and token are fixed when the generation is, and the token is never       *)
(* guessed.  A FenceOperationGuard is its operation's row as of the last    *)
(* call of its holder, the only one who writes that row.                    *)
(***************************************************************************)
EXTENDS FleetBase

CONSTANTS
    Keys,           \* fence keys
    FenceOwners,    \* fence owner ids
    NoFenceOwner,   \* the owner of a fence that was never acquired
    Operations,     \* operation hashes: random, so never used twice
    NoKey,          \* the key of an operation that never was
    MaxFleetFences,         \* MAX_FLEET_FENCES
    MaxFenceOperationRows,  \* MAX_FENCE_OPERATION_ROWS
    RecoveryLimits, \* the limits recover_expired_fence_operations is called with
    MaxFenceGeneration      \* bound: fence generations

ASSUME FleetFencesAssumption ==
    /\ NoFenceOwner \notin FenceOwners
    /\ NoKey \notin Keys
    /\ {MaxFleetFences, MaxFenceOperationRows, MaxFenceGeneration} \subseteq Nat
    /\ RecoveryLimits \subseteq Nat \ {0}
    /\ IsFiniteSet(Keys) /\ IsFiniteSet(Operations)

VARIABLES
    fences,         \* fleet_fences
    operations,     \* fleet_fence_operations; a deleted row is "removed"
    relinquished    \* history: the generations whose holder released them, or
                    \* whose owner had them invalidated

fenceVars == <<fences, operations, relinquished>>

FenceStates == {"absent", "active", "released", "expired"}
OperationStates == {"unused", "present", "removed"}

FenceRows == [state : FenceStates, owner : FenceOwners \cup {NoFenceOwner},
              generation : Nat, issued : Nat, expires : Nat]
OperationRows == [state : OperationStates, key : Keys \cup {NoKey},
                  owner : FenceOwners \cup {NoFenceOwner}, generation : Nat,
                  issued : Nat, expires : Nat]

OperationsOn(k) ==
    {o \in Operations : operations[o].state = "present" /\ operations[o].key = k}
OperationRowsPresent == {o \in Operations : operations[o].state = "present"}

\* The handles that were ever given out for a key.
Handles(k) == 1..fences[k].generation

\* Mutant: validate_fence compares state and times, not the generation, and
\* neither does the UPDATE that follows it.
FenceValidForAny(k, g, now) ==
    /\ fences[k].state = "active"
    /\ now < fences[k].expires
    /\ fences[k].issued <= now

\* validate_fence
FenceValid(k, g, now) ==
    /\ fences[k].state = "active"
    /\ now < fences[k].expires
    /\ fences[k].issued <= now
    /\ fences[k].generation = g

\* Mutant: an expired operation that was not reaped no longer blocks.
UnblockedByExpired(k) == \A o \in OperationsOn(k) : operations[o].expires <= clock

\* block_fence_mutation: FenceOperationActive for a live operation,
\* FenceOperationRecoveryRequired for an expired one; either way it refuses.
Unblocked(k) == OperationsOn(k) = {}

FencesInit ==
    /\ fences = [k \in Keys |->
         [state |-> "absent", owner |-> NoFenceOwner, generation |-> 0,
          issued |-> 0, expires |-> 0]]
    /\ operations = [o \in Operations |->
         [state |-> "unused", key |-> NoKey, owner |-> NoFenceOwner,
          generation |-> 0, issued |-> 0, expires |-> 0]]
    /\ relinquished = {}

-----------------------------------------------------------------------------
\* Mutant: a fence acquired anew after a release starts from generation one.
NextGenerationRestarts(k) ==
    IF fences[k].state = "released" THEN 1 ELSE fences[k].generation + 1

\* The generation of the next acquisition: one more than the row's, 1 without a row.
NextGeneration(k) == fences[k].generation + 1

AcquireFence(k, owner, now, d) ==
    /\ WorkPermitted(now)
    /\ Unblocked(k)
    /\ fences[k].state = "absent" =>
         Cardinality({j \in Keys : fences[j].state # "absent"}) < MaxFleetFences
    /\ fences[k].state = "active" => fences[k].expires <= now
    /\ fences[k].generation < MaxFenceGeneration
    /\ fences' = [fences EXCEPT ![k] =
         [state |-> "active", owner |-> owner, generation |-> NextGeneration(k),
          issued |-> now, expires |-> now + d]]
    /\ quiescence' = Purged(now)
    /\ UNCHANGED <<operations, relinquished, clock, guards>>

\* invalidate_fence, by the owner's name and without a handle.
InvalidateFence(k, owner) ==
    /\ Unblocked(k)
    /\ fences[k].state = "active"
    /\ fences[k].owner = owner
    /\ fences' = [fences EXCEPT ![k].state = "released"]
    /\ relinquished' = relinquished \cup {<<k, fences[k].generation>>}
    /\ UNCHANGED <<operations, baseVars>>

\* renew_fence: a live operation allows only an extension beyond its own expiry.
\* Whether it lives is decided by a trusted time read before the lock.  Without
\* an operation the new expiry may be earlier than the old.
RenewFence(k, g, now, d) ==
    /\ \E trusted \in Samples : \A o \in OperationsOn(k) :
         operations[o].expires > trusted /\ now + d > operations[o].expires
    /\ FenceValid(k, g, now)
    /\ fences' = [fences EXCEPT ![k].expires = now + d]
    /\ UNCHANGED <<operations, relinquished, baseVars>>

\* release_fence.  Workers that shut down pass one second before the expiry.
ReleaseFence(k, g, now) ==
    /\ Unblocked(k)
    /\ FenceValid(k, g, now)
    /\ fences' = [fences EXCEPT ![k].state = "released"]
    /\ relinquished' = relinquished \cup {<<k, g>>}
    /\ UNCHANGED <<operations, baseVars>>

\* expire_fences: all elapsed fences, or none if one of them is blocked.
Elapsed(now) == {k \in Keys : fences[k].state = "active" /\ fences[k].expires <= now}

ExpireFences(now) ==
    /\ \A k \in Elapsed(now) : Unblocked(k)
    /\ fences' = [k \in Keys |->
         IF k \in Elapsed(now) THEN [fences[k] EXCEPT !.state = "expired"]
         ELSE fences[k]]
    /\ UNCHANGED <<operations, relinquished, baseVars>>

-----------------------------------------------------------------------------
\* Mutant: a second operation may start beside a first.
StartsBesideAnother(k) == \A o \in OperationsOn(k) : operations[o].expires > clock

\* acquire_fence_operation asks for no row of the fence, live or expired.
NoOperationYet(k) == OperationsOn(k) = {}

AcquireFenceOperation(o, k, g, d) ==
    /\ WorkPermitted(clock)
    /\ FenceValid(k, g, clock)
    /\ NoOperationYet(k)
    /\ Cardinality(OperationRowsPresent) < MaxFenceOperationRows
    /\ operations[o].state = "unused"
    /\ operations' = [operations EXCEPT ![o] =
         [state |-> "present", key |-> k, owner |-> fences[k].owner,
          generation |-> g, issued |-> fences[k].issued,
          expires |-> IF clock + d <= fences[k].expires THEN clock + d
                      ELSE fences[k].expires]]
    /\ quiescence' = Purged(clock)
    /\ UNCHANGED <<fences, relinquished, clock, guards>>

\* renew_fence_operation: longer than before, within the fence.  Neither the
\* operation's own expiry nor quiescence is looked at.
RenewFenceOperation(o, d) ==
    LET op == operations[o]
    IN /\ op.state = "present"
       /\ clock + d <= fences[op.key].expires
       /\ clock + d > op.expires
       /\ operations' = [operations EXCEPT ![o].expires = clock + d]
       /\ UNCHANGED <<fences, relinquished, baseVars>>

ReleaseFenceOperation(o) ==
    /\ operations[o].state = "present"
    /\ operations' = [operations EXCEPT ![o].state = "removed"]
    /\ UNCHANGED <<fences, relinquished, baseVars>>

\* recover_expired_fence_operations: the `limit' oldest expired rows.
RecoverExpired(limit) ==
    LET expired == {o \in OperationRowsPresent : operations[o].expires <= clock}
    IN \E removed \in SUBSET expired :
        /\ removed # {}
        /\ removed = expired \/ Cardinality(removed) = limit
        /\ Cardinality(removed) <= limit
        /\ \A o \in removed, q \in expired \ removed :
             operations[o].expires <= operations[q].expires
        /\ operations' = [o \in Operations |->
             IF o \in removed THEN [operations[o] EXCEPT !.state = "removed"]
             ELSE operations[o]]
        /\ UNCHANGED <<fences, relinquished, baseVars>>

-----------------------------------------------------------------------------
FenceStep ==
    \/ \E k \in Keys, now \in Samples, d \in Durations :
         \/ \E owner \in FenceOwners : AcquireFence(k, owner, now, d)
         \/ \E g \in Handles(k) : RenewFence(k, g, now, d)
    \/ \E k \in Keys, owner \in FenceOwners : InvalidateFence(k, owner)
    \/ \E k \in Keys : \E g \in Handles(k), now \in Samples \cup {fences[k].expires - 1} :
         ReleaseFence(k, g, now)
    \/ \E now \in Samples : ExpireFences(now)

OperationStep ==
    \/ \E o \in Operations, d \in Durations :
         \/ \E k \in Keys : \E g \in Handles(k) : AcquireFenceOperation(o, k, g, d)
         \/ RenewFenceOperation(o, d)
    \/ \E o \in Operations : ReleaseFenceOperation(o)
    \/ \E limit \in RecoveryLimits : RecoverExpired(limit)

FencesNext == FenceStep \/ OperationStep

-----------------------------------------------------------------------------
FencesTypeOK ==
    /\ fences \in [Keys -> FenceRows]
    /\ operations \in [Operations -> OperationRows]
    /\ relinquished \subseteq Keys \X Nat

\* The registry's own invariant (operation_for_fence: "The schema allows it; the
\* invariant does not"): a fence never has two operation rows, so the lookup
\* never reports corruption.
OneOperationPerFence ==
    \A o, q \in OperationRowsPresent : operations[o].key = operations[q].key => o = q

\* An operation pins its fence (block_fence_mutation, acquire_fence_operation
\* "an operation can never outlive the authority it was granted under"): while
\* its row exists, live or not, the fence is still the one it was granted on,
\* still active in the table, and expires no earlier than the operation.
OperationPinsFence ==
    \A o \in OperationRowsPresent :
        LET op == operations[o]
            fence == fences[op.key]
        IN /\ fence.state = "active"
           /\ fence.owner = op.owner
           /\ fence.generation = op.generation
           /\ fence.issued = op.issued
           /\ op.expires <= fence.expires

\* What makes the two above inductive: a row names a key.
OperationBookkeeping == \A o \in OperationRowsPresent : operations[o].key \in Keys

\* A superseded holder does no harm (validate_fence, release_fence,
\* invalidate_fence): a generation is released only by its own holder or in its
\* owner's name, however late an older holder calls.
ReleasedByItsHolder ==
    \A k \in Keys :
        fences[k].state = "released" => <<k, fences[k].generation>> \in relinquished

\* Fencing tokens grow (acquire_fence): a key's generation never decreases; a
\* fence that ended becomes active, and its owner or issue time changes, only
\* under a new generation.
FencingMonotone ==
    [][\A k \in Keys :
         \/ fences'[k].generation > fences[k].generation
         \/ /\ fences'[k].generation = fences[k].generation
            /\ fences'[k].owner = fences[k].owner
            /\ fences'[k].issued = fences[k].issued
            /\ fences'[k].state = "active" => fences[k].state = "active"]_<<baseVars, fenceVars>>
=============================================================================
