----------------------------- MODULE FleetProofs -----------------------------
(***************************************************************************)
(* FleetEngine, for every set of nodes, leases, keys, owners, operations    *)
(* and processes: the tables keep their types, and Inv of Fleet is          *)
(* inductive.                                                              *)
(***************************************************************************)
EXTENDS Fleet, TLAPS

-----------------------------------------------------------------------------
(* Facts about the helpers. *)

\* A caller's `now' is a time, and not a future one.
LEMMA SampleType ==
    ASSUME BaseTypeOK, NEW now \in Samples
    PROVE  now \in Nat /\ now <= clock
BY FleetBaseAssumption DEF Samples, BaseTypeOK

\* Durations are positive times.
LEMMA DurationType ==
    ASSUME NEW d \in Durations
    PROVE  d \in Nat /\ d > 0
BY FleetBaseAssumption

\* Purging leaves a row of the table.
LEMMA PurgedType ==
    ASSUME BaseTypeOK, NEW now
    PROVE  Purged(now) \in QuiescenceRows
BY DEF Purged, BaseTypeOK, QuiescenceRows

\* Expiry changes the state of active leases only, and only to "expired".
LEMMA ExpiredFacts ==
    ASSUME LeasesTypeOK, NEW ls, NEW now
    PROVE  /\ Expired(ls, now) \in [Leases -> LeaseRows]
           /\ \A l \in Leases :
                /\ Expired(ls, now)[l].node = leases[l].node
                /\ Expired(ls, now)[l].generation = leases[l].generation
                /\ Expired(ls, now)[l].state = "active" =>
                     Expired(ls, now)[l] = leases[l]
                /\ leases[l].state # "active" => Expired(ls, now)[l] = leases[l]
BY DEF LeasesTypeOK, Expired, LeaseRows, LeaseStates

-----------------------------------------------------------------------------
(* Type correctness, one half of the engine at a time. *)

\* A step of nodes, supervisors or leases keeps their types and the base's.
LEMMA LeasesTypeStep ==
    ASSUME BaseTypeOK, LeasesTypeOK, LeasesNext
    PROVE  BaseTypeOK' /\ LeasesTypeOK'
<1> USE DEF BaseTypeOK, LeasesTypeOK
<1>1. CASE NodeStep
  <2>1. \A n \in Nodes : RegisterNode(n) => BaseTypeOK' /\ LeasesTypeOK'
    BY DEF RegisterNode, NodeStates, baseVars
  <2>2. ASSUME NEW n \in Nodes, NEW s \in NodeStates, NEW t \in LeaseStates,
               TransitionNode(n, s, t)
        PROVE  BaseTypeOK' /\ LeasesTypeOK'
    BY <2>2 DEF TransitionNode, LeaseRows, baseVars
  <2>3. \A n \in Nodes : QuarantineNode(n) \/ RevokeNode(n) \/ KillNode(n)
                            => BaseTypeOK' /\ LeasesTypeOK'
    BY <2>2 DEF QuarantineNode, RevokeNode, KillNode, NodeStates, LeaseStates
  <2> QED BY <1>1, <2>1, <2>3 DEF NodeStep
<1>2. CASE SupervisorStep
  <2> PICK n \in Nodes, now \in Samples :
        \/ \E p \in Processes \cup {NoProcess} :
             StartSupervisor(n, p, now) \/ HeartbeatSupervisor(n, p, now)
        \/ \E p \in Processes :
             \/ RestartSupervisor(n, p, now)
             \/ \E l \in Leases : ShutdownSupervisor(n, p, l, now)
        \/ ReconcileSupervisor(n, now)
        \/ DrainSupervisor(n, now)
        \/ StopSupervisor(n, now)
        \/ RecoverSupervisor(n, now)
    BY <1>2 DEF SupervisorStep
  <2>1. now \in Nat
    BY SampleType
  <2>2. ASSUME NEW p \in Processes \cup {NoProcess},
               StartSupervisor(n, p, now) \/ HeartbeatSupervisor(n, p, now)
        PROVE  BaseTypeOK' /\ LeasesTypeOK'
    BY <2>1, <2>2
    DEF StartSupervisor, HeartbeatSupervisor, Supervisors, SupervisorStates, baseVars
  <2>3. ASSUME NEW p \in Processes, RestartSupervisor(n, p, now)
        PROVE  BaseTypeOK' /\ LeasesTypeOK'
    <3>1. leases' \in [Leases -> LeaseRows]
      BY <2>3, ExpiredFacts DEF RestartSupervisor
    <3> QED BY <2>1, <2>3, <3>1
            DEF RestartSupervisor, Supervisors, SupervisorStates, baseVars
  <2>4. ASSUME NEW p \in Processes, NEW l \in Leases, ShutdownSupervisor(n, p, l, now)
        PROVE  BaseTypeOK' /\ LeasesTypeOK'
    <3>1. leases' \in [Leases -> LeaseRows]
      BY <2>4 DEF ShutdownSupervisor, LeaseRows, LeaseStates
    <3>2. [supervisors EXCEPT ![n].state = "stopped", ![n].updated = now]
             \in [Nodes -> Supervisors]
      BY <2>1 DEF Supervisors, SupervisorStates
    <3> QED BY <2>4, <3>1, <3>2 DEF ShutdownSupervisor, baseVars
  <2>5. CASE ReconcileSupervisor(n, now) \/ RecoverSupervisor(n, now)
    <3>1. leases' \in [Leases -> LeaseRows]
      BY <2>5, ExpiredFacts DEF ReconcileSupervisor, RecoverSupervisor
    <3> QED BY <2>1, <2>5, <3>1
            DEF ReconcileSupervisor, RecoverSupervisor, Supervisors,
                SupervisorStates, baseVars
  <2>6. CASE DrainSupervisor(n, now) \/ StopSupervisor(n, now)
    BY <2>1, <2>6
    DEF DrainSupervisor, StopSupervisor, Supervisors, SupervisorStates, baseVars
  <2> QED BY <2>2, <2>3, <2>4, <2>5, <2>6
<1>3. CASE LeaseStep
  <2>1. ASSUME NEW l \in Leases, NEW n \in Nodes, NEW now \in Samples,
               NEW d \in Durations, AcquireLease(l, n, now, d)
        PROVE  BaseTypeOK' /\ LeasesTypeOK'
    <3>1. now + d \in Nat
      BY SampleType, DurationType
    <3>2. supervisors[n].generation \in Nat
      BY DEF Supervisors
    <3>3. leases' \in [Leases -> LeaseRows]
      BY <2>1, <3>1, <3>2 DEF AcquireLease, LeaseRows, LeaseStates
    <3> QED BY <2>1, <3>3, PurgedType DEF AcquireLease
  <2>2. ASSUME NEW l \in Leases, NEW now \in Samples, NEW d \in Durations,
               RenewLease(l, now, d)
        PROVE  BaseTypeOK' /\ LeasesTypeOK'
    <3>1. now + d \in Nat
      BY SampleType, DurationType
    <3>2. leases' \in [Leases -> LeaseRows]
      BY <2>2, <3>1 DEF RenewLease, LeaseRows, LeaseStates
    <3> QED BY <2>2, <3>2, PurgedType DEF RenewLease
  <2>3. \A l \in Leases : ReleaseLease(l) => BaseTypeOK' /\ LeasesTypeOK'
    BY DEF ReleaseLease, LeaseRows, LeaseStates, baseVars
  <2>4. \A now \in Samples : ExpireLeases(now) => BaseTypeOK' /\ LeasesTypeOK'
    BY ExpiredFacts DEF ExpireLeases, baseVars
  <2> QED BY <1>3, <2>1, <2>2, <2>3, <2>4 DEF LeaseStep
<1> QED BY <1>1, <1>2, <1>3 DEF LeasesNext

\* A step of fences or operations keeps their types and the base's.
LEMMA FencesTypeStep ==
    ASSUME BaseTypeOK, FencesTypeOK, FencesNext
    PROVE  BaseTypeOK' /\ FencesTypeOK'
<1> USE DEF BaseTypeOK, FencesTypeOK
<1>1. CASE FenceStep
  <2>1. ASSUME NEW k \in Keys, NEW owner \in FenceOwners, NEW now \in Samples,
               NEW d \in Durations, AcquireFence(k, owner, now, d)
        PROVE  BaseTypeOK' /\ FencesTypeOK'
    <3>1. now \in Nat /\ now + d \in Nat /\ NextGeneration(k) \in Nat
      BY SampleType, DurationType DEF NextGeneration, FenceRows
    <3>2. fences' \in [Keys -> FenceRows]
      BY <2>1, <3>1 DEF AcquireFence, FenceRows, FenceStates
    <3> QED BY <2>1, <3>2, PurgedType DEF AcquireFence
  <2>2. ASSUME NEW k \in Keys, NEW g \in Handles(k), NEW now \in Samples,
               NEW d \in Durations, RenewFence(k, g, now, d)
        PROVE  BaseTypeOK' /\ FencesTypeOK'
    <3>1. now + d \in Nat
      BY SampleType, DurationType
    <3> QED BY <2>2, <3>1 DEF RenewFence, FenceRows, baseVars
  <2>3. ASSUME NEW k \in Keys, NEW owner \in FenceOwners, InvalidateFence(k, owner)
        PROVE  BaseTypeOK' /\ FencesTypeOK'
    BY <2>3 DEF InvalidateFence, FenceRows, FenceStates, baseVars
  <2>4. ASSUME NEW k \in Keys, NEW g \in Handles(k), NEW now, ReleaseFence(k, g, now)
        PROVE  BaseTypeOK' /\ FencesTypeOK'
    <3>1. g \in Nat
      BY DEF Handles, FenceRows
    <3> QED BY <2>4, <3>1 DEF ReleaseFence, FenceRows, FenceStates, baseVars
  <2>5. \A now \in Samples : ExpireFences(now) => BaseTypeOK' /\ FencesTypeOK'
    BY DEF ExpireFences, FenceRows, FenceStates, baseVars
  <2> QED BY <1>1, <2>1, <2>2, <2>3, <2>4, <2>5 DEF FenceStep
<1>2. CASE OperationStep
  <2>1. ASSUME NEW o \in Operations, NEW k \in Keys, NEW g \in Handles(k),
               NEW d \in Durations, AcquireFenceOperation(o, k, g, d)
        PROVE  BaseTypeOK' /\ FencesTypeOK'
    <3>1. g \in Nat /\ clock + d \in Nat
      BY DurationType DEF Handles, FenceRows
    <3>2. operations' \in [Operations -> OperationRows]
      BY <2>1, <3>1 DEF AcquireFenceOperation, OperationRows, OperationStates, FenceRows
    <3> QED BY <2>1, <3>2, PurgedType DEF AcquireFenceOperation
  <2>2. ASSUME NEW o \in Operations, NEW d \in Durations, RenewFenceOperation(o, d)
        PROVE  BaseTypeOK' /\ FencesTypeOK'
    <3>1. clock + d \in Nat
      BY DurationType
    <3> QED BY <2>2, <3>1 DEF RenewFenceOperation, OperationRows, baseVars
  <2>3. \A o \in Operations : ReleaseFenceOperation(o) => BaseTypeOK' /\ FencesTypeOK'
    BY DEF ReleaseFenceOperation, OperationRows, OperationStates, baseVars
  <2>4. \A limit \in RecoveryLimits : RecoverExpired(limit) => BaseTypeOK' /\ FencesTypeOK'
    BY DEF RecoverExpired, OperationRows, OperationStates, baseVars
  <2> QED BY <1>2, <2>1, <2>2, <2>3, <2>4 DEF OperationStep
<1> QED BY <1>1, <1>2 DEF FencesNext

\* Taking or dropping the guard keeps every type.
LEMMA QuiescenceTypeStep ==
    ASSUME TypeOK, QuiescenceStep
    PROVE  TypeOK'
<1> USE DEF TypeOK, BaseTypeOK
<1>1. ASSUME NEW o \in Owners, NEW now \in Samples, NEW d \in Durations,
             AcquireQuiescence(o, now, d)
      PROVE  TypeOK'
  <2>1. now + d \in Nat
    BY SampleType, DurationType
  <2>2. leases' \in [Leases -> LeaseRows]
    BY <1>1, ExpiredFacts DEF AcquireQuiescence
  <2>3. LeasesTypeOK' /\ FencesTypeOK'
    BY <1>1, <2>2 DEF AcquireQuiescence, LeasesTypeOK, FencesTypeOK, fenceVars
  <2> QED BY <1>1, <2>1, <2>3
          DEF AcquireQuiescence, QuiescenceRows, Guards, GuardStates
<1>2. ASSUME NEW o \in Owners, DropGuard(o)
      PROVE  TypeOK'
  <2>1. LeasesTypeOK' /\ FencesTypeOK'
    BY <1>2 DEF DropGuard, LeasesTypeOK, FencesTypeOK, leaseVars, fenceVars
  <2> QED BY <1>2, <2>1 DEF DropGuard, RowAfterDrop, QuiescenceRows, Guards, GuardStates
<1> QED BY <1>1, <1>2 DEF QuiescenceStep

\* The empty tables are well formed.
LEMMA FleetTypeInit == Init => TypeOK
  BY FleetBaseAssumption, FleetLeasesAssumption, FleetFencesAssumption
  DEF Init, BaseInit, LeasesInit, FencesInit, TypeOK, BaseTypeOK, LeasesTypeOK,
      FencesTypeOK, QuiescenceRows, Guards, GuardStates, NodeStates, Supervisors,
      SupervisorStates, LeaseRows, LeaseStates, FenceRows, FenceStates,
      OperationRows, OperationStates

\* Every step keeps them so.
LEMMA FleetTypeStep ==
    ASSUME TypeOK, [Next]_vars
    PROVE  TypeOK'
<1>1. CASE LeasesNext /\ UNCHANGED fenceVars
  BY <1>1, LeasesTypeStep DEF TypeOK, FencesTypeOK, fenceVars
<1>2. CASE FencesNext /\ UNCHANGED leaseVars
  BY <1>2, FencesTypeStep DEF TypeOK, LeasesTypeOK, leaseVars
<1>3. CASE QuiescenceStep
  BY <1>3, QuiescenceTypeStep
<1>4. CASE Tick
  BY <1>4 DEF Tick, TypeOK, BaseTypeOK, LeasesTypeOK, FencesTypeOK, leaseVars, fenceVars
<1>5. CASE UNCHANGED vars
  BY <1>5 DEF vars, baseVars, leaseVars, fenceVars, TypeOK, BaseTypeOK,
              LeasesTypeOK, FencesTypeOK
<1> QED BY <1>1, <1>2, <1>3, <1>4, <1>5 DEF Next

\* Type correctness of FleetEngine (fleet.rs, every transaction): all reachable
\* tables are well formed.
THEOREM FleetTypeCorrect == Spec => []TypeOK
BY FleetTypeInit, FleetTypeStep, PTL DEF Spec

-----------------------------------------------------------------------------
(* Leases. *)

\* What a step other than acquire_lease may do to leases: end active ones, or
\* move their expiry.
OnlyEnds ==
    \A l \in Leases :
        /\ leases'[l].state = "active" => leases[l].state = "active"
        /\ leases[l].state # "active" => leases'[l] = leases[l]
        /\ leases'[l].node = leases[l].node
        /\ leases'[l].generation = leases[l].generation

LeaseInv == LeaseBookkeeping /\ NoLeaseOnStoppedNode /\ ActiveLeaseOfGeneration

\* Node controls (transition_node) keep the lease invariants.
LEMMA NodeStepLeases ==
    ASSUME LeasesTypeOK, LeaseInv, NodeStep
    PROVE  OnlyEnds /\ LeaseInv'
<1>1. ASSUME NEW n \in Nodes, RegisterNode(n)
      PROVE  OnlyEnds /\ LeaseInv'
  BY <1>1 DEF RegisterNode, OnlyEnds, LeaseInv, LeaseBookkeeping,
      NoLeaseOnStoppedNode, ActiveLeaseOfGeneration, LeasesTypeOK
<1>2. ASSUME NEW n \in Nodes, NEW s, NEW t \in LeaseStates \ {"active"},
             TransitionNode(n, s, t)
      PROVE  OnlyEnds /\ LeaseInv'
  <2>1. OnlyEnds /\ (\A l \in Leases : leases'[l].state = "active" => leases'[l].node # n)
    BY <1>2 DEF TransitionNode, ActiveOn, OnlyEnds, LeasesTypeOK, LeaseRows
  <2> QED BY <1>2, <2>1
          DEF TransitionNode, OnlyEnds, LeaseInv, LeaseBookkeeping,
              NoLeaseOnStoppedNode, ActiveLeaseOfGeneration, LeasesTypeOK
<1> QED BY <1>1, <1>2
        DEF NodeStep, QuarantineNode, RevokeNode, KillNode, LeaseStates

\* Supervisor transitions keep them: a generation ends only with its leases.
LEMMA SupervisorStepLeases ==
    ASSUME BaseTypeOK, LeasesTypeOK, LeaseInv, SupervisorStep
    PROVE  OnlyEnds /\ LeaseInv'
<1> USE DEF LeaseInv, LeaseBookkeeping, NoLeaseOnStoppedNode,
            ActiveLeaseOfGeneration, LeasesTypeOK
<1> PICK n \in Nodes, now \in Samples :
        \/ \E p \in Processes \cup {NoProcess} :
             StartSupervisor(n, p, now) \/ HeartbeatSupervisor(n, p, now)
        \/ \E p \in Processes :
             \/ RestartSupervisor(n, p, now)
             \/ \E l \in Leases : ShutdownSupervisor(n, p, l, now)
        \/ ReconcileSupervisor(n, now)
        \/ DrainSupervisor(n, now)
        \/ StopSupervisor(n, now)
        \/ RecoverSupervisor(n, now)
  BY DEF SupervisorStep
<1>1. ASSUME NEW p, StartSupervisor(n, p, now)
      PROVE  OnlyEnds /\ LeaseInv'
  <2>1. supervisors[n].generation \in Nat
    BY DEF Supervisors
  <2> QED BY <1>1, <2>1 DEF StartSupervisor, ActiveOn, OnlyEnds
<1>2. ASSUME NEW p, HeartbeatSupervisor(n, p, now)
      PROVE  OnlyEnds /\ LeaseInv'
  BY <1>2 DEF HeartbeatSupervisor, OnlyEnds, Supervisors
<1>3. ASSUME NEW p, RestartSupervisor(n, p, now)
      PROVE  OnlyEnds /\ LeaseInv'
  <2>1. OnlyEnds
    BY <1>3, ExpiredFacts DEF RestartSupervisor, OnlyEnds
  <2>2. \A l \in Leases : leases'[l].state = "active" => leases'[l].node # n
    <3>1. \A l \in ActiveOn(n) : leases'[l].state # "active"
      BY <1>3 DEF RestartSupervisor
    <3> QED BY <2>1, <3>1 DEF ActiveOn, OnlyEnds
  <2>3. supervisors[n].generation \in Nat
    BY DEF Supervisors
  <2> QED BY <1>3, <2>1, <2>2, <2>3 DEF RestartSupervisor, OnlyEnds
<1>4. ASSUME NEW p, NEW l \in Leases, ShutdownSupervisor(n, p, l, now)
      PROVE  OnlyEnds /\ LeaseInv'
  <2>1. OnlyEnds
    BY <1>4 DEF ShutdownSupervisor, OnlyEnds, LeaseRows
  <2>2. \A k \in Leases : leases'[k].state = "active" => leases'[k].node # n
    BY <1>4 DEF ShutdownSupervisor, ActiveOn, LeaseRows
  <2>3. \A m \in Nodes :
            /\ supervisors'[m].generation = supervisors[m].generation
            /\ supervisors'[m].state = "absent" <=> supervisors[m].state = "absent"
            /\ m # n => supervisors'[m] = supervisors[m]
    BY <1>4 DEF ShutdownSupervisor, Supervisors
  <2>4. nodes' = nodes
    BY <1>4 DEF ShutdownSupervisor
  <2> QED BY <2>1, <2>2, <2>3, <2>4 DEF OnlyEnds
<1>5. CASE ReconcileSupervisor(n, now) \/ RecoverSupervisor(n, now)
  <2>1. OnlyEnds
    BY <1>5, ExpiredFacts DEF ReconcileSupervisor, RecoverSupervisor, OnlyEnds
  <2>2. supervisors' = [supervisors EXCEPT ![n].state = "recovering", ![n].updated = now]
    BY <1>5 DEF ReconcileSupervisor, RecoverSupervisor
  <2>3. supervisors[n].state # "absent" /\ nodes' = nodes
    BY <1>5 DEF ReconcileSupervisor, RecoverSupervisor
  <2>4. \A m \in Nodes :
            /\ supervisors'[m].generation = supervisors[m].generation
            /\ supervisors'[m].state = "absent" <=> supervisors[m].state = "absent"
            /\ supervisors'[m].state = "stopped" => supervisors[m].state = "stopped"
    BY <2>2, <2>3 DEF Supervisors
  <2> QED BY <2>1, <2>3, <2>4 DEF OnlyEnds
<1>6. CASE DrainSupervisor(n, now)
  BY <1>6 DEF DrainSupervisor, OnlyEnds, Supervisors
<1>7. CASE StopSupervisor(n, now)
  BY <1>7 DEF StopSupervisor, ActiveOn, OnlyEnds, Supervisors
<1> QED BY <1>1, <1>2, <1>3, <1>4, <1>5, <1>6, <1>7

\* Renewal, release and expiry keep them.
LEMMA LeaseEndStep ==
    ASSUME BaseTypeOK, LeasesTypeOK, LeaseInv, LeaseStep,
           ~ \E l \in Leases, n \in Nodes, now \in Samples, d \in Durations :
               AcquireLease(l, n, now, d)
    PROVE  OnlyEnds /\ LeaseInv'
<1>1. OnlyEnds /\ nodes' = nodes /\ supervisors' = supervisors
  <2>1. \A l \in Leases, now \in Samples, d \in Durations :
            RenewLease(l, now, d) => OnlyEnds /\ nodes' = nodes /\ supervisors' = supervisors
    BY DEF RenewLease, OnlyEnds, LeasesTypeOK, LeaseRows
  <2>2. \A l \in Leases :
            ReleaseLease(l) => OnlyEnds /\ nodes' = nodes /\ supervisors' = supervisors
    BY DEF ReleaseLease, OnlyEnds, LeasesTypeOK, LeaseRows
  <2>3. \A now \in Samples :
            ExpireLeases(now) => OnlyEnds /\ nodes' = nodes /\ supervisors' = supervisors
    BY ExpiredFacts DEF ExpireLeases, OnlyEnds
  <2> QED BY <2>1, <2>2, <2>3 DEF LeaseStep
<1> QED BY <1>1 DEF OnlyEnds, LeaseInv, LeaseBookkeeping, NoLeaseOnStoppedNode,
                    ActiveLeaseOfGeneration, LeasesTypeOK

\* A new lease is issued on a ready node under the current generation.
LEMMA AcquireLeaseStep ==
    ASSUME LeasesTypeOK, LeaseInv, NEW l \in Leases, NEW n \in Nodes, NEW now, NEW d,
           AcquireLease(l, n, now, d)
    PROVE  LeaseInv'
BY DEF AcquireLease, AcceptsWork, LeaseInv, LeaseBookkeeping, NoLeaseOnStoppedNode,
       ActiveLeaseOfGeneration, LeasesTypeOK, LeaseRows

\* The three together.
LEMMA LeasesNextLeases ==
    ASSUME BaseTypeOK, LeasesTypeOK, LeaseInv, LeasesNext
    PROVE  /\ LeaseInv'
           /\ \/ OnlyEnds
              \/ \E l \in Leases, n \in Nodes, now \in Samples, d \in Durations :
                   AcquireLease(l, n, now, d)
BY NodeStepLeases, SupervisorStepLeases, LeaseEndStep, AcquireLeaseStep DEF LeasesNext

-----------------------------------------------------------------------------
(* Fences and operations. *)

OperationInv == OperationBookkeeping /\ OneOperationPerFence /\ OperationPinsFence

\* A fence changes in a step only while nothing pins it, except for a renewal
\* beyond the expiry of the operation that does.
LEMMA FenceStepPins ==
    ASSUME BaseTypeOK, FencesTypeOK, OperationInv, FenceStep
    PROVE  OperationInv'
<1> USE DEF OperationInv, OperationBookkeeping, OneOperationPerFence,
            OperationPinsFence, OperationRowsPresent, OperationsOn
<1>1. ASSUME NEW k \in Keys, NEW owner \in FenceOwners, NEW now \in Samples,
             NEW d \in Durations, AcquireFence(k, owner, now, d)
      PROVE  OperationInv'
  <2>1. /\ operations' = operations
        /\ \A j \in Keys : OperationsOn(j) # {} => fences'[j] = fences[j]
    BY <1>1 DEF AcquireFence, Unblocked, FencesTypeOK
  <2> QED BY <2>1
<1>2. ASSUME NEW k \in Keys, NEW g \in Handles(k), NEW now \in Samples,
             NEW d \in Durations, RenewFence(k, g, now, d)
      PROVE  OperationInv'
  <2>1. now + d \in Nat
    BY SampleType, DurationType
  <2>2. \A o \in OperationRowsPresent : operations[o].expires \in Nat
    BY DEF FencesTypeOK, OperationRows
  <2> QED BY <1>2, <2>1, <2>2 DEF RenewFence, FencesTypeOK, FenceRows
<1>3. ASSUME NEW k \in Keys, NEW owner \in FenceOwners, InvalidateFence(k, owner)
      PROVE  OperationInv'
  <2>1. /\ operations' = operations
        /\ \A j \in Keys : OperationsOn(j) # {} => fences'[j] = fences[j]
    BY <1>3 DEF InvalidateFence, Unblocked, FencesTypeOK
  <2> QED BY <2>1
<1>4. ASSUME NEW k \in Keys, NEW g, NEW now, ReleaseFence(k, g, now)
      PROVE  OperationInv'
  <2>1. /\ operations' = operations
        /\ \A j \in Keys : OperationsOn(j) # {} => fences'[j] = fences[j]
    BY <1>4 DEF ReleaseFence, Unblocked, FencesTypeOK
  <2> QED BY <2>1
<1>5. ASSUME NEW now \in Samples, ExpireFences(now)
      PROVE  OperationInv'
  <2>1. /\ operations' = operations
        /\ \A j \in Keys : OperationsOn(j) # {} => fences'[j] = fences[j]
    BY <1>5 DEF ExpireFences, Unblocked, FencesTypeOK
  <2> QED BY <2>1
<1> QED BY <1>1, <1>2, <1>3, <1>4, <1>5 DEF FenceStep

\* An operation starts on a fence without one and inside its lifetime, and
\* leaves its fence alone.
LEMMA OperationStepPins ==
    ASSUME BaseTypeOK, FencesTypeOK, OperationInv, OperationStep
    PROVE  OperationInv'
<1> USE DEF OperationInv, OperationBookkeeping, OneOperationPerFence,
            OperationPinsFence, OperationRowsPresent, OperationsOn
<1>1. ASSUME NEW o \in Operations, NEW k \in Keys, NEW g \in Handles(k),
             NEW d \in Durations, AcquireFenceOperation(o, k, g, d)
      PROVE  OperationInv'
  <2>1. clock + d \in Nat /\ fences[k].expires \in Nat
    BY DurationType DEF BaseTypeOK, FencesTypeOK, FenceRows
  <2>2. /\ operations'[o].state = "present"
        /\ operations'[o].key = k
        /\ operations'[o].owner = fences[k].owner
        /\ operations'[o].generation = fences[k].generation
        /\ operations'[o].issued = fences[k].issued
        /\ operations'[o].expires <= fences[k].expires
    BY <1>1, <2>1 DEF AcquireFenceOperation, FenceValid, FencesTypeOK
  <2>3. \A q \in Operations \ {o} : operations'[q] = operations[q]
    BY <1>1 DEF AcquireFenceOperation, FencesTypeOK
  <2>4. fences' = fences /\ fences[k].state = "active" /\ OperationsOn(k) = {}
    BY <1>1 DEF AcquireFenceOperation, FenceValid, NoOperationYet
  <2> QED BY <2>2, <2>3, <2>4
<1>2. ASSUME NEW o \in Operations, NEW d \in Durations, RenewFenceOperation(o, d)
      PROVE  OperationInv'
  BY <1>2 DEF RenewFenceOperation, FencesTypeOK, OperationRows
<1>3. ASSUME NEW o \in Operations, ReleaseFenceOperation(o)
      PROVE  OperationInv'
  BY <1>3 DEF ReleaseFenceOperation, FencesTypeOK, OperationRows
<1>4. ASSUME NEW limit \in RecoveryLimits, RecoverExpired(limit)
      PROVE  OperationInv'
  <2>1. /\ fences' = fences
        /\ \A q \in Operations : operations'[q].state = "present" =>
                                 operations'[q] = operations[q]
    BY <1>4 DEF RecoverExpired, FencesTypeOK, OperationRows
  <2> QED BY <2>1
<1> QED BY <1>1, <1>2, <1>3, <1>4 DEF OperationStep

\* A release is recorded against the generation it ended.
LEMMA FencesNextReleased ==
    ASSUME BaseTypeOK, FencesTypeOK, ReleasedByItsHolder, FencesNext
    PROVE  ReleasedByItsHolder'
<1> USE DEF ReleasedByItsHolder, FencesTypeOK
<1>1. \A k \in Keys, owner \in FenceOwners, now \in Samples, d \in Durations :
        AcquireFence(k, owner, now, d) => ReleasedByItsHolder'
  BY DEF AcquireFence
<1>2. \A k \in Keys : \A g, now, d : RenewFence(k, g, now, d) => ReleasedByItsHolder'
  BY DEF RenewFence, FenceRows
<1>3. \A k \in Keys, owner \in FenceOwners :
        InvalidateFence(k, owner) => ReleasedByItsHolder'
  BY DEF InvalidateFence, FenceRows
<1>4. \A k \in Keys : \A g, now : ReleaseFence(k, g, now) => ReleasedByItsHolder'
  BY DEF ReleaseFence, FenceValid, FenceRows
<1>5. \A now : ExpireFences(now) => ReleasedByItsHolder'
  BY DEF ExpireFences, FenceRows
<1>6. OperationStep => fences' = fences /\ relinquished' = relinquished
  BY DEF OperationStep, AcquireFenceOperation, RenewFenceOperation,
         ReleaseFenceOperation, RecoverExpired
<1> QED BY <1>1, <1>2, <1>3, <1>4, <1>5, <1>6 DEF FencesNext, FenceStep

-----------------------------------------------------------------------------
(* The quiescence guard. *)

\* Work is permitted only while no guard holds, and purging spares the row of a
\* guard that does.
LEMMA PermittedMeansNoGuard ==
    ASSUME BaseTypeOK, GuardRow, NEW now \in Nat, now <= clock
    PROVE  /\ WorkPermitted(now) => ~Quiescent
           /\ Quiescent => Purged(now) = quiescence
<1>1. now \in Nat /\ now <= clock
  OBVIOUS
<1>2. SUFFICES ASSUME Quiescent
               PROVE  quiescence # NoQuiescence /\ Purged(now) = quiescence
  BY DEF WorkPermitted
<1>3. PICK o \in Owners : guards[o].state = "held" /\ clock < guards[o].expires
  BY <1>2 DEF Quiescent
<1>4. quiescence = [owner |-> o, expires |-> guards[o].expires]
  BY <1>3 DEF GuardRow
<1>5. quiescence # NoQuiescence
  BY <1>4, FleetBaseAssumption DEF NoQuiescence
<1>6. ~(quiescence.expires <= now)
  BY <1>1, <1>3, <1>4 DEF BaseTypeOK, Guards
<1> QED BY <1>5, <1>6 DEF Purged

\* Steps of workers and fences leave clock and guards alone and at most purge.
AtMostPurges ==
    /\ clock' = clock
    /\ guards' = guards
    /\ \/ quiescence' = quiescence
       \/ \E now \in Nat : now <= clock /\ quiescence' = Purged(now)

\* That is all they do to the base.
LEMMA WorkOnlyPurges ==
    ASSUME BaseTypeOK, LeasesNext \/ FencesNext
    PROVE  AtMostPurges
<1> USE DEF AtMostPurges, BaseTypeOK
<1>1. NodeStep => AtMostPurges
  BY DEF NodeStep, RegisterNode, QuarantineNode, RevokeNode, KillNode,
         TransitionNode, baseVars
<1>2. SupervisorStep => AtMostPurges
  BY DEF SupervisorStep, StartSupervisor, HeartbeatSupervisor, RestartSupervisor,
         ShutdownSupervisor, ReconcileSupervisor, DrainSupervisor, StopSupervisor,
         RecoverSupervisor, baseVars
<1>3. LeaseStep => AtMostPurges
  <2>1. \A l \in Leases, n \in Nodes, now \in Samples, d \in Durations :
          AcquireLease(l, n, now, d) \/ RenewLease(l, now, d) => AtMostPurges
    BY SampleType DEF AcquireLease, RenewLease
  <2>2. \A l \in Leases, now \in Samples, d \in Durations :
          RenewLease(l, now, d) => AtMostPurges
    BY SampleType DEF RenewLease
  <2> QED BY <2>1, <2>2 DEF LeaseStep, ReleaseLease, ExpireLeases, baseVars
<1>4. FenceStep => AtMostPurges
  <2>1. \A k \in Keys, owner \in FenceOwners, now \in Samples, d \in Durations :
          AcquireFence(k, owner, now, d) => AtMostPurges
    BY SampleType DEF AcquireFence
  <2> QED BY <2>1 DEF FenceStep, RenewFence, InvalidateFence, ReleaseFence,
                      ExpireFences, baseVars
<1>5. OperationStep => AtMostPurges
  BY DEF OperationStep, AcquireFenceOperation, RenewFenceOperation,
         ReleaseFenceOperation, RecoverExpired, baseVars
<1> QED BY <1>1, <1>2, <1>3, <1>4, <1>5 DEF LeasesNext, FencesNext

\* So a guard that holds keeps its row through them.
LEMMA WorkKeepsGuardRow ==
    ASSUME BaseTypeOK, GuardRow, AtMostPurges
    PROVE  GuardRow' /\ (Quiescent' <=> Quiescent)
<1>1. Quiescent' <=> Quiescent
  BY DEF AtMostPurges, Quiescent
<1>2. Quiescent => quiescence' = quiescence
  BY PermittedMeansNoGuard DEF AtMostPurges
<1> QED BY <1>1, <1>2 DEF AtMostPurges, GuardRow, Quiescent

\* And no lease becomes active under it.
LEMMA LeasesNextQuiescence ==
    ASSUME BaseTypeOK, LeasesTypeOK, LeaseInv, GuardRow, QuiescenceExcludesLeases,
           LeasesNext
    PROVE  QuiescenceExcludesLeases'
<1>1. Quiescent' <=> Quiescent
  BY WorkOnlyPurges, WorkKeepsGuardRow
<1>2. CASE OnlyEnds
  BY <1>1, <1>2 DEF OnlyEnds, QuiescenceExcludesLeases
<1>3. ASSUME NEW l \in Leases, NEW n \in Nodes, NEW now \in Samples, NEW d \in Durations,
             AcquireLease(l, n, now, d)
      PROVE  QuiescenceExcludesLeases'
  <2>1. ~Quiescent
    BY <1>3, SampleType, PermittedMeansNoGuard DEF AcquireLease
  <2> QED BY <1>1, <2>1 DEF QuiescenceExcludesLeases
<1> QED BY <1>2, <1>3, LeasesNextLeases

\* The guard itself: taken only over an idle table, and a late drop of an older
\* guard deletes no row but its own.
LEMMA QuiescenceStepGuard ==
    ASSUME TypeOK, GuardRow, QuiescenceExcludesLeases, LeaseInv, QuiescenceStep
    PROVE  GuardRow' /\ QuiescenceExcludesLeases' /\ LeaseInv'
<1>1. ASSUME NEW o \in Owners, NEW now \in Samples, NEW d \in Durations,
             AcquireQuiescence(o, now, d)
      PROVE  GuardRow' /\ QuiescenceExcludesLeases' /\ LeaseInv'
  <2>1. \A l \in Leases : leases'[l].state # "active"
    BY <1>1 DEF AcquireQuiescence
  <2>2. ~Quiescent
    BY <1>1, SampleType, PermittedMeansNoGuard DEF AcquireQuiescence, WorkPermitted, TypeOK
  <2>3. GuardRow'
    BY <1>1, <2>2 DEF AcquireQuiescence, GuardRow, Quiescent, TypeOK, BaseTypeOK
  <2>4. LeaseInv'
    BY <1>1, <2>1 DEF AcquireQuiescence, LeaseInv, LeaseBookkeeping,
        NoLeaseOnStoppedNode, ActiveLeaseOfGeneration
  <2> QED BY <2>1, <2>3, <2>4 DEF QuiescenceExcludesLeases
<1>2. ASSUME NEW o \in Owners, DropGuard(o)
      PROVE  GuardRow' /\ QuiescenceExcludesLeases' /\ LeaseInv'
  <2>1. clock' = clock /\ leases' = leases /\ nodes' = nodes /\ supervisors' = supervisors
    BY <1>2 DEF DropGuard, leaseVars
  <2>2. guards' = [guards EXCEPT ![o].state = "dropped"] /\ quiescence' = RowAfterDrop(o)
    BY <1>2 DEF DropGuard
  <2>3. guards'[o].state # "held" /\ \A p \in Owners \ {o} : guards'[p] = guards[p]
    BY <2>2 DEF TypeOK, BaseTypeOK, Guards
  <2>4. \A p \in Owners \ {o} :
          quiescence = [owner |-> p, expires |-> guards[p].expires] => quiescence' = quiescence
    BY <2>2 DEF RowAfterDrop
  <2> QED BY <2>1, <2>3, <2>4
          DEF GuardRow, QuiescenceExcludesLeases, Quiescent, LeaseInv, LeaseBookkeeping,
              NoLeaseOnStoppedNode, ActiveLeaseOfGeneration
<1> QED BY <1>1, <1>2 DEF QuiescenceStep

-----------------------------------------------------------------------------
\* The inductive invariant of FleetEngine holds in every reachable state.
THEOREM FleetInvariant == Spec => []Inv
<1>1. Init => Inv
  <2> SUFFICES ASSUME Init PROVE Inv
    OBVIOUS
  <2>1. LeaseInv
    BY DEF Init, LeasesInit, LeaseInv, LeaseBookkeeping, NoLeaseOnStoppedNode,
           ActiveLeaseOfGeneration
  <2>2. OperationInv /\ ReleasedByItsHolder
    BY DEF Init, FencesInit, OperationInv, OperationBookkeeping, OneOperationPerFence,
           OperationPinsFence, OperationRowsPresent, ReleasedByItsHolder
  <2>3. GuardRow /\ QuiescenceExcludesLeases
    BY DEF Init, BaseInit, GuardRow, QuiescenceExcludesLeases, Quiescent
  <2>4. TypeOK
    BY FleetTypeInit
  <2> QED BY <2>1, <2>2, <2>3, <2>4 DEF Inv, LeaseInv, OperationInv
<1>2. Inv /\ [Next]_vars => Inv'
  <2> SUFFICES ASSUME Inv, [Next]_vars PROVE Inv'
    OBVIOUS
  <2>1. TypeOK /\ LeaseInv /\ OperationInv /\ ReleasedByItsHolder /\ GuardRow
          /\ QuiescenceExcludesLeases
    BY DEF Inv, LeaseInv, OperationInv
  <2>2. TypeOK'
    BY <2>1, FleetTypeStep
  <2>3. CASE LeasesNext /\ UNCHANGED fenceVars
    <3>1. LeaseInv' /\ GuardRow' /\ QuiescenceExcludesLeases'
      BY <2>1, <2>3, LeasesNextLeases, WorkOnlyPurges, WorkKeepsGuardRow,
         LeasesNextQuiescence DEF TypeOK
    <3>2. OperationInv' /\ ReleasedByItsHolder'
      BY <2>1, <2>3 DEF fenceVars, OperationInv, OperationBookkeeping,
         OneOperationPerFence, OperationPinsFence, OperationRowsPresent,
         ReleasedByItsHolder
    <3> QED BY <2>2, <3>1, <3>2 DEF Inv, LeaseInv, OperationInv
  <2>4. CASE FencesNext /\ UNCHANGED leaseVars
    <3>1. OperationInv' /\ ReleasedByItsHolder'
      BY <2>1, <2>4, FenceStepPins, OperationStepPins, FencesNextReleased
      DEF TypeOK, FencesNext
    <3>2. GuardRow' /\ (Quiescent' <=> Quiescent)
      BY <2>1, <2>4, WorkOnlyPurges, WorkKeepsGuardRow DEF TypeOK
    <3>3. LeaseInv' /\ QuiescenceExcludesLeases'
      BY <2>1, <2>4, <3>2 DEF leaseVars, LeaseInv, LeaseBookkeeping,
         NoLeaseOnStoppedNode, ActiveLeaseOfGeneration, QuiescenceExcludesLeases
    <3> QED BY <2>2, <3>1, <3>2, <3>3 DEF Inv, LeaseInv, OperationInv
  <2>5. CASE QuiescenceStep
    <3>1. fences' = fences /\ operations' = operations /\ relinquished' = relinquished
      BY <2>5 DEF QuiescenceStep, AcquireQuiescence, DropGuard, fenceVars
    <3>2. OperationInv' /\ ReleasedByItsHolder'
      BY <2>1, <3>1 DEF OperationInv, OperationBookkeeping,
         OneOperationPerFence, OperationPinsFence, OperationRowsPresent,
         ReleasedByItsHolder
    <3> QED BY <2>1, <2>2, <2>5, <3>2, QuiescenceStepGuard DEF Inv, LeaseInv, OperationInv
  <2>6. CASE Tick \/ UNCHANGED vars
    <3>1. /\ leases' = leases /\ nodes' = nodes /\ supervisors' = supervisors
          /\ fences' = fences /\ operations' = operations
          /\ relinquished' = relinquished
          /\ guards' = guards /\ quiescence' = quiescence
      BY <2>6 DEF Tick, vars, baseVars, leaseVars, fenceVars
    <3>2. clock' >= clock /\ clock \in Nat /\ clock' \in Nat
      BY <2>1, <2>6 DEF Tick, vars, baseVars, TypeOK, BaseTypeOK
    <3>3. LeaseInv' /\ OperationInv' /\ ReleasedByItsHolder'
      BY <2>1, <3>1 DEF LeaseInv, LeaseBookkeeping, NoLeaseOnStoppedNode,
         ActiveLeaseOfGeneration, OperationInv, OperationBookkeeping,
         OneOperationPerFence, OperationPinsFence, OperationRowsPresent,
         ReleasedByItsHolder
    <3>4. \A o \in Owners : clock' < guards[o].expires => clock < guards[o].expires
      BY <2>1, <3>2 DEF TypeOK, BaseTypeOK, Guards
    <3>5. GuardRow' /\ QuiescenceExcludesLeases'
      BY <2>1, <3>1, <3>4 DEF GuardRow, QuiescenceExcludesLeases, Quiescent
    <3> QED BY <2>2, <3>3, <3>5 DEF Inv, LeaseInv, OperationInv
  <2> QED BY <2>3, <2>4, <2>5, <2>6 DEF Next
<1> QED BY <1>1, <1>2, PTL DEF Spec

\* Work only where it may be, for every fleet (transition_node, stop_supervisor,
\* shutdown_supervisor_for_process, acquire_lease).
THEOREM StoppedNodesAreIdle == Spec => []NoLeaseOnStoppedNode
BY FleetInvariant, PTL DEF Inv

\* A takeover fences the old process's work (restart_supervisor_for_process).
THEOREM TakeoverEndsLeases == Spec => []ActiveLeaseOfGeneration
BY FleetInvariant, PTL DEF Inv

\* An operation keeps the fence it was granted under (block_fence_mutation).
THEOREM OperationsPinFences == Spec => []OperationPinsFence
BY FleetInvariant, PTL DEF Inv

\* No two unrecovered operations share a fence (acquire_fence_operation).
THEOREM OperationsAreExclusive == Spec => []OneOperationPerFence
BY FleetInvariant, PTL DEF Inv

\* A superseded holder does no harm (validate_fence).
THEOREM OnlyHoldersRelease == Spec => []ReleasedByItsHolder
BY FleetInvariant, PTL DEF Inv

\* Quiescence excludes workers (acquire_quiescence, ensure_work_permitted).
THEOREM QuiescenceIsExclusive == Spec => []QuiescenceExcludesLeases
BY FleetInvariant, PTL DEF Inv

\* Renewal never resurrects a lease (renew_lease, transition_lease).
THEOREM LeasesMoveForward == Spec => LeaseForward
<1> DEFINE Forward ==
      \A l \in Leases :
         /\ leases[l].state \notin {"absent", "active"} => leases'[l] = leases[l]
         /\ leases[l].state = "active" =>
              /\ leases'[l].node = leases[l].node
              /\ leases'[l].generation = leases[l].generation
<1>1. Inv /\ [Next]_vars => [Forward]_<<baseVars, leaseVars>>
  <2> SUFFICES ASSUME Inv, [Next]_vars, ~UNCHANGED <<baseVars, leaseVars>>
               PROVE  Forward
    OBVIOUS
  <2>1. TypeOK /\ LeaseInv
    BY DEF Inv, LeaseInv
  <2>2. CASE leases' = leases
    BY <2>2
  <2>3. CASE LeasesNext
    <3>1. CASE OnlyEnds
      BY <3>1 DEF OnlyEnds
    <3>2. ASSUME NEW l \in Leases, NEW n \in Nodes, NEW now \in Samples,
                 NEW d \in Durations, AcquireLease(l, n, now, d)
          PROVE  Forward
      BY <2>1, <3>2 DEF AcquireLease, TypeOK, LeasesTypeOK
    <3> QED BY <2>1, <2>3, <3>1, <3>2, LeasesNextLeases DEF TypeOK
  <2>4. CASE QuiescenceStep
    <3>1. ASSUME NEW o \in Owners, NEW now \in Samples, NEW d \in Durations,
                 AcquireQuiescence(o, now, d)
          PROVE  Forward
      BY <2>1, <3>1, ExpiredFacts DEF AcquireQuiescence, TypeOK
    <3> QED BY <2>2, <2>4, <3>1 DEF QuiescenceStep, DropGuard, leaseVars
  <2> QED BY <2>2, <2>3, <2>4 DEF Next, Tick, vars, leaseVars
<1> QED BY <1>1, FleetInvariant, PTL DEF Spec, LeaseForward

\* Fencing tokens grow (acquire_fence).
THEOREM FencingTokensGrow == Spec => FencingMonotone
<1> DEFINE Grows ==
      \A k \in Keys :
         \/ fences'[k].generation > fences[k].generation
         \/ /\ fences'[k].generation = fences[k].generation
            /\ fences'[k].owner = fences[k].owner
            /\ fences'[k].issued = fences[k].issued
            /\ fences'[k].state = "active" => fences[k].state = "active"
<1>1. TypeOK /\ [Next]_vars => [Grows]_<<baseVars, fenceVars>>
  <2> SUFFICES ASSUME TypeOK, [Next]_vars PROVE Grows
    OBVIOUS
  <2> USE DEF TypeOK, FencesTypeOK
  <2>1. CASE fences' = fences
    BY <2>1
  <2>2. CASE FenceStep
    <3>1. ASSUME NEW k \in Keys, NEW owner \in FenceOwners, NEW now \in Samples,
                 NEW d \in Durations, AcquireFence(k, owner, now, d)
          PROVE  Grows
      BY <3>1 DEF AcquireFence, NextGeneration, FenceRows
    <3>2. \A k \in Keys : \A g, now, d : RenewFence(k, g, now, d) => Grows
      BY DEF RenewFence, FenceValid, FenceRows
    <3>3. \A k \in Keys, owner \in FenceOwners : InvalidateFence(k, owner) => Grows
      BY DEF InvalidateFence, FenceRows
    <3>4. \A k \in Keys : \A g, now : ReleaseFence(k, g, now) => Grows
      BY DEF ReleaseFence, FenceRows
    <3>5. \A now : ExpireFences(now) => Grows
      BY DEF ExpireFences, FenceRows
    <3> QED BY <2>2, <3>1, <3>2, <3>3, <3>4, <3>5 DEF FenceStep
  <2>3. CASE OperationStep
    BY <2>1, <2>3 DEF OperationStep, AcquireFenceOperation, RenewFenceOperation,
                      ReleaseFenceOperation, RecoverExpired
  <2> QED BY <2>1, <2>2, <2>3
          DEF Next, FencesNext, QuiescenceStep, AcquireQuiescence, DropGuard, Tick,
              vars, fenceVars
<1> QED BY <1>1, FleetTypeCorrect, PTL DEF Spec, FencingMonotone
=============================================================================
