----------------------------- MODULE FleetLeases -----------------------------
(***************************************************************************)
(* The worker half of FleetEngine: nodes, their supervisors and execution   *)
(* leases.  Rows are never deleted: an absent row has state "absent".       *)
(***************************************************************************)
EXTENDS FleetBase

CONSTANTS
    Nodes,          \* node ids
    Leases,         \* lease ids, each bound to one execution id
    Processes,      \* operating-system process ids
    NoProcess,      \* a supervisor without a process id
    NoNode,         \* the node of a lease that was never issued
    StaleAfter,     \* stale_after of reconcile, reap and restart
    MaxFleetNodes,  \* MAX_FLEET_NODES
    MaxFleetLeases, \* MAX_FLEET_LEASES
    MaxGeneration   \* bound: supervisor and fence generations

ASSUME FleetLeasesAssumption ==
    /\ NoProcess \notin Processes
    /\ NoNode \notin Nodes
    /\ StaleAfter \in Nat \ {0}
    /\ {MaxFleetNodes, MaxFleetLeases, MaxGeneration} \subseteq Nat
    /\ IsFiniteSet(Nodes) /\ IsFiniteSet(Leases)

VARIABLES
    nodes,          \* fleet_nodes: the state of each node
    supervisors,    \* fleet_supervisors
    leases          \* fleet_leases; `generation' is history: the supervisor
                    \* generation the lease was issued under

leaseVars == <<nodes, supervisors, leases>>

NodeStates == {"absent", "ready", "quarantined", "revoked", "killed"}
SupervisorStates == {"absent", "running", "draining", "recovering", "stopped"}
LeaseStates == {"absent", "active", "released", "expired", "revoked", "killed"}

Supervisors == [state : SupervisorStates, generation : Nat,
                process : Processes \cup {NoProcess}, updated : Nat]
LeaseRows == [state : LeaseStates, node : Nodes \cup {NoNode}, expires : Nat,
              generation : Nat]

\* active_lease_count
ActiveOn(n) == {l \in Leases : leases[l].state = "active" /\ leases[l].node = n}

\* UPDATE fleet_leases SET state = 'expired' WHERE state = 'active' AND
\* expires_at <= now, over the given leases.
Expired(ls, now) ==
    [l \in Leases |->
        IF l \in ls /\ leases[l].state = "active" /\ leases[l].expires <= now
        THEN [leases[l] EXCEPT !.state = "expired"]
        ELSE leases[l]]

\* now.saturating_sub(updated_at) <= stale_after
Fresh(n, now) == now <= supervisors[n].updated + StaleAfter

LeasesInit ==
    /\ nodes = [n \in Nodes |-> "absent"]
    /\ supervisors = [n \in Nodes |->
         [state |-> "absent", generation |-> 0, process |-> NoProcess,
          updated |-> 0]]
    /\ leases = [l \in Leases |->
         [state |-> "absent", node |-> NoNode, expires |-> 0, generation |-> 0]]

-----------------------------------------------------------------------------
RegisterNode(n) ==
    /\ nodes[n] = "absent"
    /\ Cardinality({m \in Nodes : nodes[m] # "absent"}) < MaxFleetNodes
    /\ nodes' = [nodes EXCEPT ![n] = "ready"]
    /\ UNCHANGED <<supervisors, leases, baseVars>>

\* transition_node: the node and its active leases move together.
TransitionNode(n, state, leaseState) ==
    /\ nodes[n] # "absent"
    /\ nodes' = [nodes EXCEPT ![n] = state]
    /\ leases' = [l \in Leases |->
         IF l \in ActiveOn(n) THEN [leases[l] EXCEPT !.state = leaseState]
         ELSE leases[l]]
    /\ UNCHANGED <<supervisors, baseVars>>

\* Mutant: the leases are given the node's state instead of a lease's.
QuarantineNodeAndLeases(n) == TransitionNode(n, "quarantined", "quarantined")

QuarantineNode(n) == TransitionNode(n, "quarantined", "revoked")
RevokeNode(n) == TransitionNode(n, "revoked", "revoked")
KillNode(n) == TransitionNode(n, "killed", "killed")

-----------------------------------------------------------------------------
\* start_supervisor and start_supervisor_for_process.  A first start does not
\* look at leases; a later one requires that none is active.
StartSupervisor(n, p, now) ==
    LET s == supervisors[n]
    IN /\ nodes[n] = "ready"
       /\ \/ s.state = "absent"
          \/ s.state \in {"stopped", "recovering"} /\ ActiveOn(n) = {}
       /\ s.generation < MaxGeneration
       /\ supervisors' = [supervisors EXCEPT ![n] =
            [state |-> "running", generation |-> s.generation + 1,
             process |-> p, updated |-> now]]
       /\ UNCHANGED <<nodes, leases, baseVars>>

\* Mutant: the takeover does not wait for the leases of the old generation.
RestartSupervisorEagerly(n, p, now) ==
    LET s == supervisors[n]
    IN /\ nodes[n] = "ready"
       /\ s.state = "running" => ~Fresh(n, now)
       /\ s.state \in {"running", "stopped", "recovering"}
       /\ s.generation < MaxGeneration
       /\ leases' = leases
       /\ supervisors' = [supervisors EXCEPT ![n] =
            [state |-> "running", generation |-> s.generation + 1,
             process |-> p, updated |-> now]]
       /\ UNCHANGED <<nodes, baseVars>>

\* restart_supervisor_for_process: the takeover of a stale, stopped or
\* recovering supervisor.  Expiry counts before the leases are counted.
RestartSupervisor(n, p, now) ==
    LET s == supervisors[n]
        reaped == IF s.state = "running" THEN Expired(ActiveOn(n), now) ELSE leases
    IN /\ nodes[n] = "ready"
       /\ s.state \in {"running", "stopped", "recovering"}
       /\ s.state = "running" => ~Fresh(n, now)
       /\ \A l \in ActiveOn(n) : reaped[l].state # "active"
       /\ s.generation < MaxGeneration
       /\ leases' = reaped
       /\ supervisors' = [supervisors EXCEPT ![n] =
            [state |-> "running", generation |-> s.generation + 1,
             process |-> p, updated |-> now]]
       /\ UNCHANGED <<nodes, baseVars>>

\* heartbeat_supervisor (p = NoProcess) and heartbeat_supervisor_for_process.
HeartbeatSupervisor(n, p, now) ==
    /\ supervisors[n].state = "running"
    /\ p # NoProcess => supervisors[n].process = p
    /\ supervisors' = [supervisors EXCEPT ![n].updated = now]
    /\ UNCHANGED <<nodes, leases, baseVars>>

\* reconcile_supervisor; reap_stale_supervisors is one of these per stale node.
ReconcileSupervisor(n, now) ==
    /\ supervisors[n].state = "running"
    /\ ~Fresh(n, now)
    /\ leases' = Expired(ActiveOn(n), now)
    /\ supervisors' = [supervisors EXCEPT ![n].state = "recovering",
                                          ![n].updated = now]
    /\ UNCHANGED <<nodes, baseVars>>

DrainSupervisor(n, now) ==
    /\ supervisors[n].state = "running"
    /\ supervisors' = [supervisors EXCEPT ![n].state = "draining",
                                          ![n].updated = now]
    /\ UNCHANGED <<nodes, leases, baseVars>>

StopSupervisor(n, now) ==
    /\ supervisors[n].state \in {"draining", "recovering"}
    /\ ActiveOn(n) = {}
    /\ supervisors' = [supervisors EXCEPT ![n].state = "stopped",
                                          ![n].updated = now]
    /\ UNCHANGED <<nodes, leases, baseVars>>

\* Mutant: the process releases its own lease and looks at no other.
ShutdownSupervisorAlone(n, p, l, now) ==
    /\ supervisors[n].state # "absent"
    /\ supervisors[n].process = p
    /\ leases[l].state # "absent" /\ leases[l].node = n
    /\ leases' = [leases EXCEPT ![l].state = IF @ = "active" THEN "released" ELSE @]
    /\ supervisors' = [supervisors EXCEPT ![n].state = "stopped", ![n].updated = now]
    /\ UNCHANGED <<nodes, baseVars>>

\* shutdown_supervisor_for_process: release the process's lease and stop, in
\* one transaction, unless another lease of the node is active.
ShutdownSupervisor(n, p, l, now) ==
    /\ supervisors[n].state # "absent"
    /\ supervisors[n].process = p
    /\ leases[l].state # "absent"
    /\ leases[l].node = n
    /\ ActiveOn(n) \subseteq {l}
    /\ leases' = [leases EXCEPT ![l].state = IF @ = "active" THEN "released" ELSE @]
    /\ supervisors' =
         IF supervisors[n].state = "stopped" THEN supervisors
         ELSE [supervisors EXCEPT ![n].state = "stopped", ![n].updated = now]
    /\ UNCHANGED <<nodes, baseVars>>

\* recover_supervisor, from any state.
RecoverSupervisor(n, now) ==
    /\ supervisors[n].state # "absent"
    /\ leases' = Expired(ActiveOn(n), now)
    /\ supervisors' = [supervisors EXCEPT ![n].state = "recovering",
                                          ![n].updated = now]
    /\ UNCHANGED <<nodes, baseVars>>

-----------------------------------------------------------------------------
\* A ready node whose supervisor, if it has one, is running.
AcceptsWork(n) ==
    nodes[n] = "ready" /\ supervisors[n].state \in {"absent", "running"}

AcquireLease(l, n, now, d) ==
    /\ WorkPermitted(now)
    /\ Cardinality({k \in Leases : leases[k].state # "absent"}) < MaxFleetLeases
    /\ AcceptsWork(n)
    /\ leases[l].state = "absent"
    /\ leases' = [leases EXCEPT ![l] =
         [state |-> "active", node |-> n, expires |-> now + d,
          generation |-> supervisors[n].generation]]
    /\ quiescence' = Purged(now)
    /\ UNCHANGED <<nodes, supervisors, clock, guards>>

\* Mutant: renewal looks at the row's existence only.
RenewLeaseAlways(l, now, d) ==
    /\ WorkPermitted(now)
    /\ leases[l].state # "absent"
    /\ leases' = [leases EXCEPT ![l].state = "active", ![l].expires = now + d]
    /\ quiescence' = Purged(now)
    /\ UNCHANGED <<nodes, supervisors, clock, guards>>

\* renew_lease: a lease found elapsed is committed as expired and the call fails.
RenewLease(l, now, d) ==
    /\ WorkPermitted(now)
    /\ leases[l].state = "active"
    /\ leases' =
         IF leases[l].expires <= now
         THEN [leases EXCEPT ![l].state = "expired"]
         ELSE [leases EXCEPT ![l].expires = now + d]
    /\ quiescence' = Purged(now)
    /\ UNCHANGED <<nodes, supervisors, clock, guards>>

ReleaseLease(l) ==
    /\ leases[l].state = "active"
    /\ leases' = [leases EXCEPT ![l].state = "released"]
    /\ UNCHANGED <<nodes, supervisors, baseVars>>

ExpireLeases(now) ==
    /\ leases' = Expired(Leases, now)
    /\ UNCHANGED <<nodes, supervisors, baseVars>>

-----------------------------------------------------------------------------
NodeStep ==
    \E n \in Nodes : RegisterNode(n) \/ QuarantineNode(n) \/ RevokeNode(n) \/ KillNode(n)

SupervisorStep ==
    \E n \in Nodes, now \in Samples :
        \/ \E p \in Processes \cup {NoProcess} :
             StartSupervisor(n, p, now) \/ HeartbeatSupervisor(n, p, now)
        \/ \E p \in Processes :
             \/ RestartSupervisor(n, p, now)
             \/ \E l \in Leases : ShutdownSupervisor(n, p, l, now)
        \/ ReconcileSupervisor(n, now)
        \/ DrainSupervisor(n, now)
        \/ StopSupervisor(n, now)
        \/ RecoverSupervisor(n, now)

LeaseStep ==
    \/ \E l \in Leases, now \in Samples, d \in Durations :
         \/ \E n \in Nodes : AcquireLease(l, n, now, d)
         \/ RenewLease(l, now, d)
    \/ \E l \in Leases : ReleaseLease(l)
    \/ \E now \in Samples : ExpireLeases(now)

LeasesNext == NodeStep \/ SupervisorStep \/ LeaseStep

-----------------------------------------------------------------------------
LeasesTypeOK ==
    /\ nodes \in [Nodes -> NodeStates]
    /\ supervisors \in [Nodes -> Supervisors]
    /\ leases \in [Leases -> LeaseRows]

\* Work only where it may be (fleet.rs transition_node, stop and shutdown,
\* acquire_lease; FLEET.md "a stopped node cannot retain an active lease"): a
\* node that left "ready", and a node whose supervisor stopped, has no active
\* lease, whatever lease was being acquired or renewed meanwhile.
NoLeaseOnStoppedNode ==
    \A l \in Leases :
        leases[l].state = "active" =>
            /\ nodes[leases[l].node] = "ready"
            /\ supervisors[leases[l].node].state # "stopped"

\* A takeover fences the work of the old process (restart_supervisor_for_process,
\* start_supervisor): an active lease was issued under the supervisor generation
\* that is current now, or before the node had any supervisor.
ActiveLeaseOfGeneration ==
    \A l \in Leases :
        leases[l].state = "active" =>
            \/ leases[l].generation = supervisors[leases[l].node].generation
            \/ leases[l].generation = 0 /\ supervisors[leases[l].node].generation = 1

\* What makes the two above inductive: an active lease names a node, and a
\* supervisor's generation counts its starts.
LeaseBookkeeping ==
    /\ \A l \in Leases : leases[l].state = "active" => leases[l].node \in Nodes
    /\ \A n \in Nodes : supervisors[n].state = "absent" <=> supervisors[n].generation = 0

\* Renewal never resurrects (renew_lease, transition_lease, FLEET.md): a lease
\* that ended stays exactly as it ended, and no lease moves to another node.
LeaseForward ==
    [][\A l \in Leases :
         /\ leases[l].state \notin {"absent", "active"} => leases'[l] = leases[l]
         /\ leases[l].state = "active" =>
              /\ leases'[l].node = leases[l].node
              /\ leases'[l].generation = leases[l].generation]_<<baseVars, leaseVars>>
=============================================================================
