------------------------------ MODULE MCService ------------------------------
(* Small instances of Service: requests that share keys and sessions.  The    *)
(* deliveries are interchangeable.                                            *)
EXTENDS Service, TLC

CONSTANTS s1, s2

MCResponses == {"completed", "approval_required", "error"}
MCRequest(k, m, t) == [key |-> k, method |-> m, target |-> t]
MCAgents == {MCRequest("k1", "agent.execute", s1), MCRequest("k2", "agent.execute", s1)}
MCRequests ==
    MCAgents
    \cup {MCRequest("k1", "run.execute", NoSession)}
    \cup {MCRequest("k2", "agent.resume", c) : c \in Calls}

Symmetry == Permutations(Calls)
==============================================================================
