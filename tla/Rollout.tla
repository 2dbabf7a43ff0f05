------------------------------ MODULE Rollout ------------------------------
(***************************************************************************)
(* The staged rollout of an evolution proposal (EvolutionRollout of        *)
(* pandora-types/src/evolution.rs), as a table of transitions: from a      *)
(* rollout and an operation, the rollouts the operation may leave behind;  *)
(* no member when the code refuses the operation.                          *)
(*                                                                         *)
(* Stages are numbered from 0 (canary) to LastStage (complete).  Scorecard *)
(* figures, approval identities, expiry and transition ids are abstracted: *)
(* a scorecard passes or fails, an approval is pending or not, and a       *)
(* replayed transition id changes nothing.                                 *)
(***************************************************************************)
EXTENDS Naturals

CONSTANTS LastStage,   \* the stage EvolutionRolloutStage::Complete stands for
          MaxRetries   \* MAX_EVOLUTION_ROLLOUT_RETRIES

ASSUME RolloutAssumption == LastStage \in Nat /\ MaxRetries \in Nat

RolloutStatus == {"running", "awaiting", "paused", "failed", "rejected",
                  "complete", "rolled_back"}

NoRollout == [status |-> "none", stage |-> 0, pending |-> FALSE, retries |-> 0]

Rollouts == [status : RolloutStatus, stage : 0..LastStage, pending : BOOLEAN,
             retries : 0..MaxRetries] \cup {NoRollout}

NewRollout == [NoRollout EXCEPT !.status = "running"]

ActivationReady(r) == r.stage = LastStage /\ r.status = "complete"

-----------------------------------------------------------------------------
(* One set of successors per operation; the empty set is a refusal.        *)

Score(r) ==
    {[r EXCEPT !.status = verdict] :
        verdict \in {v \in {"awaiting", "failed"} : r.status = "running"}}

ApprovePromotion(r) ==
    {[s EXCEPT !.pending = TRUE] :
        s \in {x \in {r} : r.status = "awaiting" /\ ~r.pending}}

\* The pending approval is consumed; the stage after the last is completion.
Promote(r) ==
    LET approved == {x \in {r} : r.status = "awaiting" /\ r.pending}
    IN  {IF s.stage < LastStage
         THEN [status |-> "running", stage |-> s.stage + 1,
               pending |-> FALSE, retries |-> 0]
         ELSE [NoRollout EXCEPT !.status = "complete", !.stage = LastStage] : s \in approved}

Pause(r) == {[s EXCEPT !.status = "paused"] : s \in {x \in {r} : r.status = "running"}}

Resume(r) == {[s EXCEPT !.status = "running"] : s \in {x \in {r} : r.status = "paused"}}

Reject(r) ==
    {[s EXCEPT !.status = "rejected", !.pending = FALSE] :
        s \in {x \in {r} : r.status = "awaiting"}}

Retry(r) ==
    {[s EXCEPT !.status = "running", !.pending = FALSE, !.retries = @ + 1] :
        s \in {x \in {r} : r.status \in {"failed", "rejected"} /\ r.retries < MaxRetries}}

MarkRolledBack(r) ==
    {[NoRollout EXCEPT !.status = "rolled_back"] :
        s \in {x \in {r} : r.status \notin {"none", "rolled_back"}}}

\* The operations a service request may name, and those only the command line has.
ServiceTransitions(r) ==
    Promote(r) \cup Pause(r) \cup Resume(r) \cup Reject(r) \cup Retry(r)
        \cup MarkRolledBack(r)

CommandTransitions(r) == ServiceTransitions(r) \cup Score(r) \cup ApprovePromotion(r)
=============================================================================
