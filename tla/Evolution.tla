----------------------------- MODULE Evolution -----------------------------
(***************************************************************************)
(* Evolution proposals and the artifact catalog: the EvolutionEngine       *)
(* (pandora-runtime/src/evolution.rs), the ReplacementEngine               *)
(* (replacement.rs) and the ArtifactCatalog (artifact_catalog.rs), driven  *)
(* by one-shot commands (pandora-cli/src/commands/evolution.rs) and by the *)
(* runtime service (service.rs), which are processes of their own.         *)
(*                                                                         *)
(* Two SQLite files hold the state: the proposal records, and the bindings *)
(* of the catalog.  An activation or a rollback writes the one, then the   *)
(* other; a process may die, and a store may fail, between the two.  Every *)
(* engine works on the copy of the records it loaded when it was opened    *)
(* and writes whole records from it: a command loads once per invocation,  *)
(* the service once in its life.                                           *)
(*                                                                         *)
(* Activations and rollbacks hold the fleet's quiescence guard, which is   *)
(* taken for an hour: a mutation is assumed to be over by then, and the    *)
(* guard of a dead process lapses.  Bindings are listed by the second they *)
(* were made in: two bindings are assumed not to share one.                *)
(***************************************************************************)
EXTENDS Rollout, Sequences, FiniteSets, SequencesExt

CONSTANTS Proposals,   \* proposal ids, ordered as the store lists them
          Artifacts,
          Base,        \* [Proposals -> Artifacts]
          Candidate,   \* [Proposals -> Artifacts]
          Governed,    \* the proposals some operator configures a rollout for
          Seasoned,    \* the proposals that have passed their canary already
          MaxDepth,    \* MAX_REPLACEMENT_DEPTH
          Commands,    \* command-line processes
          Services     \* service processes

ASSUME EvolutionAssumption ==
    /\ Proposals \subseteq Nat /\ IsFiniteSet(Proposals) /\ IsFiniteSet(Artifacts)
    /\ Base \in [Proposals -> Artifacts] /\ Candidate \in [Proposals -> Artifacts]
    /\ \A p \in Proposals : Base[p] # Candidate[p]
    /\ Governed \subseteq Proposals /\ Seasoned \subseteq Proposals
    /\ MaxDepth \in Nat \ {0}
    /\ Commands \cap Services = {} /\ {"free", "dead"} \cap (Commands \cup Services) = {}

Engines == Commands \cup Services

VARIABLES records,   \* evolution.sqlite3
          catalog,   \* artifact-catalog.sqlite3: the bound proposals, oldest first
          guard,     \* the quiescence guard: an engine, "free", or "dead"
          pc,        \* where each engine is
          want,      \* the proposal its operation is about, chosen when it first matters
          view,      \* the records as the engine knows them
          scar,      \* history: the first event that can set the two stores apart, or "none"
          configured \* history: the proposals that have been given a rollout

vars == <<records, catalog, guard, pc, want, view, scar, configured>>

-----------------------------------------------------------------------------
(* Records and the catalog.                                                *)

ProposalStates == {"absent", "proposed", "evaluated", "approved", "staged",
                   "canary_passed", "canary_failed", "active", "rolled_back"}

Records == [state : ProposalStates, passed : BOOLEAN, rollout : Rollouts]

Absent == [state |-> "absent", passed |-> FALSE, rollout |-> NoRollout]

Unopened == [p \in Proposals |-> Absent]

ActiveIn(rs) == {p \in Proposals : rs[p].state = "active"}

Bound == ToSet(catalog)

\* The candidate that stands for each artifact after n replacements, at most.
Follow(bound) ==
    LET step[n \in Nat] ==
            IF n = 0 THEN [a \in Artifacts |-> a]
            ELSE LET last == step[n - 1]
                 IN  [a \in Artifacts |->
                        LET next == {Candidate[p] : p \in {q \in bound : Base[q] = last[a]}}
                        IN  IF next = {} THEN last[a] ELSE CHOOSE c \in next : TRUE]
    IN  step

\* resolve makes MaxDepth lookups, the last of which must find no replacement;
\* otherwise its answer is ReplacementCycle.
Resolve(a)  == Follow(Bound)[MaxDepth - 1][a]
Resolves(a) == \A q \in Bound : Base[q] # Resolve(a)

\* A plausible slip: that the candidate resolves is taken for the answer.
ClosesUnlooked(p) == Resolves(Candidate[p])

\* ensure_no_cycle: the candidate resolves, and not to the base.
ClosesNoCycle(p) == Resolves(Candidate[p]) /\ Resolve(Candidate[p]) # Base[p]

\* catalog.activate inserts p: it is not bound and its base is not replaced.
Admits(p) == /\ p \notin Bound
             /\ \A q \in Bound : Base[q] # Base[p]
             /\ ClosesNoCycle(p)

HasDependents(p) == \E q \in Bound : Base[q] = Candidate[p]

-----------------------------------------------------------------------------
Init == /\ records = [p \in Proposals |->
                        IF p \in Seasoned
                        THEN [state |-> "canary_passed", passed |-> TRUE, rollout |-> NoRollout]
                        ELSE Absent]
        /\ catalog = <<>>
        /\ guard = "free"
        /\ pc = [e \in Engines |-> "closed"]
        /\ want = [e \in Engines |-> 0]
        /\ view = [e \in Engines |-> Unopened]
        /\ scar = "none"
        /\ configured = {}

\* EvolutionStore::save: the whole record goes to the store, whatever is there.
Store(p, record) ==
    /\ records' = [records EXCEPT ![p] = record]
    /\ configured' = configured \cup {q \in {p} : record.rollout # NoRollout}

\* save_and_replace: and then to the engine's copy.
Save(e, p, record) == Store(p, record) /\ view' = [view EXCEPT ![e][p] = record]

\* The history variable keeps the first cause.
Mark(condition, cause) == scar' = IF scar = "none" /\ condition THEN cause ELSE scar

\* The record overwritten is not the one the new record was made from.
Stale(e, p) == view[e][p] # records[p]

\* The engine holds a record for active or rolled back that is not so, or the reverse.
Outdated(e) ==
    LET Settled(r) == r.state \in {"active", "rolled_back"}
    IN  \E p \in Proposals : /\ view[e][p].state # records[p].state
                             /\ Settled(view[e][p]) \/ Settled(records[p])

-----------------------------------------------------------------------------
(* Opening an engine, and the operations that write one record.            *)

\* submit, record_evaluation, approve, stage and record_canary.
Advance(r) ==
    CASE r.state = "absent"    -> {[r EXCEPT !.state = "proposed"]}
      [] r.state = "proposed"  -> {[r EXCEPT !.state = "evaluated", !.passed = b] : b \in BOOLEAN}
      [] r.state = "evaluated" -> {[s EXCEPT !.state = "approved"] : s \in {x \in {r} : r.passed}}
      [] r.state = "approved"  -> {[r EXCEPT !.state = "staged"]}
      [] r.state = "staged"    -> {[r EXCEPT !.state = s] : s \in {"canary_passed", "canary_failed"}}
      [] OTHER                 -> {}

\* The service opens its engine once.
StartService(e) ==
    /\ e \in Services /\ pc[e] = "closed"
    /\ pc' = [pc EXCEPT ![e] = "open"]
    /\ view' = [view EXCEPT ![e] = records]
    /\ UNCHANGED <<records, catalog, guard, want, scar, configured>>

\* A command opens an engine for an operation on p, which uses no other record.
\* Operations the record as loaded refuses change nothing and are left out.
StartCommand(e, p) ==
    /\ e \in Commands /\ pc[e] = "closed"
    /\ \/ Advance(records[p]) # {}
       \/ records[p].state = "canary_passed" /\ p \in Governed
    /\ pc' = [pc EXCEPT ![e] = "open"]
    /\ want' = [want EXCEPT ![e] = p]
    /\ view' = [view EXCEPT ![e][p] = records[p]]
    /\ UNCHANGED <<records, catalog, guard, scar, configured>>

\* A command writes the record, ends, and forgets its copy.
Settle(e, record) ==
    /\ Store(want[e], record)
    /\ Mark(Stale(e, want[e]), "stale")
    /\ view' = [view EXCEPT ![e] = Unopened]
    /\ pc' = [pc EXCEPT ![e] = "closed"]
    /\ want' = [want EXCEPT ![e] = 0]
    /\ UNCHANGED <<catalog, guard>>

\* A command at work, with its record.
Operating(e) == e \in Commands /\ pc[e] = "open"
Own(e)       == view[e][want[e]]

AdvanceProposal(e) ==
    /\ Operating(e)
    /\ \E record \in Advance(Own(e)) : Settle(e, record)

ConfigureRollout(e) ==
    /\ Operating(e) /\ want[e] \in Governed
    /\ Own(e).state = "canary_passed" /\ Own(e).rollout = NoRollout
    /\ Settle(e, [Own(e) EXCEPT !.rollout = NewRollout])

\* mutate_rollout, by a command.
TransitionRollout(e) ==
    /\ Operating(e) /\ Own(e).state = "canary_passed"
    /\ \E r \in CommandTransitions(Own(e).rollout) : Settle(e, [Own(e) EXCEPT !.rollout = r])

\* mutate_rollout, by the service.  It takes neither the gate nor the guard, so
\* it may fall between the steps of an activation of the same process.
ServeRollout(e, p) ==
    /\ e \in Services /\ pc[e] # "closed"
    /\ view[e][p].state = "canary_passed"
    /\ \E r \in ServiceTransitions(view[e][p].rollout) :
          Save(e, p, [view[e][p] EXCEPT !.rollout = r])
    /\ Mark(Stale(e, p), "stale")
    /\ UNCHANGED <<catalog, guard, pc, want>>

\* A command the engine refuses, or whose store fails.
Refused(e) == /\ Operating(e)
              /\ pc' = [pc EXCEPT ![e] = "closed"]
              /\ want' = [want EXCEPT ![e] = 0]
              /\ view' = [view EXCEPT ![e] = Unopened]
              /\ UNCHANGED <<records, catalog, guard, scar, configured>>

-----------------------------------------------------------------------------
(* Activation and rollback.                                                *)

\* ensure_evolution_quiescent; a command opens its engine under the guard,
\* the service uses the one it opened when it started.
Acquire(e) ==
    /\ guard = "free"
    /\ IF e \in Commands
       THEN /\ pc[e] = "closed"
            /\ view' = [view EXCEPT ![e] = records]
            /\ UNCHANGED scar
       ELSE /\ pc[e] = "open"
            /\ Mark(Outdated(e), "stale")
            /\ UNCHANGED view
    /\ guard' = e
    /\ pc' = [pc EXCEPT ![e] = "reconcile"]
    /\ UNCHANGED <<records, catalog, want, configured>>

GoTo(e, place) == pc' = [pc EXCEPT ![e] = place]

\* The bindings whose proposal is not active, and the active proposals that
\* have no binding, as the engine sees them.
Misfits(e)  == {i \in DOMAIN catalog : view[e][catalog[i]].state # "active"}
Unlisted(e) == ActiveIn(view[e]) \ Bound

Least(S) == CHOOSE n \in S : \A m \in S : n <= m

\* reconcile_cataloged, its first loop: the binding of a rolled-back proposal
\* is removed; any other misfit, and a binding others depend on, is an error.
ReconcileBinding(e) ==
    /\ pc[e] = "reconcile" /\ Misfits(e) # {}
    /\ LET p == catalog[Least(Misfits(e))]
       IN  \/ /\ view[e][p].state = "rolled_back" /\ ~HasDependents(p)
              /\ catalog' = RemoveFirst(catalog, p)
              /\ UNCHANGED pc
           \/ /\ view[e][p].state # "rolled_back" \/ HasDependents(p)
              /\ GoTo(e, "stuck")
              /\ UNCHANGED catalog
    /\ UNCHANGED <<records, guard, want, view, scar, configured>>

\* Its second loop: an active proposal without a binding gets one.
ReconcileRecord(e) ==
    /\ pc[e] = "reconcile" /\ Misfits(e) = {} /\ Unlisted(e) # {}
    /\ LET p == Least(Unlisted(e))
       IN  \/ /\ Admits(p)
              /\ catalog' = Append(catalog, p)
              /\ UNCHANGED pc
           \/ /\ ~Admits(p)
              /\ GoTo(e, "stuck")
              /\ UNCHANGED catalog
    /\ UNCHANGED <<records, guard, want, view, scar, configured>>

\* A plausible slip: the mutation does not wait for the reconciliation.
Unreconciled(e) == pc[e] = "reconcile"

\* Both loops have come to their end.
Reconciled(e) == pc[e] = "reconcile" /\ Misfits(e) = {} /\ Unlisted(e) = {}

\* A plausible slip: the rollout is not asked whether it is complete.
MayActivateEarly(r) == r.state = "canary_passed"

MayActivate(r) == /\ r.state = "canary_passed"
                  /\ r.rollout = NoRollout \/ ActivationReady(r.rollout)

\* evolution.activate
ActivateRecord(e, p) ==
    /\ Reconciled(e) /\ MayActivate(view[e][p])
    /\ Save(e, p, [view[e][p] EXCEPT !.state = "active"])
    /\ Mark(Stale(e, p), "stale")
    /\ want' = [want EXCEPT ![e] = p]
    /\ GoTo(e, "bind")
    /\ UNCHANGED <<catalog, guard>>

\* catalog.activate: refused by the catalog, or by its store, it is compensated.
Bind(e) ==
    LET p == want[e] IN
    /\ pc[e] = "bind"
    /\ \/ /\ Admits(p)
          /\ catalog' = Append(catalog, p)
          /\ GoTo(e, "ok")
       \/ /\ GoTo(e, "compensate")
          /\ UNCHANGED catalog
    /\ UNCHANGED <<records, guard, want, view, scar, configured>>

\* A plausible slip: the failed activation is reported and left as it is.
CompensateNothing(e) ==
    /\ pc[e] = "compensate"
    /\ GoTo(e, "failed")
    /\ UNCHANGED <<records, catalog, guard, want, view, scar, configured>>

\* evolution.rollback, whose own failure is discarded.
Compensate(e) ==
    LET p == want[e] IN
    /\ pc[e] = "compensate"
    /\ \/ /\ Save(e, p, [view[e][p] EXCEPT !.state = "rolled_back"])
          /\ Mark(Stale(e, p), "stale")
       \/ /\ Mark(~Admits(p), "uncompensated")
          /\ UNCHANGED <<records, view, configured>>
    /\ GoTo(e, "failed")
    /\ UNCHANGED <<catalog, guard, want>>

\* rollback_admitted: the binding must exist, the record must be active.
RollbackRecord(e, p) ==
    /\ Reconciled(e) /\ p \in Bound /\ view[e][p].state = "active"
    /\ Save(e, p, [view[e][p] EXCEPT !.state = "rolled_back"])
    /\ Mark(Stale(e, p) \/ HasDependents(p), IF Stale(e, p) THEN "stale" ELSE "dependents")
    /\ want' = [want EXCEPT ![e] = p]
    /\ GoTo(e, "unbind")
    /\ UNCHANGED <<catalog, guard>>

\* catalog.rollback: refused by a dependent, or by the store, it is not undone.
Unbind(e) ==
    LET p == want[e] IN
    /\ pc[e] = "unbind"
    /\ \/ /\ ~HasDependents(p)
          /\ catalog' = RemoveFirst(catalog, p)
          /\ GoTo(e, "ok")
       \/ /\ GoTo(e, "failed")
          /\ UNCHANGED catalog
    /\ UNCHANGED <<records, guard, want, view, scar, configured>>

\* The answer is given and the guard dropped: after success, after a failure,
\* and, at any point of the reconciliation and after it, because a store does
\* not answer, no backup can be made, an artifact is not admitted or the
\* proposal is in no state for the request.
Release(e) ==
    /\ pc[e] \in {"reconcile", "ok", "failed", "stuck"}
    /\ guard' = "free"
    /\ want' = [want EXCEPT ![e] = 0]
    /\ IF e \in Commands
       THEN GoTo(e, "closed") /\ view' = [view EXCEPT ![e] = Unopened]
       ELSE GoTo(e, "open") /\ UNCHANGED view
    /\ UNCHANGED <<records, catalog, scar, configured>>

-----------------------------------------------------------------------------
Crash(e) ==
    /\ pc[e] # "closed"
    /\ GoTo(e, "closed")
    /\ view' = [view EXCEPT ![e] = Unopened]
    /\ want' = [want EXCEPT ![e] = 0]
    /\ guard' = IF guard = e THEN "dead" ELSE guard
    /\ Mark(pc[e] \in {"bind", "compensate"} /\ ~Admits(want[e]), "uncompensated")
    /\ UNCHANGED <<records, catalog, configured>>

Lapse == /\ guard = "dead"
         /\ guard' = "free"
         /\ UNCHANGED <<records, catalog, pc, want, view, scar, configured>>

Next == \/ \E e \in Engines, p \in Proposals :
              \/ StartCommand(e, p) \/ ServeRollout(e, p)
              \/ ActivateRecord(e, p) \/ RollbackRecord(e, p)
        \/ \E e \in Engines :
              \/ StartService(e) \/ AdvanceProposal(e) \/ ConfigureRollout(e)
              \/ TransitionRollout(e) \/ Refused(e)
              \/ Acquire(e) \/ ReconcileBinding(e) \/ ReconcileRecord(e)
              \/ Bind(e) \/ Compensate(e) \/ Unbind(e)
              \/ Release(e) \/ Crash(e)
        \/ Lapse

Spec == Init /\ [][Next]_vars

-----------------------------------------------------------------------------
(* Properties.                                                             *)

Places == {"closed", "open", "reconcile", "bind", "compensate", "unbind",
           "ok", "failed", "stuck"}

\* Every record, copy and place is one the engines know, no rollout stage is
\* retried past MAX_EVOLUTION_ROLLOUT_RETRIES, and the guard is held by exactly
\* the engine that is in the middle of an activation or a rollback.
EnginesTypeOK ==
    /\ records \in [Proposals -> Records]
    /\ view \in [Engines -> [Proposals -> Records]]
    /\ catalog \in Seq(Proposals)
    /\ guard \in Engines \cup {"free", "dead"}
    /\ pc \in [Engines -> Places]
    /\ want \in [Engines -> Proposals \cup {0}]
    /\ scar \in {"none", "stale", "dependents", "uncompensated"}
    /\ \A e \in Engines : guard = e <=> pc[e] \notin {"closed", "open"}

EvolutionTypeOK == EnginesTypeOK /\ configured \subseteq Proposals

\* ArtifactCatalog: whatever was activated, rolled back and repaired, by
\* whichever process and from however old a copy, an artifact has one
\* replacement and following replacements comes to an end; resolve fails only on
\* an artifact with MaxDepth replacements ahead, all of them different.
CatalogResolves ==
    LET way == Follow(Bound)
        end == way[Cardinality(Artifacts)]
    IN  /\ \A p, q \in Bound : Base[p] = Base[q] => p = q
        /\ \A a \in Artifacts, p \in Bound : end[a] # Base[p]
        /\ \A a \in Artifacts : ~Resolves(a) =>
              \A i, j \in 0..MaxDepth : way[i][a] = way[j][a] => i = j

\* What a proposal must have to be active: a passed evaluation and, if it ever
\* was given a rollout, a completed one.
RolloutHeld(p) == p \in configured => ActivationReady(records[p].rollout)
Earned(p)      == records[p].passed /\ RolloutHeld(p)

\* EvolutionEngine::approve and activate: a proposal is active only with a
\* passed evaluation; while nothing has set the stores apart, above all no stale
\* record was written, whatever is active or bound was earned.
OnlyEarnedActivate ==
    /\ EvolutionTypeOK
    /\ \A p \in ActiveIn(records) : records[p].passed
    /\ scar = "none" => \A p \in ActiveIn(records) \cup Bound : Earned(p)

\* activate_cataloged and rollback_admitted: when a mutation is answered with
\* success, the catalog binds exactly the proposals the engine holds for active.
AnsweredMutationsAgree ==
    \A e \in Engines : pc[e] = "ok" => Bound = ActiveIn(view[e])

\* reconcile_cataloged runs before every mutation, so that crashes and store
\* failures do not add up: the stores differ in one proposal at most, unless a
\* stale copy was written, a proposal others depend on was rolled back, or an
\* activation the catalog refuses was left uncompensated.
OneDisagreement ==
    scar = "none" => Cardinality((ActiveIn(records) \ Bound) \cup (Bound \ ActiveIn(records))) <= 1

\* Both: the stores agree in an answer, and nearly always otherwise.
StoresTogether == AnsweredMutationsAgree /\ OneDisagreement

\* reconcile_cataloged refuses to go on, and with it every later activation and
\* rollback, after one of those three things only.
RecoveryNotStuck == \A e \in Engines : pc[e] = "stuck" => scar # "none"
=============================================================================
