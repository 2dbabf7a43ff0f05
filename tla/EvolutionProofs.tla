--------------------------- MODULE EvolutionProofs ---------------------------
(***************************************************************************)
(* Evolution, for every set of proposals, artifacts and engines: what is    *)
(* active was earned, the two stores differ in one proposal at most, the    *)
(* reconciliation can always mend that one, and resolution ends.            *)
(***************************************************************************)
EXTENDS Evolution, FiniteSetTheorems, SequenceTheorems, WellFoundedInduction, TLAPS

-----------------------------------------------------------------------------
(* The inductive invariant.                                                  *)

Settled(r) == r.state \in {"active", "rolled_back"}
Cleared(r) == r.rollout = NoRollout \/ ActivationReady(r.rollout)

\* What a record's state says about its past, in the store and in every copy.
Sound(r) ==
    /\ r.state \in ProposalStates \ {"absent", "proposed", "evaluated"} => r.passed
    /\ Settled(r) => Cleared(r)

SoundInv ==
    /\ \A p \in Proposals : Sound(records[p])
    /\ \A e \in Engines, p \in Proposals : Sound(view[e][p])

\* A binding is there once, and an artifact has one replacement.
CatalogInv ==
    /\ \A i, j \in DOMAIN catalog : catalog[i] = catalog[j] => i = j
    /\ \A p, q \in Bound : Base[p] = Base[q] => p = q

\* What an engine knows in the middle of a mutation.
Mutating(e) == pc[e] \notin {"closed", "open"}
EngineAt(e) ==
    /\ e \in Commands /\ pc[e] = "open" => want[e] \in Proposals
    /\ pc[e] \in {"bind", "compensate"} =>
         /\ want[e] \in Proposals \ Bound
         /\ ActiveIn(view[e]) = Bound \cup {want[e]}
    /\ pc[e] = "unbind" =>
         /\ want[e] \in Bound \ ActiveIn(view[e])
         /\ Bound = ActiveIn(view[e]) \cup {want[e]}
    /\ pc[e] = "ok" => Bound = ActiveIn(view[e])
EngineInv == \A e \in Engines : EngineAt(e)

\* As long as nothing set the stores apart: the engine in a mutation knows what
\* is active and what was rolled back, and the stores differ in one proposal,
\* which the next reconciliation mends or the activation is about to bind.
Agree(r, s) == Settled(r) \/ Settled(s) => r.state = s.state
Differing == (ActiveIn(records) \ Bound) \cup (Bound \ ActiveIn(records))
Mendable(p) ==
    \/ p \notin Bound /\ Admits(p)
    \/ p \in Bound /\ records[p].state = "rolled_back" /\ ~HasDependents(p)
Binding(p) ==
    /\ p \notin Bound
    /\ \E e \in Engines : pc[e] \in {"bind", "compensate"} /\ want[e] = p

StoresInv ==
    scar = "none" =>
        /\ \A e \in Engines, p \in Proposals : Mutating(e) => Agree(view[e][p], records[p])
        /\ \A p, q \in Differing : p = q
        /\ \A p \in Differing : Mendable(p) \/ Binding(p)
        /\ \A e \in Engines : pc[e] # "stuck"

EvolutionInv == EnginesTypeOK /\ SoundInv /\ CatalogInv /\ EngineInv /\ StoresInv

-----------------------------------------------------------------------------
(* Least elements, and the removal of a binding.                             *)

LEMMA HasLeast ==
    ASSUME NEW S \in SUBSET Nat, S # {}
    PROVE  \E n \in S : \A m \in S : n <= m
<1> DEFINE R == OpToRel(<, Nat)
<1>1. R = {pair \in Nat \X Nat : pair[1] < pair[2]}
  BY DEF OpToRel
<1>2. IsWellFoundedOn(R, Nat)
  BY NatLessThanWellFounded
<1> HIDE DEF R
<1>3. PICK n \in S : \A m \in S : <<m, n>> \notin R
  BY <1>2, WFMin
<1>4. \A m \in S : ~(m < n)
  BY <1>1, <1>3
<1> QED BY <1>3, <1>4

LEMMA LeastMember ==
    ASSUME NEW S \in SUBSET Nat, S # {}
    PROVE  Least(S) \in S /\ Min(S) \in S
BY HasLeast DEF Least, Min

\* Removing a member of a catalog without duplicates.
LEMMA Removal ==
    ASSUME NEW s \in Seq(Proposals), \A i, j \in DOMAIN s : s[i] = s[j] => i = j,
           NEW p \in ToSet(s)
    PROVE  /\ RemoveFirst(s, p) \in Seq(Proposals)
           /\ \A i, j \in DOMAIN RemoveFirst(s, p) :
                RemoveFirst(s, p)[i] = RemoveFirst(s, p)[j] => i = j
           /\ ToSet(RemoveFirst(s, p)) = ToSet(s) \ {p}
<1> DEFINE I == {i \in 1..Len(s) : s[i] = p}
           k == Min(I)
           n == Len(s)
           t == [i \in 1..(n - 1) |-> IF i < k THEN s[i] ELSE s[i + 1]]
<1>1. PICK j \in DOMAIN s : s[j] = p
  BY DEF ToSet
<1>2. n \in Nat /\ DOMAIN s = 1..n /\ I # {} /\ I \subseteq Nat
  BY <1>1
<1>3. k \in I
  <2> HIDE DEF I
  <2> QED BY <1>2, LeastMember
<1>4. k \in 1..n /\ s[k] = p /\ \A i \in 1..n : s[i] = p => i = k
  BY <1>2, <1>3
<1>5. RemoveFirst(s, p) = RemoveAt(s, k)
  BY <1>1, <1>2 DEF RemoveFirst, SelectInSeq
<1> HIDE DEF k
<1>6. RemoveAt(s, k) = t
  <2>1. /\ SubSeq(s, 1, k - 1) \in Seq(Proposals) /\ Len(SubSeq(s, 1, k - 1)) = k - 1
        /\ \A i \in 1..(k - 1) : SubSeq(s, 1, k - 1)[i] = s[i]
    <3>1. 1 \in Int /\ k - 1 \in Int /\ \A i \in 1..(k - 1) : s[i] \in Proposals
      BY <1>2, <1>4
    <3> QED BY <1>2, <1>4, <3>1, SubSeqProperties
  <2>2. /\ SubSeq(s, k + 1, n) \in Seq(Proposals) /\ Len(SubSeq(s, k + 1, n)) = n - k
        /\ \A i \in 1..(n - k) : SubSeq(s, k + 1, n)[i] = s[k + i]
    <3>1. k + 1 \in Int /\ n \in Int /\ \A i \in (k + 1)..n : s[i] \in Proposals
      BY <1>2, <1>4
    <3>2. /\ SubSeq(s, k + 1, n) \in Seq(Proposals)
          /\ Len(SubSeq(s, k + 1, n)) = IF k + 1 <= n THEN n - (k + 1) + 1 ELSE 0
          /\ \A i \in 1..(n - (k + 1) + 1) : SubSeq(s, k + 1, n)[i] = s[(k + 1) + i - 1]
      <4> HIDE DEF n
      <4> QED BY <3>1, SubSeqProperties
    <3>3. n - (k + 1) + 1 = n - k /\ \A i \in Int : (k + 1) + i - 1 = k + i
      BY <1>2, <1>4
    <3> HIDE DEF n
    <3> QED BY <1>2, <1>4, <3>2, <3>3
  <2> DEFINE a == SubSeq(s, 1, k - 1)
             b == SubSeq(s, k + 1, n)
  <2>3. RemoveAt(s, k) = a \o b
    BY DEF RemoveAt
  <2> HIDE DEF a, b
  <2>4. /\ a \o b \in Seq(Proposals) /\ Len(a \o b) = n - 1
        /\ \A i \in 1..(n - 1) : (a \o b)[i] = IF i < k THEN s[i] ELSE s[i + 1]
    <3> HIDE DEF n
    <3>1. /\ a \in Seq(Proposals) /\ Len(a) = k - 1 /\ \A i \in 1..(k - 1) : a[i] = s[i]
          /\ b \in Seq(Proposals) /\ Len(b) = n - k /\ \A i \in 1..(n - k) : b[i] = s[k + i]
      BY <2>1, <2>2 DEF a, b
    <3>2. (k - 1) + (n - k) = n - 1
      BY <1>2, <1>4
    <3>3. /\ a \o b \in Seq(Proposals) /\ Len(a \o b) = n - 1
          /\ \A i \in 1..(n - 1) : (a \o b)[i] = IF i <= k - 1 THEN a[i] ELSE b[i - (k - 1)]
      <4>1. /\ a \o b \in Seq(Proposals) /\ Len(a \o b) = Len(a) + Len(b)
            /\ \A i \in 1..(Len(a) + Len(b)) :
                 (a \o b)[i] = IF i <= Len(a) THEN a[i] ELSE b[i - Len(a)]
        BY <3>1, ConcatProperties
      <4> QED BY <3>1, <3>2, <4>1
    <3>4. ASSUME NEW i \in 1..(n - 1)
          PROVE  (a \o b)[i] = IF i < k THEN s[i] ELSE s[i + 1]
      <4>1. CASE i < k
        BY <1>2, <1>4, <3>1, <3>3, <4>1
      <4>2. CASE ~(i < k)
        <5>1. i - (k - 1) \in 1..(n - k) /\ k + (i - (k - 1)) = i + 1 /\ ~(i <= k - 1)
          BY <1>2, <1>4, <4>2
        <5> QED BY <3>1, <3>3, <4>2, <5>1
      <4> QED BY <4>1, <4>2
    <3> QED BY <3>3, <3>4
  <2>5. DOMAIN (a \o b) = 1..(n - 1) /\ a \o b = [i \in 1..(n - 1) |-> (a \o b)[i]]
    <3> HIDE DEF n
    <3> DEFINE c == a \o b
    <3>1. c \in Seq(Proposals) /\ Len(c) = n - 1
      BY <2>4
    <3> HIDE DEF c
    <3>2. DOMAIN c = 1..(n - 1) /\ c = [i \in 1..(n - 1) |-> c[i]]
      BY <3>1
    <3> QED BY <3>2 DEF c
  <2> HIDE DEF n
  <2> QED BY <2>3, <2>4, <2>5
<1>7. t \in Seq(Proposals) /\ DOMAIN t = 1..(n - 1)
  BY <1>2, <1>4
<1>8. \A i, l \in 1..(n - 1) : t[i] = t[l] => i = l
  BY <1>2, <1>4
<1>9. ToSet(t) = ToSet(s) \ {p}
  <2>1. \A i \in 1..(n - 1) : t[i] \in ToSet(s) \ {p}
    BY <1>2, <1>4 DEF ToSet
  <2>2. ASSUME NEW i \in 1..n, s[i] # p
        PROVE  \E l \in 1..(n - 1) : t[l] = s[i]
    <3>1. CASE i < k
      <4>1. i \in 1..(n - 1) /\ t[i] = s[i]
        BY <1>2, <1>4, <3>1
      <4> QED BY <4>1
    <3>2. CASE ~(i < k)
      <4>1. i - 1 \in 1..(n - 1) /\ t[i - 1] = s[i]
        BY <1>2, <1>4, <2>2, <3>2
      <4> QED BY <4>1
    <3> QED BY <3>1, <3>2
  <2> HIDE DEF t, n
  <2>3. ToSet(t) \subseteq ToSet(s) \ {p}
    BY <1>7, <2>1 DEF ToSet
  <2>4. ToSet(s) \ {p} \subseteq ToSet(t)
    BY <1>2, <1>7, <2>2 DEF ToSet
  <2> QED BY <2>3, <2>4
<1> HIDE DEF t
<1> QED BY <1>5, <1>6, <1>7, <1>8, <1>9

LEMMA Addition ==
    ASSUME NEW s \in Seq(Proposals), \A i, j \in DOMAIN s : s[i] = s[j] => i = j,
           NEW p \in Proposals \ ToSet(s)
    PROVE  /\ Append(s, p) \in Seq(Proposals)
           /\ \A i, j \in DOMAIN Append(s, p) : Append(s, p)[i] = Append(s, p)[j] => i = j
           /\ ToSet(Append(s, p)) = ToSet(s) \cup {p}
<1> DEFINE t == Append(s, p)
           n == Len(s)
<1>1. /\ n \in Nat /\ DOMAIN s = 1..n /\ t \in Seq(Proposals) /\ DOMAIN t = 1..(n + 1)
      /\ \A i \in 1..n : t[i] = s[i]
      /\ t[n + 1] = p
  OBVIOUS
<1>2. \A i \in 1..n : s[i] # p
  BY <1>1 DEF ToSet
<1> HIDE DEF t
<1>3. \A i, j \in 1..(n + 1) : t[i] = t[j] => i = j
  BY <1>1, <1>2
<1>4. ToSet(t) = ToSet(s) \cup {p}
  <2>1. \A i \in 1..(n + 1) : t[i] \in ToSet(s) \cup {p}
    BY <1>1 DEF ToSet
  <2>2. \A i \in 1..n : s[i] \in ToSet(t)
    BY <1>1 DEF ToSet
  <2>3. p \in ToSet(t)
    BY <1>1 DEF ToSet
  <2> QED BY <1>1, <2>1, <2>2, <2>3 DEF ToSet
<1> QED BY <1>1, <1>3, <1>4 DEF t

-----------------------------------------------------------------------------
(* Records.                                                                  *)

Staged == [status : RolloutStatus, stage : 0..LastStage, pending : BOOLEAN,
           retries : 0..MaxRetries]

LEMMA FreshRollout ==
    /\ NoRollout \in Rollouts /\ NewRollout \in Rollouts
    /\ [NoRollout EXCEPT !.status = "complete", !.stage = LastStage] \in Rollouts
    /\ [NoRollout EXCEPT !.status = "rolled_back"] \in Rollouts
<1>1. NoRollout \in Rollouts /\ Staged \subseteq Rollouts
  BY DEF Rollouts, Staged
<1>2. 0 \in 0..LastStage /\ LastStage \in 0..LastStage /\ 0 \in 0..MaxRetries
  BY RolloutAssumption
<1>3. \A status \in RolloutStatus : [NoRollout EXCEPT !.status = status] \in Staged
  BY <1>2, Zenon DEF NoRollout, Staged
<1>4. \A status \in RolloutStatus, stage \in 0..LastStage :
        [NoRollout EXCEPT !.status = status, !.stage = stage] \in Staged
  BY <1>2, Zenon DEF NoRollout, Staged
<1> QED BY <1>1, <1>2, <1>3, <1>4 DEF NewRollout, RolloutStatus

LEMMA RolloutSteps ==
    ASSUME NEW r \in Rollouts, NEW s \in CommandTransitions(r)
    PROVE  s \in Rollouts
<1>1. r = NoRollout \/ r \in Staged
  BY DEF Rollouts, Staged
<1>2. CASE r = NoRollout
  BY <1>2 DEF CommandTransitions, ServiceTransitions, Score, ApprovePromotion, Promote, Pause,
       Resume, Reject, Retry, MarkRolledBack, NoRollout
<1>3. CASE r \in Staged
  <2>1. /\ r.status \in RolloutStatus /\ r.stage \in 0..LastStage /\ r.pending \in BOOLEAN
        /\ r.retries \in 0..MaxRetries
    BY <1>3 DEF Staged
  <2>2. Staged \subseteq Rollouts
    BY DEF Staged, Rollouts
  <2>3. ASSUME NEW status \in RolloutStatus, NEW stage \in 0..LastStage, NEW pending \in BOOLEAN,
               NEW retries \in 0..MaxRetries
        PROVE  [status |-> status, stage |-> stage, pending |-> pending, retries |-> retries] \in Staged
    BY Zenon DEF Staged
  <2>4. ASSUME NEW status \in RolloutStatus
        PROVE  [r EXCEPT !.status = status] \in Staged
    BY <1>3 DEF Staged
  <2>5. ASSUME NEW status \in RolloutStatus, NEW pending \in BOOLEAN, NEW retries \in 0..MaxRetries
        PROVE  [r EXCEPT !.status = status, !.pending = pending, !.retries = retries] \in Staged
    BY <1>3, Zenon DEF Staged
  <2>6. s \in Score(r) \cup Pause(r) \cup Resume(r) => s \in Rollouts
    BY <2>2, <2>4 DEF Score, Pause, Resume, RolloutStatus
  <2>7. s \in ApprovePromotion(r) => s \in Rollouts
    <3>1. [r EXCEPT !.pending = TRUE] \in Staged
      BY <1>3, Zenon DEF Staged
    <3> QED BY <2>2, <3>1 DEF ApprovePromotion
  <2>8. s \in Promote(r) => s \in Rollouts
    <3>1. r.stage < LastStage => r.stage + 1 \in 0..LastStage
      BY <2>1, RolloutAssumption
    <3>2. 0 \in 0..MaxRetries /\ "running" \in RolloutStatus /\ FALSE \in BOOLEAN
      BY RolloutAssumption DEF RolloutStatus
    <3>3. r.stage < LastStage =>
            [status |-> "running", stage |-> r.stage + 1, pending |-> FALSE, retries |-> 0] \in Staged
      BY <2>3, <3>1, <3>2
    <3>4. s \in Promote(r) =>
            s = IF r.stage < LastStage
                THEN [status |-> "running", stage |-> r.stage + 1, pending |-> FALSE, retries |-> 0]
                ELSE [NoRollout EXCEPT !.status = "complete", !.stage = LastStage]
      BY DEF Promote
    <3> QED BY <2>2, <3>3, <3>4, FreshRollout
  <2>9. s \in Reject(r) => s \in Rollouts
    <3>1. [r EXCEPT !.status = "rejected", !.pending = FALSE] \in Staged
      <4>1. "rejected" \in RolloutStatus
        BY DEF RolloutStatus
      <4> QED BY <1>3, <4>1, Zenon DEF Staged
    <3> QED BY <2>2, <3>1 DEF Reject
  <2>10. s \in Retry(r) => s \in Rollouts
    <3>1. r.retries < MaxRetries => r.retries + 1 \in 0..MaxRetries
      BY <2>1, RolloutAssumption
    <3>2. "running" \in RolloutStatus /\ FALSE \in BOOLEAN
      BY DEF RolloutStatus
    <3>3. s \in Retry(r) =>
            /\ r.retries < MaxRetries
            /\ s = [r EXCEPT !.status = "running", !.pending = FALSE, !.retries = r.retries + 1]
      BY <1>3 DEF Retry, Staged
    <3> QED BY <2>2, <2>5, <3>1, <3>2, <3>3
  <2>11. s \in MarkRolledBack(r) => s \in Rollouts
    BY FreshRollout DEF MarkRolledBack
  <2> QED BY <2>6, <2>7, <2>8, <2>9, <2>10, <2>11 DEF CommandTransitions, ServiceTransitions
<1> QED BY <1>1, <1>2, <1>3

\* The operations before an activation start from and lead to unsettled records.
LEMMA AdvanceFacts ==
    ASSUME NEW r \in Records, Sound(r), NEW s \in Advance(r)
    PROVE  s \in Records /\ Sound(s) /\ ~Settled(r) /\ ~Settled(s)
<1> USE DEF Records, Sound, Settled, ProposalStates
<1>1. CASE r.state = "absent"
  BY <1>1 DEF Advance
<1>2. CASE r.state = "proposed"
  BY <1>2 DEF Advance
<1>3. CASE r.state = "evaluated"
  BY <1>3 DEF Advance
<1>4. CASE r.state = "approved"
  BY <1>4 DEF Advance
<1>5. CASE r.state = "staged"
  BY <1>5 DEF Advance
<1>6. CASE r.state \in {"canary_passed", "canary_failed", "active", "rolled_back"}
  BY <1>6 DEF Advance
<1> QED BY <1>1, <1>2, <1>3, <1>4, <1>5, <1>6

\* A record with another rollout, while it is not settled, or another state.
LEMMA RolloutFacts ==
    ASSUME NEW r \in Records, Sound(r), r.state = "canary_passed", NEW rollout \in Rollouts
    PROVE  /\ [r EXCEPT !.rollout = rollout] \in Records
           /\ [r EXCEPT !.rollout = rollout].state = "canary_passed"
           /\ Sound([r EXCEPT !.rollout = rollout])
BY DEF Records, Sound, Settled, ProposalStates

LEMMA StateFacts ==
    ASSUME NEW r \in Records, Sound(r), NEW state \in {"active", "rolled_back"},
           r.state \in {"canary_passed", "active"}, Cleared(r)
    PROVE  /\ [r EXCEPT !.state = state] \in Records
           /\ [r EXCEPT !.state = state].state = state
           /\ Sound([r EXCEPT !.state = state])
BY DEF Records, Sound, Settled, ProposalStates, Cleared

-----------------------------------------------------------------------------
(* The parts of the invariant, through the steps of one engine.              *)

\* One engine at most is in the middle of a mutation.
LEMMA OneMutates ==
    ASSUME EnginesTypeOK, NEW e \in Engines, NEW f \in Engines, Mutating(e), Mutating(f)
    PROVE  e = f
BY DEF EnginesTypeOK, Mutating

\* An untouched catalog admits the same proposals and has the same dependents.
LEMMA CatalogSame ==
    ASSUME catalog' = catalog
    PROVE  /\ Bound' = Bound
           /\ \A p \in Proposals : Admits(p)' <=> Admits(p)
           /\ \A p \in Proposals : HasDependents(p)' <=> HasDependents(p)
           /\ CatalogInv => CatalogInv'
<1>1. Bound' = Bound
  BY DEF Bound
<1>2. \A p \in Proposals : Admits(p)' <=> Admits(p)
  BY <1>1 DEF Admits, ClosesNoCycle, Resolves, Resolve
<1>3. \A p \in Proposals : HasDependents(p)' <=> HasDependents(p)
  BY <1>1 DEF HasDependents
<1> QED BY <1>1, <1>2, <1>3 DEF CatalogInv

LEMMA BoundProposals ==
    ASSUME EnginesTypeOK
    PROVE  Bound \subseteq Proposals /\ Differing \subseteq Proposals
BY DEF EnginesTypeOK, Bound, ToSet, Differing, ActiveIn

\* Nobody but e does anything.
Alone(e) ==
    \A f \in Engines \ {e} : pc'[f] = pc[f] /\ want'[f] = want[f] /\ view'[f] = view[f]

\* Engine e outside a mutation: it may write records nobody settled.
LEMMA OutsideKeeps ==
    ASSUME EvolutionInv, NEW e \in Engines, ~Mutating(e), ~Mutating(e)', Alone(e),
           EnginesTypeOK', catalog' = catalog, SoundInv',
           e \in Commands /\ pc'[e] = "open" => want'[e] \in Proposals,
           scar' = "none" => scar = "none" /\ \A p \in Proposals : Agree(records'[p], records[p])
    PROVE  EvolutionInv'
<1>1. EnginesTypeOK /\ CatalogInv /\ EngineInv /\ StoresInv
  BY DEF EvolutionInv
<1>2. /\ Bound' = Bound /\ CatalogInv'
      /\ \A p \in Proposals : Admits(p)' <=> Admits(p)
      /\ \A p \in Proposals : HasDependents(p)' <=> HasDependents(p)
  BY <1>1, CatalogSame
<1>3. EngineInv'
  <2>1. EngineAt(e)'
    BY DEF EngineAt, Mutating
  <2>2. \A f \in Engines \ {e} : EngineAt(f)'
    BY <1>1, <1>2 DEF EngineInv, EngineAt, Alone, ActiveIn
  <2> QED BY <2>1, <2>2 DEF EngineInv
<1>4. StoresInv'
  <2> SUFFICES ASSUME scar' = "none" PROVE StoresInv'
    BY DEF StoresInv
  <2>1. scar = "none" /\ \A p \in Proposals : Agree(records'[p], records[p])
    OBVIOUS
  <2>2. ActiveIn(records') = ActiveIn(records)
    BY <2>1 DEF ActiveIn, Agree, Settled
  <2>3. Differing' = Differing /\ Differing \subseteq Proposals
    BY <1>1, <1>2, <2>2, BoundProposals DEF Differing
  <2>4. ASSUME NEW f \in Engines, NEW p \in Proposals, Mutating(f)'
        PROVE  Agree(view'[f][p], records'[p])
    <3>1. f # e /\ Mutating(f) /\ view'[f] = view[f]
      BY <2>4 DEF Alone, Mutating
    <3>2. Agree(view[f][p], records[p])
      BY <1>1, <2>1, <3>1 DEF StoresInv
    <3> QED BY <2>1, <3>1, <3>2 DEF Agree, Settled
  <2>5. ASSUME NEW p \in Differing
        PROVE  Mendable(p)' \/ Binding(p)'
    <3>1. Mendable(p) => Mendable(p)'
      BY <1>2, <2>1, <2>3 DEF Mendable, Agree, Settled
    <3>2. Binding(p) => Binding(p)'
      BY <1>2 DEF Binding, Alone, Mutating
    <3> QED BY <1>1, <2>1, <3>1, <3>2 DEF StoresInv
  <2>6. \A f \in Engines : pc'[f] # "stuck"
    BY <1>1, <2>1 DEF StoresInv, Alone, Mutating
  <2> QED BY <1>1, <2>1, <2>3, <2>4, <2>5, <2>6 DEF StoresInv
<1> QED BY <1>2, <1>3, <1>4 DEF EvolutionInv

\* What StoresInv says when e is the engine in the mutation.
StoresAt(e) ==
    scar = "none" =>
        /\ Mutating(e) => \A p \in Proposals : Agree(view[e][p], records[p])
        /\ \A p, q \in Differing : p = q
        /\ \A p \in Differing : Mendable(p) \/ Binding(p)
        /\ pc[e] # "stuck"

\* Engine e in the middle of its mutation.
LEMMA MutatorKeeps ==
    ASSUME EvolutionInv, NEW e \in Engines, Mutating(e), Alone(e),
           EnginesTypeOK', SoundInv', CatalogInv', EngineAt(e)', StoresAt(e)'
    PROVE  EvolutionInv'
<1>1. EnginesTypeOK /\ EngineInv
  BY DEF EvolutionInv
<1>2. \A f \in Engines \ {e} : ~Mutating(f) /\ ~Mutating(f)'
  BY <1>1, OneMutates DEF Mutating, Alone
<1>3. EngineInv'
  <2>1. \A f \in Engines \ {e} : EngineAt(f)'
    BY <1>1, <1>2 DEF EngineInv, EngineAt, Alone, Mutating
  <2> QED BY <2>1 DEF EngineInv
<1>4. StoresInv'
  BY <1>2 DEF StoresInv, StoresAt, Mutating
<1> QED BY <1>3, <1>4 DEF EvolutionInv

\* What the invariant says of the engine in the mutation.
LEMMA MutatorFacts ==
    ASSUME EvolutionInv, NEW e \in Engines, Mutating(e)
    PROVE  /\ EnginesTypeOK /\ SoundInv /\ CatalogInv /\ EngineAt(e) /\ StoresAt(e)
           /\ guard = e
           /\ Bound \subseteq Proposals /\ Differing \subseteq Proposals
           /\ scar = "none" => \A p \in Differing : Mendable(p) \/ (Binding(p) /\ want[e] = p)
           /\ pc[e] \notin {"bind", "compensate"} => \A p \in Proposals : ~Binding(p)
<1>1. EnginesTypeOK /\ SoundInv /\ CatalogInv /\ EngineAt(e) /\ StoresAt(e) /\ guard = e
  BY DEF EvolutionInv, EngineInv, StoresInv, StoresAt, EnginesTypeOK, Mutating
<1>2. \A p \in Proposals : Binding(p) => pc[e] \in {"bind", "compensate"} /\ want[e] = p
  <2> SUFFICES ASSUME NEW p \in Proposals, Binding(p)
               PROVE  pc[e] \in {"bind", "compensate"} /\ want[e] = p
    OBVIOUS
  <2>1. PICK f \in Engines : pc[f] \in {"bind", "compensate"} /\ want[f] = p
    BY DEF Binding
  <2>2. f = e
    BY <1>1, <2>1, OneMutates DEF Mutating
  <2> QED BY <2>1, <2>2
<1>3. Bound \subseteq Proposals /\ Differing \subseteq Proposals
  BY <1>1, BoundProposals
<1> QED BY <1>1, <1>2, <1>3 DEF StoresAt

-----------------------------------------------------------------------------
(* Reading and writing records.                                              *)

LEMMA SaveFacts ==
    ASSUME EnginesTypeOK, SoundInv, NEW e \in Engines, NEW p \in Proposals,
           NEW record \in Records, Sound(record), Save(e, p, record)
    PROVE  /\ records' \in [Proposals -> Records] /\ view' \in [Engines -> [Proposals -> Records]]
           /\ SoundInv' /\ records'[p] = record /\ view'[e][p] = record
           /\ \A q \in Proposals \ {p} : records'[q] = records[q] /\ view'[e][q] = view[e][q]
           /\ \A f \in Engines \ {e} : view'[f] = view[f]
<1>1. records \in [Proposals -> Records] /\ view \in [Engines -> [Proposals -> Records]]
  BY DEF EnginesTypeOK
<1>2. records' = [records EXCEPT ![p] = record]
      /\ view' = [view EXCEPT ![e] = [view[e] EXCEPT ![p] = record]]
  BY <1>1 DEF Save, Store
<1>3. /\ records' \in [Proposals -> Records] /\ view' \in [Engines -> [Proposals -> Records]]
      /\ records'[p] = record /\ view'[e][p] = record
      /\ \A q \in Proposals \ {p} : records'[q] = records[q] /\ view'[e][q] = view[e][q]
      /\ \A f \in Engines \ {e} : view'[f] = view[f]
  BY <1>1, <1>2
<1>4. \A q \in Proposals : Sound(records'[q])
  BY <1>3 DEF SoundInv
<1>5. \A f \in Engines, q \in Proposals : Sound(view'[f][q])
  BY <1>3 DEF SoundInv
<1> QED BY <1>3, <1>4, <1>5 DEF SoundInv

LEMMA MarkFacts ==
    ASSUME EnginesTypeOK, NEW condition, NEW cause \in {"stale", "dependents", "uncompensated"},
           Mark(condition, cause)
    PROVE  /\ scar' \in {"none", "stale", "dependents", "uncompensated"}
           /\ scar' = "none" => scar = "none" /\ ~condition
BY DEF Mark, EnginesTypeOK

LEMMA UnopenedFacts ==
    Unopened \in [Proposals -> Records] /\ \A p \in Proposals : Sound(Unopened[p])
<1>1. Absent \in Records
  BY FreshRollout, Zenon DEF Absent, Records, ProposalStates
<1>2. Absent.state = "absent"
  BY DEF Absent
<1>3. Sound(Absent)
  BY <1>2 DEF Sound, Settled
<1> QED BY <1>1, <1>3 DEF Unopened

\* Engine e takes another copy of the records.
LEMMA ViewFacts ==
    ASSUME EnginesTypeOK, SoundInv, NEW e \in Engines, NEW copy \in [Proposals -> Records],
           \A p \in Proposals : Sound(copy[p]), view' = [view EXCEPT ![e] = copy], records' = records
    PROVE  /\ view' \in [Engines -> [Proposals -> Records]] /\ view'[e] = copy /\ SoundInv'
           /\ \A f \in Engines \ {e} : view'[f] = view[f]
<1>1. view \in [Engines -> [Proposals -> Records]]
  BY DEF EnginesTypeOK
<1>2. /\ view' \in [Engines -> [Proposals -> Records]] /\ view'[e] = copy
      /\ \A f \in Engines \ {e} : view'[f] = view[f]
  BY <1>1
<1>3. \A f \in Engines, p \in Proposals : Sound(view'[f][p])
  BY <1>2 DEF SoundInv
<1> QED BY <1>2, <1>3 DEF SoundInv

\* Engine e goes to another place, and the guard with it.
LEMMA PlaceFacts ==
    ASSUME EnginesTypeOK, NEW e \in Engines, NEW place \in Places, GoTo(e, place)
    PROVE  /\ pc' \in [Engines -> Places] /\ pc'[e] = place
           /\ \A f \in Engines \ {e} : pc'[f] = pc[f]
BY DEF EnginesTypeOK, GoTo

-----------------------------------------------------------------------------
(* The steps outside a mutation.                                             *)

LEMMA StartServiceKeeps ==
    ASSUME EvolutionInv, NEW e \in Engines, StartService(e)
    PROVE  EvolutionInv'
<1>1. EnginesTypeOK /\ SoundInv
  BY DEF EvolutionInv
<1>2. GoTo(e, "open") /\ "open" \in Places /\ e \in Services
  BY DEF StartService, GoTo, Places
<1>3. /\ pc' \in [Engines -> Places] /\ pc'[e] = "open"
      /\ \A f \in Engines \ {e} : pc'[f] = pc[f]
  BY <1>1, <1>2, PlaceFacts
<1>4. /\ view' \in [Engines -> [Proposals -> Records]] /\ SoundInv'
      /\ \A f \in Engines \ {e} : view'[f] = view[f]
  BY <1>1, ViewFacts DEF StartService, EnginesTypeOK, SoundInv
<1>5. ~Mutating(e) /\ ~Mutating(e)' /\ e \notin Commands
  BY <1>2, <1>3, EvolutionAssumption DEF Mutating, StartService
<1>6. UNCHANGED <<records, catalog, guard, want, scar>>
  BY DEF StartService
<1>7. EnginesTypeOK'
  BY <1>1, <1>3, <1>4, <1>5, <1>6 DEF EnginesTypeOK, Mutating
<1>8. Alone(e)
  BY <1>3, <1>4, <1>6 DEF Alone
<1>9. \A p \in Proposals : Agree(records'[p], records[p])
  BY <1>6 DEF Agree
<1> QED BY <1>4, <1>5, <1>6, <1>7, <1>8, <1>9, OutsideKeeps

LEMMA StartCommandKeeps ==
    ASSUME EvolutionInv, NEW e \in Engines, NEW p \in Proposals, StartCommand(e, p)
    PROVE  EvolutionInv'
<1>1. EnginesTypeOK /\ SoundInv
  BY DEF EvolutionInv
<1>2. GoTo(e, "open") /\ "open" \in Places /\ e \in Commands
  BY DEF StartCommand, GoTo, Places
<1>3. /\ pc' \in [Engines -> Places] /\ pc'[e] = "open"
      /\ \A f \in Engines \ {e} : pc'[f] = pc[f]
  BY <1>1, <1>2, PlaceFacts
<1>4. UNCHANGED <<records, catalog, guard, scar>>
  BY DEF StartCommand
<1>5. /\ view' \in [Engines -> [Proposals -> Records]] /\ SoundInv'
      /\ \A f \in Engines \ {e} : view'[f] = view[f]
  <2> DEFINE copy == [view[e] EXCEPT ![p] = records[p]]
  <2>1. copy \in [Proposals -> Records] /\ \A q \in Proposals : Sound(copy[q])
    BY <1>1 DEF EnginesTypeOK, SoundInv
  <2>2. view' = [view EXCEPT ![e] = copy]
    BY <1>1 DEF StartCommand, EnginesTypeOK
  <2> HIDE DEF copy
  <2> QED BY <1>1, <1>4, <2>1, <2>2, ViewFacts
<1>6. want' \in [Engines -> Proposals \cup {0}] /\ want'[e] = p
      /\ \A f \in Engines \ {e} : want'[f] = want[f]
  BY <1>1 DEF StartCommand, EnginesTypeOK
<1>7. ~Mutating(e) /\ ~Mutating(e)'
  BY <1>3 DEF Mutating, StartCommand
<1>8. EnginesTypeOK'
  BY <1>1, <1>3, <1>4, <1>5, <1>6, <1>7 DEF EnginesTypeOK, Mutating
<1>9. Alone(e)
  BY <1>3, <1>5, <1>6 DEF Alone
<1>10. \A q \in Proposals : Agree(records'[q], records[q])
  BY <1>4 DEF Agree
<1> QED BY <1>4, <1>5, <1>6, <1>7, <1>8, <1>9, <1>10, OutsideKeeps

\* An engine that is over, having changed no record.
LEMMA RefusedKeeps ==
    ASSUME EvolutionInv, NEW e \in Engines, Refused(e)
    PROVE  EvolutionInv'
<1>1. EnginesTypeOK /\ SoundInv
  BY DEF EvolutionInv
<1>2. GoTo(e, "closed") /\ "closed" \in Places
  BY DEF Refused, GoTo, Places
<1>3. /\ pc' \in [Engines -> Places] /\ pc'[e] = "closed"
      /\ \A f \in Engines \ {e} : pc'[f] = pc[f]
  BY <1>1, <1>2, PlaceFacts
<1>4. UNCHANGED <<records, catalog, guard, scar>>
  BY DEF Refused
<1>5. /\ view' \in [Engines -> [Proposals -> Records]] /\ SoundInv'
      /\ \A f \in Engines \ {e} : view'[f] = view[f]
  BY <1>1, <1>4, UnopenedFacts, ViewFacts DEF Refused
<1>6. want' \in [Engines -> Proposals \cup {0}]
      /\ \A f \in Engines \ {e} : want'[f] = want[f]
  BY <1>1 DEF Refused, EnginesTypeOK
<1>7. ~Mutating(e) /\ ~Mutating(e)'
  BY <1>3 DEF Mutating, Refused, Operating
<1>8. EnginesTypeOK'
  BY <1>1, <1>3, <1>4, <1>5, <1>6, <1>7 DEF EnginesTypeOK, Mutating
<1>9. Alone(e)
  BY <1>3, <1>5, <1>6 DEF Alone
<1>10. \A q \in Proposals : Agree(records'[q], records[q])
  BY <1>4 DEF Agree
<1> QED BY <1>3, <1>4, <1>5, <1>7, <1>8, <1>9, <1>10, OutsideKeeps

\* A command that writes a record.
LEMMA SettleKeeps ==
    ASSUME EvolutionInv, NEW e \in Engines, Operating(e), NEW record \in Records, Sound(record),
           ~Settled(record), ~Settled(Own(e)), Settle(e, record)
    PROVE  EvolutionInv'
<1> DEFINE p == want[e]
<1>1. EnginesTypeOK /\ SoundInv /\ EngineAt(e)
  BY DEF EvolutionInv, EngineInv
<1>2. p \in Proposals /\ e \in Commands /\ pc[e] = "open"
  BY <1>1 DEF Operating, EngineAt
<1>3. GoTo(e, "closed") /\ "closed" \in Places
  BY DEF Settle, GoTo, Places
<1>4. /\ pc' \in [Engines -> Places] /\ pc'[e] = "closed"
      /\ \A f \in Engines \ {e} : pc'[f] = pc[f]
  BY <1>1, <1>3, PlaceFacts
<1>5. UNCHANGED <<catalog, guard>>
  BY DEF Settle
<1>6. /\ records' \in [Proposals -> Records] /\ records'[p] = record
      /\ \A q \in Proposals \ {p} : records'[q] = records[q]
  BY <1>1, <1>2 DEF Settle, Store, EnginesTypeOK
<1>7. /\ view' \in [Engines -> [Proposals -> Records]] /\ view'[e] = Unopened
      /\ \A f \in Engines \ {e} : view'[f] = view[f]
  BY <1>1, UnopenedFacts DEF Settle, EnginesTypeOK
<1>8. SoundInv'
  <2>1. \A q \in Proposals : Sound(records'[q])
    BY <1>1, <1>6 DEF SoundInv
  <2>2. \A f \in Engines, q \in Proposals : Sound(view'[f][q])
    BY <1>1, <1>7, UnopenedFacts DEF SoundInv
  <2> QED BY <2>1, <2>2 DEF SoundInv
<1>9. want' \in [Engines -> Proposals \cup {0}]
      /\ \A f \in Engines \ {e} : want'[f] = want[f]
  BY <1>1 DEF Settle, EnginesTypeOK
<1>10. /\ scar' \in {"none", "stale", "dependents", "uncompensated"}
       /\ scar' = "none" => scar = "none" /\ ~Stale(e, p)
  BY <1>1, MarkFacts DEF Settle
<1>11. ~Mutating(e) /\ ~Mutating(e)'
  BY <1>2, <1>4 DEF Mutating
<1>12. EnginesTypeOK'
  BY <1>1, <1>4, <1>5, <1>6, <1>7, <1>9, <1>10, <1>11 DEF EnginesTypeOK, Mutating
<1>13. Alone(e)
  BY <1>4, <1>7, <1>9 DEF Alone
<1>14. scar' = "none" => scar = "none" /\ \A q \in Proposals : Agree(records'[q], records[q])
  BY <1>6, <1>10 DEF Agree, Settled, Stale, Own
<1> QED BY <1>4, <1>5, <1>8, <1>11, <1>12, <1>13, <1>14, OutsideKeeps

LEMMA CommandsKeep ==
    ASSUME EvolutionInv, NEW e \in Engines,
           AdvanceProposal(e) \/ ConfigureRollout(e) \/ TransitionRollout(e)
    PROVE  EvolutionInv'
<1>1. EnginesTypeOK /\ SoundInv /\ EngineAt(e) /\ Operating(e)
  BY DEF EvolutionInv, EngineInv, AdvanceProposal, ConfigureRollout, TransitionRollout
<1>2. want[e] \in Proposals
  BY <1>1 DEF Operating, EngineAt
<1>3. Own(e) \in Records /\ Sound(Own(e))
  BY <1>1, <1>2 DEF EnginesTypeOK, SoundInv, Own
<1>4. CASE AdvanceProposal(e)
  <2>1. PICK record \in Advance(Own(e)) : Settle(e, record)
    BY <1>4 DEF AdvanceProposal
  <2>2. record \in Records /\ Sound(record) /\ ~Settled(Own(e)) /\ ~Settled(record)
    BY <1>3, AdvanceFacts
  <2> QED BY <1>1, <2>1, <2>2, SettleKeeps
<1>5. ASSUME NEW rollout \in Rollouts, Own(e).state = "canary_passed",
             Settle(e, [Own(e) EXCEPT !.rollout = rollout])
      PROVE  EvolutionInv'
  <2> DEFINE record == [Own(e) EXCEPT !.rollout = rollout]
  <2>1. record \in Records /\ record.state = "canary_passed" /\ Sound(record)
    BY <1>3, <1>5, RolloutFacts
  <2>2. Settle(e, record)
    BY <1>5
  <2> HIDE DEF record
  <2>3. ~Settled(Own(e)) /\ ~Settled(record)
    BY <1>5, <2>1 DEF Settled
  <2> QED BY <1>1, <2>1, <2>2, <2>3, SettleKeeps
<1>6. CASE ConfigureRollout(e)
  BY <1>5, <1>6, FreshRollout DEF ConfigureRollout
<1>7. CASE TransitionRollout(e)
  <2>1. PICK rollout \in CommandTransitions(Own(e).rollout) :
            Settle(e, [Own(e) EXCEPT !.rollout = rollout])
    BY <1>7 DEF TransitionRollout
  <2>2. Own(e).rollout \in Rollouts /\ Own(e).state = "canary_passed"
    BY <1>3, <1>7 DEF Records, TransitionRollout
  <2>3. rollout \in Rollouts
    BY <2>2, RolloutSteps
  <2> QED BY <1>5, <2>1, <2>2, <2>3
<1> QED BY <1>4, <1>6, <1>7

LEMMA ServeRolloutKeeps ==
    ASSUME EvolutionInv, NEW e \in Engines, NEW p \in Proposals, ServeRollout(e, p)
    PROVE  EvolutionInv'
<1>1. EnginesTypeOK /\ SoundInv /\ CatalogInv
  BY DEF EvolutionInv
<1>2. view[e][p] \in Records /\ Sound(view[e][p]) /\ view[e][p].state = "canary_passed"
      /\ view[e][p].rollout \in Rollouts
  BY <1>1 DEF ServeRollout, EnginesTypeOK, SoundInv, Records
<1>3. PICK rollout \in ServiceTransitions(view[e][p].rollout) :
        Save(e, p, [view[e][p] EXCEPT !.rollout = rollout])
  BY DEF ServeRollout
<1>4. rollout \in Rollouts
  BY <1>2, RolloutSteps DEF CommandTransitions
<1> DEFINE record == [view[e][p] EXCEPT !.rollout = rollout]
<1>5. record \in Records /\ record.state = "canary_passed" /\ Sound(record) /\ Save(e, p, record)
  BY <1>2, <1>3, <1>4, RolloutFacts
<1> HIDE DEF record
<1>6. /\ records' \in [Proposals -> Records] /\ view' \in [Engines -> [Proposals -> Records]]
      /\ SoundInv' /\ records'[p] = record /\ view'[e][p] = record
      /\ \A q \in Proposals \ {p} : records'[q] = records[q] /\ view'[e][q] = view[e][q]
      /\ \A f \in Engines \ {e} : view'[f] = view[f]
  BY <1>1, <1>5, SaveFacts
<1>7. UNCHANGED <<catalog, guard, pc, want>>
  BY DEF ServeRollout
<1>8. /\ scar' \in {"none", "stale", "dependents", "uncompensated"}
      /\ scar' = "none" => scar = "none" /\ ~Stale(e, p)
  BY <1>1, MarkFacts DEF ServeRollout
<1>9. EnginesTypeOK' /\ Alone(e)
  BY <1>1, <1>6, <1>7, <1>8 DEF EnginesTypeOK, Alone
<1>10. \A q \in Proposals : view'[e][q].state = view[e][q].state
  BY <1>2, <1>5, <1>6
<1>11. scar' = "none" => \A q \in Proposals : records'[q].state = records[q].state
  BY <1>2, <1>5, <1>6, <1>8 DEF Stale
<1>12. CASE ~Mutating(e)
  <2>1. scar' = "none" => scar = "none" /\ \A q \in Proposals : Agree(records'[q], records[q])
    BY <1>8, <1>11 DEF Agree
  <2>2. ~Mutating(e)' /\ e \notin Commands
    BY <1>7, <1>12, EvolutionAssumption DEF Mutating, ServeRollout
  <2> QED BY <1>6, <1>7, <1>9, <1>12, <2>1, <2>2, OutsideKeeps
<1>13. CASE Mutating(e)
  <2>1. EngineAt(e) /\ StoresAt(e) /\ Bound \subseteq Proposals /\ Differing \subseteq Proposals
    BY <1>13, MutatorFacts
  <2>2. /\ Bound' = Bound /\ CatalogInv'
        /\ \A q \in Proposals : Admits(q)' <=> Admits(q)
        /\ \A q \in Proposals : HasDependents(q)' <=> HasDependents(q)
    BY <1>1, <1>7, CatalogSame
  <2>3. EngineAt(e)'
    <3>1. ActiveIn(view'[e]) = ActiveIn(view[e])
      BY <1>10 DEF ActiveIn
    <3> QED BY <1>7, <2>1, <2>2, <3>1 DEF EngineAt
  <2>4. StoresAt(e)'
    <3> SUFFICES ASSUME scar' = "none" PROVE StoresAt(e)'
      BY DEF StoresAt
    <3>1. scar = "none" /\ \A q \in Proposals : records'[q].state = records[q].state
      BY <1>8, <1>11
    <3>2. Differing' = Differing
      BY <2>2, <3>1 DEF Differing, ActiveIn
    <3>3. \A q \in Proposals : Agree(view'[e][q], records'[q])
      BY <1>10, <1>13, <2>1, <3>1 DEF StoresAt, Agree, Settled
    <3>4. \A q \in Differing : Mendable(q)' \/ Binding(q)'
      BY <1>7, <2>1, <2>2, <3>1 DEF StoresAt, Mendable, Binding
    <3> QED BY <1>7, <2>1, <3>1, <3>2, <3>3, <3>4 DEF StoresAt
  <2> QED BY <1>6, <1>9, <1>13, <2>2, <2>3, <2>4, MutatorKeeps
<1> QED BY <1>12, <1>13

-----------------------------------------------------------------------------
(* A mutation: the guard, the reconciliation.                                *)

LEMMA AcquireKeeps ==
    ASSUME EvolutionInv, NEW e \in Engines, Acquire(e)
    PROVE  EvolutionInv'
<1>1. EnginesTypeOK /\ SoundInv /\ CatalogInv /\ EngineInv /\ StoresInv
  BY DEF EvolutionInv
<1>2. guard = "free" /\ guard' = e /\ UNCHANGED <<records, catalog, want>>
      /\ GoTo(e, "reconcile") /\ "reconcile" \in Places /\ guard \notin Engines
  BY EvolutionAssumption DEF Acquire, GoTo, Places, Engines
<1>3. \A f \in Engines : ~Mutating(f)
  BY <1>1, <1>2 DEF EnginesTypeOK, Mutating
<1>4. /\ pc' \in [Engines -> Places] /\ pc'[e] = "reconcile"
      /\ \A f \in Engines \ {e} : pc'[f] = pc[f]
  BY <1>1, <1>2, PlaceFacts
<1>5. /\ view' \in [Engines -> [Proposals -> Records]] /\ SoundInv'
      /\ \A f \in Engines \ {e} : view'[f] = view[f]
      /\ scar' \in {"none", "stale", "dependents", "uncompensated"}
      /\ scar' = "none" => scar = "none" /\ \A p \in Proposals : Agree(view'[e][p], records[p])
  <2>1. CASE e \in Commands
    <3>1. view' = [view EXCEPT ![e] = records] /\ scar' = scar
      BY <2>1 DEF Acquire
    <3>2. records \in [Proposals -> Records] /\ \A p \in Proposals : Sound(records[p])
      BY <1>1 DEF EnginesTypeOK, SoundInv
    <3>3. /\ view' \in [Engines -> [Proposals -> Records]] /\ view'[e] = records /\ SoundInv'
          /\ \A f \in Engines \ {e} : view'[f] = view[f]
      BY <1>1, <1>2, <3>1, <3>2, ViewFacts
    <3>4. \A p \in Proposals : Agree(view'[e][p], records[p])
      BY <3>3 DEF Agree
    <3> QED BY <1>1, <3>1, <3>3, <3>4 DEF EnginesTypeOK
  <2>2. CASE e \notin Commands
    <3>1. view' = view /\ Mark(Outdated(e), "stale")
      BY <2>2 DEF Acquire
    <3>2. /\ scar' \in {"none", "stale", "dependents", "uncompensated"}
          /\ scar' = "none" => scar = "none" /\ ~Outdated(e)
      BY <1>1, <3>1, MarkFacts
    <3>3. ~Outdated(e) => \A p \in Proposals : Agree(view[e][p], records[p])
      BY DEF Outdated, Agree, Settled
    <3> QED BY <1>1, <1>2, <3>1, <3>2, <3>3 DEF EnginesTypeOK, SoundInv
  <2> QED BY <2>1, <2>2
<1>6. EnginesTypeOK'
  <2>1. \A f \in Engines : guard' = f <=> pc'[f] \notin {"closed", "open"}
    BY <1>2, <1>3, <1>4 DEF Mutating
  <2> QED BY <1>1, <1>2, <1>4, <1>5, <2>1 DEF EnginesTypeOK
<1>7. /\ Bound' = Bound /\ CatalogInv'
      /\ \A p \in Proposals : Admits(p)' <=> Admits(p)
      /\ \A p \in Proposals : HasDependents(p)' <=> HasDependents(p)
  BY <1>1, <1>2, CatalogSame
<1>8. EngineInv'
  <2>1. EngineAt(e)'
    BY <1>4 DEF EngineAt
  <2>2. \A f \in Engines \ {e} : EngineAt(f)'
    BY <1>1, <1>2, <1>3, <1>4 DEF EngineInv, EngineAt, Mutating
  <2> QED BY <2>1, <2>2 DEF EngineInv
<1>9. StoresInv'
  <2> SUFFICES ASSUME scar' = "none" PROVE StoresInv'
    BY DEF StoresInv
  <2>1. scar = "none" /\ \A p \in Proposals : Agree(view'[e][p], records'[p])
    BY <1>2, <1>5
  <2>2. Differing' = Differing /\ Differing \subseteq Proposals
    BY <1>1, <1>2, <1>7, BoundProposals DEF Differing
  <2>3. \A f \in Engines, p \in Proposals : Mutating(f)' => Agree(view'[f][p], records'[p])
    BY <1>3, <1>4, <2>1 DEF Mutating
  <2>4. \A p \in Differing : Mendable(p)'
    <3>1. \A p \in Proposals : ~Binding(p)
      BY <1>3 DEF Binding, Mutating
    <3>2. \A p \in Differing : Mendable(p)
      BY <1>1, <2>1, <2>2, <3>1 DEF StoresInv
    <3> QED BY <1>2, <1>7, <2>2, <3>2 DEF Mendable
  <2>5. \A f \in Engines : pc'[f] # "stuck"
    BY <1>1, <1>4, <2>1 DEF StoresInv
  <2> QED BY <1>1, <2>1, <2>2, <2>3, <2>4, <2>5 DEF StoresInv
<1> QED BY <1>5, <1>6, <1>7, <1>8, <1>9 DEF EvolutionInv

LEMMA ReconcileBindingKeeps ==
    ASSUME EvolutionInv, NEW e \in Engines, ReconcileBinding(e)
    PROVE  EvolutionInv'
<1> DEFINE p == catalog[Least(Misfits(e))]
<1>1. pc[e] = "reconcile" /\ Mutating(e)
  BY DEF ReconcileBinding, Mutating
<1>2. /\ EnginesTypeOK /\ SoundInv /\ CatalogInv /\ EngineAt(e) /\ StoresAt(e)
      /\ Bound \subseteq Proposals /\ Differing \subseteq Proposals
      /\ scar = "none" => \A q \in Differing : Mendable(q)
  BY <1>1, MutatorFacts
<1>3. p \in Bound /\ view[e][p].state # "active"
  <2>1. Misfits(e) # {} /\ Misfits(e) \subseteq DOMAIN catalog /\ Misfits(e) \subseteq Nat
    <3>1. catalog \in Seq(Proposals)
      BY <1>2 DEF EnginesTypeOK
    <3>2. Len(catalog) \in Nat /\ DOMAIN catalog = 1..Len(catalog)
      BY <3>1
    <3>3. Misfits(e) # {} /\ Misfits(e) \subseteq DOMAIN catalog
      BY DEF ReconcileBinding, Misfits
    <3> QED BY <3>2, <3>3
  <2>2. Least(Misfits(e)) \in Misfits(e)
    BY <2>1, LeastMember
  <2> QED BY <2>1, <2>2 DEF Misfits, Bound, ToSet
<1> HIDE DEF p
<1>4. scar = "none" =>
        /\ Differing = {p} /\ records[p].state = "rolled_back"
        /\ view[e][p].state = "rolled_back" /\ ~HasDependents(p)
  <2> SUFFICES ASSUME scar = "none"
               PROVE  /\ Differing = {p} /\ records[p].state = "rolled_back"
                      /\ view[e][p].state = "rolled_back" /\ ~HasDependents(p)
    OBVIOUS
  <2>1. Agree(view[e][p], records[p])
    BY <1>1, <1>2, <1>3 DEF StoresAt
  <2>2. records[p].state # "active"
    BY <1>3, <2>1 DEF Agree, Settled
  <2>3. p \in Differing
    BY <1>3, <2>2 DEF Differing, ActiveIn
  <2>4. Mendable(p) /\ Differing = {p}
    BY <1>2, <2>3 DEF StoresAt
  <2> QED BY <1>3, <2>1, <2>4 DEF Mendable, Agree, Settled
<1>5. UNCHANGED <<records, guard, want, view, scar>>
  BY DEF ReconcileBinding
<1>6. SoundInv'
  BY <1>2, <1>5 DEF SoundInv
<1>7. CASE catalog' = RemoveFirst(catalog, p) /\ UNCHANGED pc
  <2>1. catalog \in Seq(Proposals) /\ \A i, j \in DOMAIN catalog : catalog[i] = catalog[j] => i = j
    BY <1>2 DEF EnginesTypeOK, CatalogInv
  <2>2. /\ catalog' \in Seq(Proposals)
        /\ \A i, j \in DOMAIN catalog' : catalog'[i] = catalog'[j] => i = j
        /\ Bound' = Bound \ {p}
    BY <1>3, <1>7, <2>1, Removal DEF Bound
  <2>3. CatalogInv'
    BY <1>2, <2>2 DEF CatalogInv
  <2>4. EnginesTypeOK' /\ Alone(e)
    BY <1>2, <1>5, <1>7, <2>2 DEF EnginesTypeOK, Alone
  <2>5. EngineAt(e)'
    BY <1>1, <1>7 DEF EngineAt
  <2>6. StoresAt(e)'
    <3> SUFFICES ASSUME scar' = "none" PROVE StoresAt(e)'
      BY DEF StoresAt
    <3>1. Differing' = {}
      <4>1. scar = "none" /\ records[p].state # "active" /\ Differing = {p}
        BY <1>4, <1>5
      <4> QED BY <1>5, <2>2, <4>1 DEF Differing, ActiveIn
    <3> QED BY <1>1, <1>2, <1>5, <1>7, <3>1 DEF StoresAt, Mutating
  <2> QED BY <1>1, <1>6, <2>3, <2>4, <2>5, <2>6, MutatorKeeps
<1>8. CASE /\ view[e][p].state # "rolled_back" \/ HasDependents(p)
           /\ GoTo(e, "stuck") /\ UNCHANGED catalog
  <2>1. /\ pc' \in [Engines -> Places] /\ pc'[e] = "stuck"
        /\ \A f \in Engines \ {e} : pc'[f] = pc[f]
    BY <1>2, <1>8, PlaceFacts DEF Places
  <2>2. EnginesTypeOK' /\ Alone(e)
    BY <1>1, <1>2, <1>5, <1>8, <2>1 DEF EnginesTypeOK, Alone
  <2>3. CatalogInv' /\ EngineAt(e)'
    BY <1>2, <1>8, <2>1, CatalogSame DEF EngineAt
  <2>4. StoresAt(e)'
    BY <1>4, <1>5, <1>8 DEF StoresAt
  <2> QED BY <1>1, <1>6, <2>2, <2>3, <2>4, MutatorKeeps
<1> QED BY <1>7, <1>8 DEF ReconcileBinding, p

LEMMA ReconcileRecordKeeps ==
    ASSUME EvolutionInv, NEW e \in Engines, ReconcileRecord(e)
    PROVE  EvolutionInv'
<1> DEFINE p == Least(Unlisted(e))
<1>1. pc[e] = "reconcile" /\ Mutating(e)
  BY DEF ReconcileRecord, Mutating
<1>2. /\ EnginesTypeOK /\ SoundInv /\ CatalogInv /\ EngineAt(e) /\ StoresAt(e)
      /\ Bound \subseteq Proposals /\ Differing \subseteq Proposals
      /\ scar = "none" => \A q \in Differing : Mendable(q)
  BY <1>1, MutatorFacts
<1>3. p \in Proposals \ Bound /\ view[e][p].state = "active"
  <2>1. Unlisted(e) # {} /\ Unlisted(e) \subseteq Proposals /\ Proposals \subseteq Nat
    BY EvolutionAssumption DEF ReconcileRecord, Unlisted, ActiveIn
  <2>2. p \in Unlisted(e)
    BY <2>1, LeastMember
  <2> QED BY <2>2 DEF Unlisted, ActiveIn
<1> HIDE DEF p
<1>4. scar = "none" => Differing = {p} /\ records[p].state = "active" /\ Admits(p)
  <2> SUFFICES ASSUME scar = "none"
               PROVE  Differing = {p} /\ records[p].state = "active" /\ Admits(p)
    OBVIOUS
  <2>1. Agree(view[e][p], records[p])
    BY <1>1, <1>2, <1>3 DEF StoresAt
  <2>2. records[p].state = "active"
    BY <1>3, <2>1 DEF Agree, Settled
  <2>3. p \in Differing
    BY <1>3, <2>2 DEF Differing, ActiveIn
  <2>4. Mendable(p) /\ Differing = {p}
    BY <1>2, <2>3 DEF StoresAt
  <2> QED BY <1>3, <2>2, <2>4 DEF Mendable
<1>5. UNCHANGED <<records, guard, want, view, scar>>
  BY DEF ReconcileRecord
<1>6. SoundInv'
  BY <1>2, <1>5 DEF SoundInv
<1>7. CASE Admits(p) /\ catalog' = Append(catalog, p) /\ UNCHANGED pc
  <2>1. catalog \in Seq(Proposals) /\ \A i, j \in DOMAIN catalog : catalog[i] = catalog[j] => i = j
    BY <1>2 DEF EnginesTypeOK, CatalogInv
  <2>2. /\ catalog' \in Seq(Proposals)
        /\ \A i, j \in DOMAIN catalog' : catalog'[i] = catalog'[j] => i = j
        /\ Bound' = Bound \cup {p}
    BY <1>3, <1>7, <2>1, Addition DEF Bound
  <2>3. CatalogInv'
    BY <1>2, <1>7, <2>2 DEF CatalogInv, Admits
  <2>4. EnginesTypeOK' /\ Alone(e)
    BY <1>2, <1>5, <1>7, <2>2 DEF EnginesTypeOK, Alone
  <2>5. EngineAt(e)'
    BY <1>1, <1>7 DEF EngineAt
  <2>6. StoresAt(e)'
    <3> SUFFICES ASSUME scar' = "none" PROVE StoresAt(e)'
      BY DEF StoresAt
    <3>1. Differing' = {}
      <4>1. scar = "none" /\ p \in ActiveIn(records) /\ Differing = {p}
        BY <1>3, <1>4, <1>5 DEF ActiveIn
      <4> QED BY <1>5, <2>2, <4>1 DEF Differing
    <3> QED BY <1>1, <1>2, <1>5, <1>7, <3>1 DEF StoresAt, Mutating
  <2> QED BY <1>1, <1>6, <2>3, <2>4, <2>5, <2>6, MutatorKeeps
<1>8. CASE ~Admits(p) /\ GoTo(e, "stuck") /\ UNCHANGED catalog
  <2>1. /\ pc' \in [Engines -> Places] /\ pc'[e] = "stuck"
        /\ \A f \in Engines \ {e} : pc'[f] = pc[f]
    BY <1>2, <1>8, PlaceFacts DEF Places
  <2>2. EnginesTypeOK' /\ Alone(e)
    BY <1>1, <1>2, <1>5, <1>8, <2>1 DEF EnginesTypeOK, Alone
  <2>3. CatalogInv' /\ EngineAt(e)'
    BY <1>2, <1>8, <2>1, CatalogSame DEF EngineAt
  <2>4. StoresAt(e)'
    BY <1>4, <1>5, <1>8 DEF StoresAt
  <2> QED BY <1>1, <1>6, <2>2, <2>3, <2>4, MutatorKeeps
<1> QED BY <1>7, <1>8 DEF ReconcileRecord, p

-----------------------------------------------------------------------------
(* Activation and rollback.                                                  *)

\* After the reconciliation the catalog binds what the engine holds for active.
LEMMA ReconciledFacts ==
    ASSUME EvolutionInv, NEW e \in Engines, Reconciled(e)
    PROVE  /\ pc[e] = "reconcile" /\ Mutating(e) /\ Bound = ActiveIn(view[e])
           /\ scar = "none" => /\ Differing = {}
                               /\ \A q \in Proposals : Agree(view[e][q], records[q])
<1>1. pc[e] = "reconcile" /\ Mutating(e) /\ Misfits(e) = {} /\ Unlisted(e) = {}
  BY DEF Reconciled, Mutating
<1>2. StoresAt(e) /\ Bound \subseteq Proposals
  BY <1>1, MutatorFacts
<1>3. Bound \subseteq ActiveIn(view[e])
  <2> SUFFICES ASSUME NEW q \in Bound PROVE q \in ActiveIn(view[e])
    OBVIOUS
  <2>1. PICK i \in DOMAIN catalog : catalog[i] = q
    BY DEF Bound, ToSet
  <2>2. view[e][q].state = "active"
    BY <1>1, <2>1 DEF Misfits
  <2> QED BY <1>2, <2>2 DEF ActiveIn
<1>4. Bound = ActiveIn(view[e])
  BY <1>1, <1>3 DEF Unlisted
<1>5. scar = "none" => \A q \in Proposals : Agree(view[e][q], records[q])
  BY <1>1, <1>2 DEF StoresAt
<1>6. scar = "none" => ActiveIn(records) = ActiveIn(view[e])
  BY <1>5 DEF ActiveIn, Agree, Settled
<1>7. scar = "none" => Differing = {}
  BY <1>4, <1>6 DEF Differing
<1> QED BY <1>1, <1>4, <1>5, <1>7

\* Engine e writes the record of p in the middle of a mutation and goes on.
LEMMA WriteFacts ==
    ASSUME EvolutionInv, NEW e \in Engines, Mutating(e), NEW p \in Proposals,
           NEW record \in Records, Sound(record), Save(e, p, record),
           NEW place \in Places \ {"closed", "open"}, GoTo(e, place),
           want' \in [Engines -> Proposals \cup {0}],
           \A f \in Engines \ {e} : want'[f] = want[f],
           scar' \in {"none", "stale", "dependents", "uncompensated"},
           UNCHANGED <<catalog, guard>>
    PROVE  /\ EnginesTypeOK' /\ SoundInv' /\ CatalogInv' /\ Alone(e) /\ Bound' = Bound
           /\ pc'[e] = place /\ records'[p] = record /\ view'[e][p] = record
           /\ \A q \in Proposals \ {p} : records'[q] = records[q] /\ view'[e][q] = view[e][q]
           /\ \A q \in Proposals : Admits(q)' <=> Admits(q)
           /\ \A q \in Proposals : HasDependents(q)' <=> HasDependents(q)
<1>1. EnginesTypeOK /\ SoundInv /\ CatalogInv /\ guard = e
  BY MutatorFacts
<1>2. /\ records' \in [Proposals -> Records] /\ view' \in [Engines -> [Proposals -> Records]]
      /\ SoundInv' /\ records'[p] = record /\ view'[e][p] = record
      /\ \A q \in Proposals \ {p} : records'[q] = records[q] /\ view'[e][q] = view[e][q]
      /\ \A f \in Engines \ {e} : view'[f] = view[f]
  BY <1>1, SaveFacts
<1>3. /\ pc' \in [Engines -> Places] /\ pc'[e] = place
      /\ \A f \in Engines \ {e} : pc'[f] = pc[f]
  BY <1>1, PlaceFacts
<1>4. \A f \in Engines : guard' = f <=> pc'[f] \notin {"closed", "open"}
  BY <1>1, <1>3 DEF EnginesTypeOK
<1>5. EnginesTypeOK'
  BY <1>1, <1>2, <1>3, <1>4 DEF EnginesTypeOK
<1>6. Alone(e)
  BY <1>2, <1>3 DEF Alone
<1> QED BY <1>1, <1>2, <1>3, <1>5, <1>6, CatalogSame

LEMMA ActivateRecordKeeps ==
    ASSUME EvolutionInv, NEW e \in Engines, NEW p \in Proposals, ActivateRecord(e, p)
    PROVE  EvolutionInv'
<1>1. /\ Mutating(e) /\ Bound = ActiveIn(view[e])
      /\ scar = "none" => Differing = {} /\ \A q \in Proposals : Agree(view[e][q], records[q])
  BY ReconciledFacts DEF ActivateRecord
<1>2. EnginesTypeOK /\ SoundInv /\ Bound \subseteq Proposals
  BY <1>1, MutatorFacts
<1> DEFINE record == [view[e][p] EXCEPT !.state = "active"]
<1>3. record \in Records /\ record.state = "active" /\ Sound(record)
  <2>1. view[e][p] \in Records /\ Sound(view[e][p])
    BY <1>2 DEF EnginesTypeOK, SoundInv
  <2>2. view[e][p].state = "canary_passed" /\ Cleared(view[e][p])
    BY DEF ActivateRecord, MayActivate, Cleared
  <2> QED BY <2>1, <2>2, StateFacts
<1>4. Save(e, p, record) /\ Mark(Stale(e, p), "stale") /\ view[e][p].state = "canary_passed"
  BY DEF ActivateRecord, MayActivate
<1> HIDE DEF record
<1>5. GoTo(e, "bind") /\ UNCHANGED <<catalog, guard>> /\ "bind" \in Places \ {"closed", "open"}
  BY DEF ActivateRecord, Places
<1>6. /\ want' \in [Engines -> Proposals \cup {0}] /\ want'[e] = p
      /\ \A f \in Engines \ {e} : want'[f] = want[f]
  BY <1>2 DEF ActivateRecord, EnginesTypeOK
<1>7. /\ scar' \in {"none", "stale", "dependents", "uncompensated"}
      /\ scar' = "none" => scar = "none" /\ ~Stale(e, p)
  BY <1>2, <1>4, MarkFacts
<1>8. /\ EnginesTypeOK' /\ SoundInv' /\ CatalogInv' /\ Alone(e) /\ Bound' = Bound
      /\ pc'[e] = "bind" /\ records'[p] = record /\ view'[e][p] = record
      /\ \A q \in Proposals \ {p} : records'[q] = records[q] /\ view'[e][q] = view[e][q]
  BY <1>1, <1>3, <1>4, <1>5, <1>6, <1>7, WriteFacts
<1>9. p \notin Bound /\ ActiveIn(view'[e]) = Bound \cup {p}
  <2>1. p \notin Bound
    BY <1>1, <1>4 DEF ActiveIn
  <2>2. \A q \in Proposals : view'[e][q].state = "active" <=> view[e][q].state = "active" \/ q = p
    BY <1>3, <1>8
  <2> QED BY <1>1, <2>1, <2>2 DEF ActiveIn
<1>10. EngineAt(e)'
  BY <1>6, <1>8, <1>9 DEF EngineAt
<1>11. StoresAt(e)'
  <2> SUFFICES ASSUME scar' = "none" PROVE StoresAt(e)'
    BY DEF StoresAt
  <2>1. /\ scar = "none" /\ Differing = {}
        /\ \A q \in Proposals : Agree(view[e][q], records[q])
    BY <1>1, <1>7
  <2>2. \A q \in Proposals : Agree(view'[e][q], records'[q])
    BY <1>8, <2>1 DEF Agree
  <2>3. Differing' = {p}
    <3>1. ActiveIn(records') = ActiveIn(records) \cup {p}
      BY <1>3, <1>8 DEF ActiveIn
    <3> QED BY <1>8, <1>9, <2>1, <3>1 DEF Differing
  <2>4. Binding(p)'
    BY <1>6, <1>8, <1>9 DEF Binding
  <2> QED BY <1>8, <2>2, <2>3, <2>4 DEF StoresAt
<1> QED BY <1>1, <1>8, <1>10, <1>11, MutatorKeeps

\* Engine e goes on without touching the records.
LEMMA MoveFacts ==
    ASSUME EvolutionInv, NEW e \in Engines, Mutating(e), catalog' \in Seq(Proposals),
           NEW place \in Places \ {"closed", "open"}, GoTo(e, place),
           UNCHANGED <<records, guard, want, view, scar>>
    PROVE  EnginesTypeOK' /\ SoundInv' /\ Alone(e) /\ pc'[e] = place
<1>1. EnginesTypeOK /\ SoundInv /\ guard = e
  BY MutatorFacts
<1>2. /\ pc' \in [Engines -> Places] /\ pc'[e] = place
      /\ \A f \in Engines \ {e} : pc'[f] = pc[f]
  BY <1>1, PlaceFacts
<1>3. \A f \in Engines : guard' = f <=> pc'[f] \notin {"closed", "open"}
  BY <1>1, <1>2 DEF EnginesTypeOK
<1>4. EnginesTypeOK'
  BY <1>1, <1>2, <1>3 DEF EnginesTypeOK
<1> QED BY <1>1, <1>2, <1>4 DEF SoundInv, Alone

LEMMA BindKeeps ==
    ASSUME EvolutionInv, NEW e \in Engines, Bind(e)
    PROVE  EvolutionInv'
<1> DEFINE p == want[e]
<1>1. pc[e] = "bind" /\ Mutating(e) /\ UNCHANGED <<records, guard, want, view, scar>>
  BY DEF Bind, Mutating
<1>2. /\ EnginesTypeOK /\ CatalogInv /\ EngineAt(e) /\ StoresAt(e)
      /\ Bound \subseteq Proposals /\ Differing \subseteq Proposals
  BY <1>1, MutatorFacts
<1>3. p \in Proposals \ Bound /\ ActiveIn(view[e]) = Bound \cup {p}
  BY <1>1, <1>2 DEF EngineAt
<1>4. scar = "none" => /\ Bound \cup {p} = ActiveIn(records)
                       /\ \A q \in Proposals : Agree(view[e][q], records[q])
  <2>1. scar = "none" => \A q \in Proposals : Agree(view[e][q], records[q])
    BY <1>1, <1>2 DEF StoresAt
  <2>2. scar = "none" => ActiveIn(records) = ActiveIn(view[e])
    BY <2>1 DEF ActiveIn, Agree, Settled
  <2> QED BY <1>3, <2>1, <2>2
<1>5. catalog \in Seq(Proposals) /\ \A i, j \in DOMAIN catalog : catalog[i] = catalog[j] => i = j
  BY <1>2 DEF EnginesTypeOK, CatalogInv
<1>6. CASE Admits(p) /\ catalog' = Append(catalog, p) /\ GoTo(e, "ok")
  <2>1. /\ catalog' \in Seq(Proposals)
        /\ \A i, j \in DOMAIN catalog' : catalog'[i] = catalog'[j] => i = j
        /\ Bound' = Bound \cup {p}
    BY <1>3, <1>5, <1>6, Addition DEF Bound
  <2>2. EnginesTypeOK' /\ SoundInv' /\ Alone(e) /\ pc'[e] = "ok"
    BY <1>1, <1>6, <2>1, MoveFacts DEF Places
  <2>3. CatalogInv'
    BY <1>2, <1>6, <2>1 DEF CatalogInv, Admits
  <2>4. EngineAt(e)'
    BY <1>1, <1>3, <2>1, <2>2 DEF EngineAt
  <2>5. StoresAt(e)'
    <3>1. scar = "none" => Differing' = {}
      BY <1>1, <1>4, <2>1 DEF Differing
    <3> QED BY <1>1, <1>4, <2>2, <3>1 DEF StoresAt
  <2> QED BY <1>1, <2>2, <2>3, <2>4, <2>5, MutatorKeeps
<1>7. CASE GoTo(e, "compensate") /\ UNCHANGED catalog
  <2>1. EnginesTypeOK' /\ SoundInv' /\ Alone(e) /\ pc'[e] = "compensate"
    BY <1>1, <1>5, <1>7, MoveFacts DEF Places
  <2>2. /\ Bound' = Bound /\ CatalogInv'
    BY <1>2, <1>7, CatalogSame
  <2>3. EngineAt(e)'
    BY <1>1, <1>3, <2>1, <2>2 DEF EngineAt
  <2>4. StoresAt(e)'
    <3>1. scar = "none" => Differing' = {p}
      BY <1>1, <1>3, <1>4, <2>2 DEF Differing
    <3>2. Binding(p)'
      BY <1>1, <1>3, <2>1, <2>2 DEF Binding
    <3> QED BY <1>1, <1>4, <2>1, <3>1, <3>2 DEF StoresAt
  <2> QED BY <1>1, <2>1, <2>2, <2>3, <2>4, MutatorKeeps
<1> QED BY <1>6, <1>7 DEF Bind

\* What holds of the engine whose activation is not bound yet.
LEMMA UnboundFacts ==
    ASSUME EvolutionInv, NEW e \in Engines, pc[e] \in {"bind", "compensate"}
    PROVE  /\ want[e] \in Proposals \ Bound /\ ActiveIn(view[e]) = Bound \cup {want[e]}
           /\ scar = "none" => /\ ActiveIn(records) = Bound \cup {want[e]}
                               /\ Differing = {want[e]}
                               /\ \A q \in Proposals : Agree(view[e][q], records[q])
<1>1. Mutating(e)
  BY DEF Mutating
<1>2. EngineAt(e) /\ StoresAt(e)
  BY <1>1, MutatorFacts
<1>3. want[e] \in Proposals \ Bound /\ ActiveIn(view[e]) = Bound \cup {want[e]}
  BY <1>2 DEF EngineAt
<1>4. scar = "none" => \A q \in Proposals : Agree(view[e][q], records[q])
  BY <1>1, <1>2 DEF StoresAt
<1>5. scar = "none" => ActiveIn(records) = ActiveIn(view[e])
  BY <1>4 DEF ActiveIn, Agree, Settled
<1>6. scar = "none" => Differing = {want[e]}
  BY <1>3, <1>5 DEF Differing
<1> QED BY <1>3, <1>4, <1>5, <1>6

LEMMA CompensateKeeps ==
    ASSUME EvolutionInv, NEW e \in Engines, Compensate(e)
    PROVE  EvolutionInv'
<1> DEFINE p == want[e]
<1>1. pc[e] = "compensate" /\ Mutating(e) /\ GoTo(e, "failed") /\ UNCHANGED <<catalog, guard, want>>
  BY DEF Compensate, Mutating
<1>2. EnginesTypeOK /\ SoundInv /\ CatalogInv /\ guard = e
  BY <1>1, MutatorFacts
<1>3. /\ p \in Proposals \ Bound /\ ActiveIn(view[e]) = Bound \cup {p}
      /\ scar = "none" => /\ ActiveIn(records) = Bound \cup {p} /\ Differing = {p}
                          /\ \A q \in Proposals : Agree(view[e][q], records[q])
  BY <1>1, UnboundFacts
<1>4. "failed" \in Places \ {"closed", "open"} /\ want \in [Engines -> Proposals \cup {0}]
  BY <1>2 DEF Places, EnginesTypeOK
<1>5. CASE /\ Save(e, p, [view[e][p] EXCEPT !.state = "rolled_back"])
           /\ Mark(Stale(e, p), "stale")
  <2> DEFINE record == [view[e][p] EXCEPT !.state = "rolled_back"]
  <2>1. record \in Records /\ record.state = "rolled_back" /\ Sound(record)
    <3>1. view[e][p] \in Records /\ Sound(view[e][p]) /\ view[e][p].state = "active"
      BY <1>2, <1>3 DEF EnginesTypeOK, SoundInv, ActiveIn
    <3>2. Cleared(view[e][p])
      BY <3>1 DEF Sound, Settled
    <3> QED BY <3>1, <3>2, StateFacts
  <2>2. Save(e, p, record)
    BY <1>5
  <2> HIDE DEF record
  <2>3. /\ scar' \in {"none", "stale", "dependents", "uncompensated"}
        /\ scar' = "none" => scar = "none"
    BY <1>2, <1>5, MarkFacts
  <2> HIDE DEF p
  <2>4. /\ EnginesTypeOK' /\ SoundInv' /\ CatalogInv' /\ Alone(e) /\ Bound' = Bound
        /\ pc'[e] = "failed" /\ records'[p] = record /\ view'[e][p] = record
        /\ \A q \in Proposals \ {p} : records'[q] = records[q] /\ view'[e][q] = view[e][q]
    BY <1>1, <1>3, <1>4, <2>1, <2>2, <2>3, WriteFacts
  <2>5. EngineAt(e)'
    BY <2>4 DEF EngineAt
  <2>6. StoresAt(e)'
    <3> SUFFICES ASSUME scar' = "none" PROVE StoresAt(e)'
      BY DEF StoresAt
    <3>1. /\ ActiveIn(records) = Bound \cup {p}
          /\ \A q \in Proposals : Agree(view[e][q], records[q])
      BY <1>3, <2>3
    <3>2. \A q \in Proposals : Agree(view'[e][q], records'[q])
      BY <2>4, <3>1 DEF Agree
    <3>3. ActiveIn(records') = ActiveIn(records) \ {p}
      BY <2>1, <2>4 DEF ActiveIn
    <3>4. Differing' = {}
      BY <1>3, <2>4, <3>1, <3>3 DEF Differing
    <3> QED BY <2>4, <3>2, <3>4 DEF StoresAt
  <2> QED BY <1>1, <2>4, <2>5, <2>6, MutatorKeeps
<1>6. CASE Mark(~Admits(p), "uncompensated") /\ UNCHANGED <<records, view>>
  <2>1. /\ scar' \in {"none", "stale", "dependents", "uncompensated"}
        /\ scar' = "none" => scar = "none" /\ Admits(p)
    BY <1>2, <1>6, MarkFacts
  <2>2. /\ pc' \in [Engines -> Places] /\ pc'[e] = "failed"
        /\ \A f \in Engines \ {e} : pc'[f] = pc[f]
    BY <1>1, <1>2, <1>4, PlaceFacts
  <2>3. \A f \in Engines : guard' = f <=> pc'[f] \notin {"closed", "open"}
    BY <1>1, <1>2, <2>2 DEF EnginesTypeOK
  <2>4. EnginesTypeOK' /\ SoundInv' /\ Alone(e)
    BY <1>1, <1>2, <1>6, <2>1, <2>2, <2>3 DEF EnginesTypeOK, SoundInv, Alone
  <2>5. Bound' = Bound /\ CatalogInv' /\ \A q \in Proposals : Admits(q)' <=> Admits(q)
    BY <1>1, <1>2, CatalogSame
  <2>6. EngineAt(e)'
    BY <2>2 DEF EngineAt
  <2>7. StoresAt(e)'
    <3> SUFFICES ASSUME scar' = "none" PROVE StoresAt(e)'
      BY DEF StoresAt
    <3>1. Differing' = {p}
      BY <1>3, <1>6, <2>1, <2>5 DEF Differing
    <3>2. Mendable(p)'
      BY <1>1, <1>3, <2>1, <2>5 DEF Mendable
    <3>3. \A q \in Proposals : Agree(view'[e][q], records'[q])
      BY <1>3, <1>6, <2>1
    <3> QED BY <1>1, <2>2, <3>1, <3>2, <3>3 DEF StoresAt
  <2> QED BY <1>1, <2>4, <2>5, <2>6, <2>7, MutatorKeeps
<1> QED BY <1>5, <1>6 DEF Compensate

LEMMA RollbackRecordKeeps ==
    ASSUME EvolutionInv, NEW e \in Engines, NEW p \in Proposals, RollbackRecord(e, p)
    PROVE  EvolutionInv'
<1>1. /\ Mutating(e) /\ Bound = ActiveIn(view[e])
      /\ scar = "none" => Differing = {} /\ \A q \in Proposals : Agree(view[e][q], records[q])
  BY ReconciledFacts DEF RollbackRecord
<1>2. EnginesTypeOK /\ SoundInv /\ Bound \subseteq Proposals
  BY <1>1, MutatorFacts
<1> DEFINE record == [view[e][p] EXCEPT !.state = "rolled_back"]
           cause == IF Stale(e, p) THEN "stale" ELSE "dependents"
<1>3. record \in Records /\ record.state = "rolled_back" /\ Sound(record)
  <2>1. view[e][p] \in Records /\ Sound(view[e][p]) /\ view[e][p].state = "active"
    BY <1>2 DEF EnginesTypeOK, SoundInv, RollbackRecord
  <2>2. Cleared(view[e][p])
    BY <2>1 DEF Sound, Settled
  <2> QED BY <2>1, <2>2, StateFacts
<1>4. Save(e, p, record) /\ Mark(Stale(e, p) \/ HasDependents(p), cause) /\ p \in Bound
  BY DEF RollbackRecord
<1>5. cause \in {"stale", "dependents", "uncompensated"}
  OBVIOUS
<1> HIDE DEF record, cause
<1>6. GoTo(e, "unbind") /\ UNCHANGED <<catalog, guard>> /\ "unbind" \in Places \ {"closed", "open"}
  BY DEF RollbackRecord, Places
<1>7. /\ want' \in [Engines -> Proposals \cup {0}] /\ want'[e] = p
      /\ \A f \in Engines \ {e} : want'[f] = want[f]
  BY <1>2 DEF RollbackRecord, EnginesTypeOK
<1>8. /\ scar' \in {"none", "stale", "dependents", "uncompensated"}
      /\ scar' = "none" => scar = "none" /\ ~HasDependents(p)
  BY <1>2, <1>4, <1>5, MarkFacts
<1>9. /\ EnginesTypeOK' /\ SoundInv' /\ CatalogInv' /\ Alone(e) /\ Bound' = Bound
      /\ pc'[e] = "unbind" /\ records'[p] = record /\ view'[e][p] = record
      /\ \A q \in Proposals \ {p} : records'[q] = records[q] /\ view'[e][q] = view[e][q]
      /\ \A q \in Proposals : HasDependents(q)' <=> HasDependents(q)
  BY <1>1, <1>3, <1>4, <1>6, <1>7, <1>8, WriteFacts
<1>10. EngineAt(e)'
  <2>1. ActiveIn(view'[e]) = Bound \ {p}
    BY <1>1, <1>3, <1>9 DEF ActiveIn
  <2> QED BY <1>4, <1>7, <1>9, <2>1 DEF EngineAt
<1>11. StoresAt(e)'
  <2> SUFFICES ASSUME scar' = "none" PROVE StoresAt(e)'
    BY DEF StoresAt
  <2>1. /\ scar = "none" /\ Differing = {} /\ ~HasDependents(p)
        /\ \A q \in Proposals : Agree(view[e][q], records[q])
    BY <1>1, <1>8
  <2>2. \A q \in Proposals : Agree(view'[e][q], records'[q])
    BY <1>9, <2>1 DEF Agree
  <2>3. Differing' = {p}
    <3>1. ActiveIn(records') = ActiveIn(records) \ {p}
      BY <1>3, <1>9 DEF ActiveIn
    <3> QED BY <1>4, <1>9, <2>1, <3>1 DEF Differing
  <2>4. Mendable(p)'
    BY <1>3, <1>4, <1>9, <2>1 DEF Mendable
  <2> QED BY <1>9, <2>2, <2>3, <2>4 DEF StoresAt
<1> QED BY <1>1, <1>9, <1>10, <1>11, MutatorKeeps

LEMMA UnbindKeeps ==
    ASSUME EvolutionInv, NEW e \in Engines, Unbind(e)
    PROVE  EvolutionInv'
<1> DEFINE p == want[e]
<1>1. pc[e] = "unbind" /\ Mutating(e) /\ UNCHANGED <<records, guard, want, view, scar>>
  BY DEF Unbind, Mutating
<1>2. /\ EnginesTypeOK /\ CatalogInv /\ EngineAt(e) /\ StoresAt(e)
      /\ Bound \subseteq Proposals /\ Differing \subseteq Proposals
      /\ scar = "none" => \A q \in Differing : Mendable(q)
  BY <1>1, MutatorFacts
<1>3. p \in Bound /\ p \notin ActiveIn(view[e]) /\ Bound = ActiveIn(view[e]) \cup {p}
  BY <1>1, <1>2 DEF EngineAt
<1>4. scar = "none" => \A q \in Proposals : Agree(view[e][q], records[q])
  BY <1>1, <1>2 DEF StoresAt
<1>5. catalog \in Seq(Proposals) /\ \A i, j \in DOMAIN catalog : catalog[i] = catalog[j] => i = j
  BY <1>2 DEF EnginesTypeOK, CatalogInv
<1>6. CASE catalog' = RemoveFirst(catalog, p) /\ GoTo(e, "ok")
  <2>1. /\ catalog' \in Seq(Proposals)
        /\ \A i, j \in DOMAIN catalog' : catalog'[i] = catalog'[j] => i = j
        /\ Bound' = Bound \ {p}
    BY <1>3, <1>5, <1>6, Removal DEF Bound
  <2>2. EnginesTypeOK' /\ SoundInv' /\ Alone(e) /\ pc'[e] = "ok"
    BY <1>1, <1>6, <2>1, MoveFacts DEF Places
  <2>3. CatalogInv'
    BY <1>2, <2>1 DEF CatalogInv
  <2>4. EngineAt(e)'
    BY <1>1, <1>3, <2>1, <2>2 DEF EngineAt
  <2>5. StoresAt(e)'
    <3>1. scar = "none" => ActiveIn(records) = ActiveIn(view[e])
      BY <1>4 DEF ActiveIn, Agree, Settled
    <3>2. scar = "none" => Differing' = {}
      BY <1>1, <1>3, <2>1, <3>1 DEF Differing
    <3> QED BY <1>1, <1>4, <2>2, <3>2 DEF StoresAt
  <2> QED BY <1>1, <2>2, <2>3, <2>4, <2>5, MutatorKeeps
<1>7. CASE GoTo(e, "failed") /\ UNCHANGED catalog
  <2>1. EnginesTypeOK' /\ SoundInv' /\ Alone(e) /\ pc'[e] = "failed"
    BY <1>1, <1>5, <1>7, MoveFacts DEF Places
  <2>2. /\ Bound' = Bound /\ CatalogInv'
        /\ \A q \in Proposals : Admits(q)' <=> Admits(q)
        /\ \A q \in Proposals : HasDependents(q)' <=> HasDependents(q)
    BY <1>2, <1>7, CatalogSame
  <2>3. EngineAt(e)'
    BY <2>1 DEF EngineAt
  <2>4. StoresAt(e)'
    <3>1. Differing' = Differing
      BY <1>1, <2>2 DEF Differing
    <3>2. scar = "none" => \A q \in Differing : Mendable(q)'
      BY <1>1, <1>2, <2>2 DEF Mendable
    <3> QED BY <1>1, <1>2, <1>4, <2>1, <3>1, <3>2 DEF StoresAt
  <2> QED BY <1>1, <2>1, <2>2, <2>3, <2>4, MutatorKeeps
<1> QED BY <1>6, <1>7 DEF Unbind

-----------------------------------------------------------------------------
(* The end of a mutation.                                                    *)

LEMMA ReleaseKeeps ==
    ASSUME EvolutionInv, NEW e \in Engines, Release(e)
    PROVE  EvolutionInv'
<1> DEFINE place == IF e \in Commands THEN "closed" ELSE "open"
<1>1. /\ pc[e] \in {"reconcile", "ok", "failed", "stuck"} /\ Mutating(e)
      /\ guard' = "free" /\ UNCHANGED <<records, catalog, scar>>
  BY DEF Release, Mutating
<1>2. /\ EnginesTypeOK /\ SoundInv /\ CatalogInv /\ StoresAt(e) /\ guard = e
      /\ Differing \subseteq Proposals
      /\ scar = "none" => \A q \in Differing : Mendable(q)
  BY <1>1, MutatorFacts
<1>3. GoTo(e, place) /\ place \in Places /\ place \in {"closed", "open"}
      /\ (e \in Commands => place = "closed")
  BY DEF Release, Places
<1> HIDE DEF place
<1>4. /\ pc' \in [Engines -> Places] /\ pc'[e] = place
      /\ \A f \in Engines \ {e} : pc'[f] = pc[f]
  BY <1>2, <1>3, PlaceFacts
<1>5. /\ view' \in [Engines -> [Proposals -> Records]] /\ SoundInv'
      /\ \A f \in Engines \ {e} : view'[f] = view[f]
  <2>1. CASE e \in Commands
    BY <1>1, <1>2, <2>1, UnopenedFacts, ViewFacts DEF Release
  <2>2. CASE e \notin Commands
    BY <1>1, <1>2, <2>2 DEF Release, EnginesTypeOK, SoundInv
  <2> QED BY <2>1, <2>2
<1>6. want' \in [Engines -> Proposals \cup {0}] /\ \A f \in Engines \ {e} : want'[f] = want[f]
  BY <1>2 DEF Release, EnginesTypeOK
<1>7. \A f \in Engines : guard' = f <=> pc'[f] \notin {"closed", "open"}
  <2>1. "free" \notin Engines
    BY EvolutionAssumption DEF Engines
  <2> QED BY <1>1, <1>2, <1>3, <1>4, <2>1 DEF EnginesTypeOK
<1>8. EnginesTypeOK' /\ Alone(e)
  BY <1>1, <1>2, <1>4, <1>5, <1>6, <1>7 DEF EnginesTypeOK, Alone
<1>9. /\ Bound' = Bound /\ CatalogInv'
      /\ \A q \in Proposals : Admits(q)' <=> Admits(q)
      /\ \A q \in Proposals : HasDependents(q)' <=> HasDependents(q)
  BY <1>1, <1>2, CatalogSame
<1>10. EngineAt(e)'
  BY <1>3, <1>4 DEF EngineAt
<1>11. StoresAt(e)'
  <2>1. Differing' = Differing
    BY <1>1, <1>9 DEF Differing
  <2>2. scar = "none" => \A q \in Differing : Mendable(q)'
    BY <1>1, <1>2, <1>9 DEF Mendable
  <2> QED BY <1>1, <1>2, <1>3, <1>4, <2>1, <2>2 DEF StoresAt, Mutating
<1> QED BY <1>1, <1>5, <1>8, <1>9, <1>10, <1>11, MutatorKeeps

LEMMA CrashKeeps ==
    ASSUME EvolutionInv, NEW e \in Engines, Crash(e)
    PROVE  EvolutionInv'
<1>1. /\ GoTo(e, "closed") /\ "closed" \in Places /\ UNCHANGED <<records, catalog>>
      /\ guard' = IF guard = e THEN "dead" ELSE guard
  BY DEF Crash, Places
<1>2. EnginesTypeOK /\ SoundInv /\ CatalogInv /\ StoresInv
  BY DEF EvolutionInv
<1>3. /\ pc' \in [Engines -> Places] /\ pc'[e] = "closed"
      /\ \A f \in Engines \ {e} : pc'[f] = pc[f]
  BY <1>1, <1>2, PlaceFacts
<1>4. /\ view' \in [Engines -> [Proposals -> Records]] /\ SoundInv'
      /\ \A f \in Engines \ {e} : view'[f] = view[f]
  BY <1>1, <1>2, UnopenedFacts, ViewFacts DEF Crash
<1>5. want' \in [Engines -> Proposals \cup {0}] /\ \A f \in Engines \ {e} : want'[f] = want[f]
  BY <1>2 DEF Crash, EnginesTypeOK
<1>6. /\ scar' \in {"none", "stale", "dependents", "uncompensated"}
      /\ scar' = "none" => scar = "none" /\ (pc[e] \in {"bind", "compensate"} => Admits(want[e]))
  BY <1>2, MarkFacts DEF Crash
<1>7. \A f \in Engines : guard' = f <=> pc'[f] \notin {"closed", "open"}
  <2>1. "dead" \notin Engines
    BY EvolutionAssumption DEF Engines
  <2> QED BY <1>1, <1>2, <1>3, <2>1 DEF EnginesTypeOK
<1>8. EnginesTypeOK' /\ Alone(e) /\ ~Mutating(e)'
  BY <1>1, <1>2, <1>3, <1>4, <1>5, <1>6, <1>7 DEF EnginesTypeOK, Alone, Mutating
<1>9. CASE ~Mutating(e)
  <2>1. \A q \in Proposals : Agree(records'[q], records[q])
    BY <1>1 DEF Agree
  <2> QED BY <1>1, <1>3, <1>4, <1>6, <1>8, <1>9, <2>1, OutsideKeeps
<1>10. CASE Mutating(e)
  <2>1. /\ StoresAt(e) /\ Differing \subseteq Proposals
        /\ scar = "none" => \A q \in Differing : Mendable(q) \/ (Binding(q) /\ want[e] = q)
        /\ pc[e] \notin {"bind", "compensate"} => \A q \in Proposals : ~Binding(q)
    BY <1>10, MutatorFacts
  <2>2. /\ Bound' = Bound /\ CatalogInv'
        /\ \A q \in Proposals : Admits(q)' <=> Admits(q)
        /\ \A q \in Proposals : HasDependents(q)' <=> HasDependents(q)
    BY <1>1, <1>2, CatalogSame
  <2>3. EngineAt(e)'
    BY <1>3 DEF EngineAt
  <2>4. StoresAt(e)'
    <3>1. Differing' = Differing
      BY <1>1, <2>2 DEF Differing
    <3>2. scar' = "none" => \A q \in Differing : Mendable(q)
      BY <1>6, <2>1 DEF Mendable, Binding
    <3>3. \A q \in Differing : Mendable(q) => Mendable(q)'
      BY <1>1, <2>1, <2>2 DEF Mendable
    <3> QED BY <1>3, <1>6, <1>8, <2>1, <3>1, <3>2, <3>3 DEF StoresAt
  <2> QED BY <1>4, <1>8, <1>10, <2>2, <2>3, <2>4, MutatorKeeps
<1> QED BY <1>9, <1>10

\* Steps that leave everything but the guard of a dead process.
LEMMA LapseKeeps ==
    ASSUME EvolutionInv, Lapse \/ UNCHANGED vars
    PROVE  EvolutionInv'
<1>1. UNCHANGED <<records, catalog, pc, want, view, scar>>
  BY DEF Lapse, vars
<1>2. EnginesTypeOK /\ SoundInv /\ CatalogInv /\ EngineInv /\ StoresInv
  BY DEF EvolutionInv
<1>3. EnginesTypeOK'
  <2>1. {"free", "dead"} \cap Engines = {}
    BY EvolutionAssumption DEF Engines
  <2>2. guard' = guard \/ (guard = "dead" /\ guard' = "free")
    BY DEF Lapse, vars
  <2>3. guard' \in Engines \cup {"free", "dead"} /\ \A e \in Engines : guard' = e <=> guard = e
    BY <1>2, <2>1, <2>2 DEF EnginesTypeOK
  <2> QED BY <1>1, <1>2, <2>3 DEF EnginesTypeOK
<1>4. /\ Bound' = Bound /\ CatalogInv'
      /\ \A q \in Proposals : Admits(q)' <=> Admits(q)
      /\ \A q \in Proposals : HasDependents(q)' <=> HasDependents(q)
  BY <1>1, <1>2, CatalogSame
<1>5. SoundInv' /\ EngineInv'
  BY <1>1, <1>2, <1>4 DEF SoundInv, EngineInv, EngineAt
<1>6. StoresInv'
  <2>1. Differing' = Differing /\ Differing \subseteq Proposals
    BY <1>1, <1>2, <1>4, BoundProposals DEF Differing
  <2>2. \A q \in Differing : (Mendable(q) => Mendable(q)') /\ (Binding(q) => Binding(q)')
    BY <1>1, <1>4, <2>1 DEF Mendable, Binding
  <2> QED BY <1>1, <1>2, <2>1, <2>2 DEF StoresInv, Mutating
<1> QED BY <1>3, <1>4, <1>5, <1>6 DEF EvolutionInv

-----------------------------------------------------------------------------
(* The theorems.                                                             *)

LEMMA EvolutionInvInit ==
    ASSUME Init
    PROVE  EvolutionInv
<1>1. catalog = <<>> /\ catalog \in Seq(Proposals) /\ DOMAIN catalog = {}
  BY DEF Init
<1>2. Bound = {} /\ CatalogInv
  BY <1>1 DEF Bound, ToSet, CatalogInv
<1>3. records \in [Proposals -> Records]
      /\ \A p \in Proposals : Sound(records[p]) /\ ~Settled(records[p])
  <2> DEFINE passed == [state |-> "canary_passed", passed |-> TRUE, rollout |-> NoRollout]
  <2>1. passed \in Records /\ Absent \in Records
    BY FreshRollout, Zenon DEF Records, Absent, ProposalStates
  <2>2. passed.state = "canary_passed" /\ passed.passed /\ Absent.state = "absent"
    BY DEF Absent
  <2>3. Sound(passed) /\ Sound(Absent) /\ ~Settled(passed) /\ ~Settled(Absent)
    BY <2>2 DEF Sound, Settled
  <2>4. records = [p \in Proposals |-> IF p \in Seasoned THEN passed ELSE Absent]
    BY DEF Init
  <2> HIDE DEF passed
  <2> QED BY <2>1, <2>3, <2>4
<1>4. view \in [Engines -> [Proposals -> Records]]
      /\ \A e \in Engines, p \in Proposals : Sound(view[e][p])
  BY UnopenedFacts DEF Init
<1>5. pc \in [Engines -> Places] /\ \A e \in Engines : pc[e] = "closed"
  BY DEF Init, Places
<1>6. EnginesTypeOK
  <2>1. guard = "free" /\ "free" \notin Engines
    BY EvolutionAssumption DEF Init, Engines
  <2>2. want \in [Engines -> Proposals \cup {0}] /\ scar = "none"
    BY DEF Init
  <2> QED BY <1>1, <1>3, <1>4, <1>5, <2>1, <2>2 DEF EnginesTypeOK
<1>7. EngineInv
  BY <1>5 DEF EngineInv, EngineAt
<1>8. Differing = {}
  BY <1>2, <1>3 DEF Differing, ActiveIn, Settled
<1>9. StoresInv
  BY <1>5, <1>8 DEF StoresInv, Mutating
<1> QED BY <1>2, <1>3, <1>4, <1>6, <1>7, <1>9 DEF EvolutionInv, SoundInv

LEMMA EvolutionInvStep ==
    ASSUME EvolutionInv, [Next]_vars
    PROVE  EvolutionInv'
<1>1. CASE \E e \in Engines, p \in Proposals :
              \/ StartCommand(e, p) \/ ServeRollout(e, p)
              \/ ActivateRecord(e, p) \/ RollbackRecord(e, p)
  BY <1>1, StartCommandKeeps, ServeRolloutKeeps, ActivateRecordKeeps, RollbackRecordKeeps
<1>2. CASE \E e \in Engines :
              \/ StartService(e) \/ AdvanceProposal(e) \/ ConfigureRollout(e)
              \/ TransitionRollout(e) \/ Refused(e)
  BY <1>2, StartServiceKeeps, CommandsKeep, RefusedKeeps
<1>3. CASE \E e \in Engines :
              \/ Acquire(e) \/ ReconcileBinding(e) \/ ReconcileRecord(e)
              \/ Bind(e) \/ Compensate(e) \/ Unbind(e)
              \/ Release(e) \/ Crash(e)
  BY <1>3, AcquireKeeps, ReconcileBindingKeeps, ReconcileRecordKeeps, BindKeeps, CompensateKeeps,
     UnbindKeeps, ReleaseKeeps, CrashKeeps
<1>4. CASE Lapse \/ UNCHANGED vars
  BY <1>4, LapseKeeps
<1> QED BY <1>1, <1>2, <1>3, <1>4 DEF Next

\* The inductive invariant, through every step of commands, services and crashes.
THEOREM EvolutionInvariant == Spec => []EvolutionInv
BY EvolutionInvInit, EvolutionInvStep, PTL DEF Spec

-----------------------------------------------------------------------------
(* A configured rollout stays, as long as no stale record is written.        *)

ConfiguredInv ==
    /\ configured \subseteq Proposals
    /\ scar = "none" => \A p \in configured : records[p].rollout # NoRollout

LEMMA StoreKeeps ==
    ASSUME EvolutionInv, ConfiguredInv, NEW p \in Proposals, NEW record, Store(p, record),
           scar' = "none" =>
               scar = "none" /\ (records[p].rollout # NoRollout => record.rollout # NoRollout)
    PROVE  ConfiguredInv'
<1>1. records \in [Proposals -> Records]
  BY DEF EvolutionInv, EnginesTypeOK
<1>2. records'[p] = record /\ \A q \in Proposals \ {p} : records'[q] = records[q]
  BY <1>1 DEF Store
<1>3. configured' = configured \cup {q \in {p} : record.rollout # NoRollout}
  BY DEF Store
<1> QED BY <1>2, <1>3 DEF ConfiguredInv

\* No transition leads from a rollout to none, and none from none.
LEMMA TransitionFacts ==
    ASSUME NEW r \in Rollouts, NEW s \in CommandTransitions(r)
    PROVE  r # NoRollout /\ s # NoRollout
<1>1. NoRollout.status = "none" /\ "none" \notin RolloutStatus
  BY DEF NoRollout, RolloutStatus
<1>2. CASE r = NoRollout
  BY <1>2 DEF CommandTransitions, ServiceTransitions, Score, ApprovePromotion, Promote, Pause,
       Resume, Reject, Retry, MarkRolledBack, NoRollout
<1>3. CASE r # NoRollout
  <2>1. r \in Staged /\ r.status \in RolloutStatus
    BY <1>3 DEF Rollouts, Staged
  <2>2. s.status \in RolloutStatus
    <3>1. s \in Score(r) \cup Pause(r) \cup Resume(r) => s.status \in RolloutStatus
      BY <2>1 DEF Score, Pause, Resume, RolloutStatus, Staged
    <3>2. s \in ApprovePromotion(r) => s.status \in RolloutStatus
      BY <2>1 DEF ApprovePromotion, RolloutStatus, Staged
    <3>3. s \in Promote(r) => s.status \in RolloutStatus
      <4>1. s \in Promote(r) =>
              \/ s = [status |-> "running", stage |-> r.stage + 1, pending |-> FALSE, retries |-> 0]
              \/ s = [NoRollout EXCEPT !.status = "complete", !.stage = LastStage]
        BY Zenon DEF Promote
      <4>2. [NoRollout EXCEPT !.status = "complete", !.stage = LastStage].status = "complete"
        BY DEF NoRollout
      <4>3. [status |-> "running", stage |-> r.stage + 1, pending |-> FALSE, retries |-> 0].status
              = "running"
        OBVIOUS
      <4>4. s \in Promote(r) => s.status = "running" \/ s.status = "complete"
        BY <4>1, <4>2, <4>3, Zenon
      <4> QED BY <4>4 DEF RolloutStatus
    <3>4. s \in Reject(r) \cup Retry(r) => s.status \in RolloutStatus
      BY <2>1 DEF Reject, Retry, RolloutStatus, Staged
    <3>5. s \in MarkRolledBack(r) => s.status \in RolloutStatus
      BY DEF MarkRolledBack, RolloutStatus, NoRollout
    <3> QED BY <3>1, <3>2, <3>3, <3>4, <3>5 DEF CommandTransitions, ServiceTransitions
  <2> QED BY <1>1, <1>3, <2>2
<1> QED BY <1>2, <1>3

LEMMA AdvanceKeepsRollout ==
    ASSUME NEW r \in Records, NEW s \in Advance(r)
    PROVE  s.rollout = r.rollout
<1> USE DEF Records, ProposalStates
<1>1. CASE r.state = "absent"
  BY <1>1 DEF Advance
<1>2. CASE r.state = "proposed"
  BY <1>2 DEF Advance
<1>3. CASE r.state = "evaluated"
  BY <1>3 DEF Advance
<1>4. CASE r.state = "approved"
  BY <1>4 DEF Advance
<1>5. CASE r.state = "staged"
  BY <1>5 DEF Advance
<1>6. CASE r.state \in {"canary_passed", "canary_failed", "active", "rolled_back"}
  BY <1>6 DEF Advance
<1> QED BY <1>1, <1>2, <1>3, <1>4, <1>5, <1>6

\* A record written from a copy that is not stale, with the rollout it had or one
\* it did not have before.
LEMMA FreshWrite ==
    ASSUME EvolutionInv, ConfiguredInv, NEW e \in Engines, NEW p \in Proposals, NEW record,
           Store(p, record), view[e][p].rollout # NoRollout => record.rollout # NoRollout,
           scar' = "none" => scar = "none" /\ ~Stale(e, p)
    PROVE  ConfiguredInv'
BY StoreKeeps DEF Stale

LEMMA ConfiguredStep ==
    ASSUME EvolutionInv, ConfiguredInv, [Next]_vars
    PROVE  ConfiguredInv'
<1>1. EnginesTypeOK /\ view \in [Engines -> [Proposals -> Records]]
  BY DEF EvolutionInv, EnginesTypeOK
<1>2. \A r \in Records : r.rollout \in Rollouts
                         /\ (\A s \in ProposalStates : [r EXCEPT !.state = s].rollout = r.rollout)
                         /\ (\A t \in Rollouts : [r EXCEPT !.rollout = t].rollout = t)
  BY DEF Records
<1>3. ASSUME UNCHANGED <<records, configured>>, scar' = "none" => scar = "none"
      PROVE  ConfiguredInv'
  BY <1>3 DEF ConfiguredInv
<1>4. ASSUME NEW condition, NEW cause, Mark(condition, cause), cause # "none"
      PROVE  scar' = "none" => scar = "none" /\ ~condition
  BY <1>4 DEF Mark
<1>5. ASSUME NEW e \in Engines, NEW record, Operating(e), Settle(e, record),
             Own(e).rollout # NoRollout => record.rollout # NoRollout
      PROVE  ConfiguredInv'
  <2>1. want[e] \in Proposals
    BY <1>5 DEF EvolutionInv, EngineInv, EngineAt, Operating
  <2>2. Store(want[e], record) /\ Mark(Stale(e, want[e]), "stale")
    BY <1>5 DEF Settle
  <2>3. scar' = "none" => scar = "none" /\ ~Stale(e, want[e])
    BY <1>4, <2>2
  <2> QED BY <1>5, <2>1, <2>2, <2>3, FreshWrite DEF Own
<1>6. ASSUME NEW e \in Engines, AdvanceProposal(e) \/ ConfigureRollout(e) \/ TransitionRollout(e)
      PROVE  ConfiguredInv'
  <2>1. Operating(e) /\ want[e] \in Proposals
    BY <1>6 DEF AdvanceProposal, ConfigureRollout, TransitionRollout, EvolutionInv, EngineInv,
         EngineAt, Operating
  <2>2. Own(e) \in Records
    BY <1>1, <2>1 DEF Own
  <2>3. CASE AdvanceProposal(e)
    <3>1. PICK record \in Advance(Own(e)) : Settle(e, record)
      BY <2>3 DEF AdvanceProposal
    <3> QED BY <1>5, <2>1, <2>2, <3>1, AdvanceKeepsRollout
  <2>4. CASE ConfigureRollout(e)
    <3>1. Own(e).rollout = NoRollout /\ Settle(e, [Own(e) EXCEPT !.rollout = NewRollout])
      BY <2>4 DEF ConfigureRollout
    <3> QED BY <1>5, <2>1, <3>1
  <2>5. CASE TransitionRollout(e)
    <3>1. PICK t \in CommandTransitions(Own(e).rollout) : Settle(e, [Own(e) EXCEPT !.rollout = t])
      BY <2>5 DEF TransitionRollout
    <3>2. t \in Rollouts /\ t # NoRollout
      BY <1>2, <2>2, <3>1, RolloutSteps, TransitionFacts
    <3>3. [Own(e) EXCEPT !.rollout = t].rollout = t
      BY <1>2, <2>2, <3>2
    <3> QED BY <1>5, <2>1, <3>1, <3>2, <3>3
  <2> QED BY <1>6, <2>3, <2>4, <2>5
<1>7. ASSUME NEW e \in Engines, NEW p \in Proposals, ServeRollout(e, p)
      PROVE  ConfiguredInv'
  <2>1. view[e][p] \in Records
    BY <1>1
  <2>2. PICK t \in ServiceTransitions(view[e][p].rollout) :
            Save(e, p, [view[e][p] EXCEPT !.rollout = t])
    BY <1>7 DEF ServeRollout
  <2>3. t \in Rollouts /\ t # NoRollout
    BY <1>2, <2>1, <2>2, RolloutSteps, TransitionFacts DEF CommandTransitions
  <2>4. [view[e][p] EXCEPT !.rollout = t].rollout = t
    BY <1>2, <2>1, <2>3
  <2>5. scar' = "none" => scar = "none" /\ ~Stale(e, p)
    BY <1>4, <1>7 DEF ServeRollout
  <2> QED BY <2>2, <2>3, <2>4, <2>5, FreshWrite DEF Save
<1>8. ASSUME NEW e \in Engines, NEW p \in Proposals, NEW state \in ProposalStates,
             Save(e, p, [view[e][p] EXCEPT !.state = state]),
             scar' = "none" => scar = "none" /\ ~Stale(e, p)
      PROVE  ConfiguredInv'
  <2>1. [view[e][p] EXCEPT !.state = state].rollout = view[e][p].rollout
    BY <1>1, <1>2
  <2> QED BY <1>8, <2>1, FreshWrite DEF Save
<1>9. "active" \in ProposalStates /\ "rolled_back" \in ProposalStates
  BY DEF ProposalStates
<1>10. ASSUME NEW e \in Engines, NEW p \in Proposals, ActivateRecord(e, p)
       PROVE  ConfiguredInv'
  <2>1. scar' = "none" => scar = "none" /\ ~Stale(e, p)
    BY <1>4, <1>10 DEF ActivateRecord
  <2> QED BY <1>8, <1>9, <1>10, <2>1 DEF ActivateRecord
<1>11. ASSUME NEW e \in Engines, NEW p \in Proposals, RollbackRecord(e, p)
       PROVE  ConfiguredInv'
  <2>1. scar' = "none" => scar = "none" /\ ~Stale(e, p)
    BY <1>4, <1>11 DEF RollbackRecord
  <2> QED BY <1>8, <1>9, <1>11, <2>1 DEF RollbackRecord
<1>12. ASSUME NEW e \in Engines, Compensate(e)
       PROVE  ConfiguredInv'
  <2> DEFINE p == want[e]
  <2>1. p \in Proposals
    BY <1>12 DEF Compensate, EvolutionInv, EngineInv, EngineAt
  <2>2. CASE /\ Save(e, p, [view[e][p] EXCEPT !.state = "rolled_back"])
             /\ Mark(Stale(e, p), "stale")
    <3>1. scar' = "none" => scar = "none" /\ ~Stale(e, p)
      BY <1>4, <2>2
    <3> QED BY <1>8, <1>9, <2>1, <2>2, <3>1
  <2>3. CASE Mark(~Admits(p), "uncompensated") /\ UNCHANGED <<records, view, configured>>
    <3>1. scar' = "none" => scar = "none"
      BY <1>4, <2>3
    <3> QED BY <1>3, <2>3, <3>1
  <2> QED BY <1>12, <2>2, <2>3 DEF Compensate
<1>13. ASSUME NEW e \in Engines, Acquire(e) \/ Crash(e)
       PROVE  ConfiguredInv'
  <2>1. UNCHANGED <<records, configured>>
    BY <1>13 DEF Acquire, Crash
  <2>2. scar' = "none" => scar = "none"
    BY <1>4, <1>13 DEF Acquire, Crash
  <2> QED BY <1>3, <2>1, <2>2
<1>14. ASSUME NEW e \in Engines,
              \/ StartService(e) \/ Refused(e) \/ ReconcileBinding(e) \/ ReconcileRecord(e)
              \/ Bind(e) \/ Unbind(e) \/ Release(e)
       PROVE  UNCHANGED <<records, configured, scar>>
  BY <1>14 DEF StartService, Refused, ReconcileBinding, ReconcileRecord, Bind, Unbind, Release
<1>15. ASSUME NEW e \in Engines, NEW p \in Proposals, StartCommand(e, p)
       PROVE  UNCHANGED <<records, configured, scar>>
  BY <1>15 DEF StartCommand
<1>16. Lapse \/ UNCHANGED vars => UNCHANGED <<records, configured, scar>>
  BY DEF Lapse, vars
<1> QED BY <1>3, <1>6, <1>7, <1>10, <1>11, <1>12, <1>13, <1>14, <1>15, <1>16 DEF Next

\* A proposal that was given a rollout still has it, unless a stale record was
\* written (configure_rollout, save_and_replace).
THEOREM RolloutsStay == Spec => []ConfiguredInv
<1>1. Init => ConfiguredInv
  BY DEF Init, ConfiguredInv
<1> QED BY <1>1, ConfiguredStep, EvolutionInvariant, PTL DEF Spec

\* EvolutionEngine::approve and activate: nothing is active without a passed
\* evaluation; and while nothing has set the stores apart, above all no stale
\* record was written, what is active or bound has completed the rollout it was
\* ever given.
THEOREM ActivationsAreEarned == Spec => []OnlyEarnedActivate
<1>1. EvolutionInv /\ ConfiguredInv => OnlyEarnedActivate
  <2> SUFFICES ASSUME EvolutionInv, ConfiguredInv PROVE OnlyEarnedActivate
    OBVIOUS
  <2>1. EnginesTypeOK /\ Bound \subseteq Proposals /\ SoundInv /\ StoresInv
    BY BoundProposals DEF EvolutionInv
  <2>2. \A p \in Proposals : Settled(records[p]) => records[p].passed /\ Cleared(records[p])
    BY <2>1 DEF SoundInv, Sound, Settled, ProposalStates
  <2>3. \A p \in ActiveIn(records) : p \in Proposals /\ Settled(records[p])
    BY DEF ActiveIn, Settled
  <2>4. ASSUME scar = "none", NEW p \in Bound
        PROVE  p \in Proposals /\ Settled(records[p])
    <3>1. CASE p \in Differing
      BY <2>1, <2>4, <3>1 DEF StoresInv, Mendable, Binding, Settled
    <3>2. CASE p \notin Differing
      BY <2>1, <2>3, <2>4, <3>2 DEF Differing
    <3> QED BY <3>1, <3>2
  <2>5. ASSUME scar = "none", NEW p \in Proposals, Settled(records[p])
        PROVE  Earned(p)
    BY <2>2, <2>5 DEF ConfiguredInv, Cleared, Earned, RolloutHeld
  <2>6. EvolutionTypeOK
    BY <2>1 DEF EvolutionTypeOK, ConfiguredInv
  <2> QED BY <2>2, <2>3, <2>4, <2>5, <2>6 DEF OnlyEarnedActivate
<1> QED BY <1>1, EvolutionInvariant, RolloutsStay, PTL

\* activate_cataloged, rollback_admitted and reconcile_cataloged: a mutation is
\* answered with success when the two stores agree, and crashes and failures
\* between the two never add up to a second disagreement.
THEOREM StoresStayTogether == Spec => []StoresTogether
<1>1. EvolutionInv => StoresTogether
  <2> SUFFICES ASSUME EvolutionInv PROVE StoresTogether
    OBVIOUS
  <2>1. AnsweredMutationsAgree
    BY DEF EvolutionInv, EngineInv, EngineAt, AnsweredMutationsAgree
  <2>2. OneDisagreement
    <3> SUFFICES ASSUME scar = "none" PROVE Cardinality(Differing) <= 1
      BY DEF OneDisagreement, Differing
    <3>1. \A p, q \in Differing : p = q
      BY DEF EvolutionInv, StoresInv
    <3>2. Differing = {} \/ \E p \in Differing : Differing = {p}
      BY <3>1
    <3> QED BY <3>2, FS_EmptySet, FS_Singleton
  <2> QED BY <2>1, <2>2 DEF StoresTogether
<1> QED BY <1>1, EvolutionInvariant, PTL

\* reconcile_cataloged: it is stuck only after a stale copy was written, a
\* proposal others depend on was rolled back, or a refused activation was left.
THEOREM RecoveryFindsAWay == Spec => []RecoveryNotStuck
<1>1. EvolutionInv => RecoveryNotStuck
  BY DEF EvolutionInv, StoresInv, RecoveryNotStuck
<1> QED BY <1>1, EvolutionInvariant, PTL

-----------------------------------------------------------------------------
(* Following replacements, which ends: resolve and catalog.activate.         *)

\* Induction, over sets of numbers.
LEMMA Induction ==
    ASSUME NEW S \in SUBSET Nat, 0 \in S, \A n \in S : n + 1 \in S
    PROVE  S = Nat
<1> SUFFICES ASSUME Nat \ S # {} PROVE FALSE
  OBVIOUS
<1>1. PICK n \in Nat \ S : \A m \in Nat \ S : n <= m
  BY HasLeast
<1>2. n - 1 \in Nat /\ n - 1 < n /\ (n - 1) + 1 = n
  BY <1>1
<1> QED BY <1>1, <1>2

\* One replacement.
Onward(bound, here) ==
    LET next == {Candidate[p] : p \in {q \in bound : Base[q] = here}}
    IN  IF next = {} THEN here ELSE CHOOSE c \in next : TRUE

LEMMA OnwardFacts ==
    ASSUME NEW bound \in SUBSET Proposals, NEW a \in Artifacts
    PROVE  /\ Onward(bound, a) \in Artifacts
           /\ (\A q \in bound : Base[q] # a) => Onward(bound, a) = a
           /\ \A q \in bound : /\ Base[q] = a
                               /\ \A r \in bound : Base[r] = Base[q] => r = q
                               => Onward(bound, a) = Candidate[q]
<1> DEFINE next == {Candidate[p] : p \in {q \in bound : Base[q] = a}}
<1>1. Onward(bound, a) = IF next = {} THEN a ELSE CHOOSE c \in next : TRUE
  BY DEF Onward
<1>2. next \subseteq Artifacts
  BY EvolutionAssumption
<1>3. ASSUME NEW q \in bound, Base[q] = a, \A r \in bound : Base[r] = Base[q] => r = q
      PROVE  next = {Candidate[q]}
  BY <1>3
<1>4. (\A q \in bound : Base[q] # a) => next = {}
  OBVIOUS
<1> HIDE DEF next
<1>5. next # {} => (CHOOSE c \in next : TRUE) \in next
  OBVIOUS
<1> QED BY <1>1, <1>2, <1>3, <1>4, <1>5

\* The way of n replacements from a.
Way(bound, a, n, g) ==
    /\ g \in [0..n -> Artifacts] /\ g[0] = a
    /\ \A i \in 1..n : g[i] = Onward(bound, g[i - 1])

LEMMA WayExists ==
    ASSUME NEW bound \in SUBSET Proposals, NEW a \in Artifacts, NEW n \in Nat
    PROVE  \E g : Way(bound, a, n, g)
<1> DEFINE S == {m \in Nat : \E g : Way(bound, a, m, g)}
<1>1. 0 \in S
  <2>1. Way(bound, a, 0, [i \in 0..0 |-> a])
    BY DEF Way
  <2> QED BY <2>1
<1>2. ASSUME NEW m \in S PROVE m + 1 \in S
  <2>1. PICK g : Way(bound, a, m, g)
    OBVIOUS
  <2> DEFINE h == [i \in 0..(m + 1) |-> IF i = m + 1 THEN Onward(bound, g[m]) ELSE g[i]]
  <2>2. m \in Nat /\ g \in [0..m -> Artifacts] /\ g[0] = a
        /\ \A i \in 1..m : g[i] = Onward(bound, g[i - 1])
    BY <2>1 DEF Way
  <2>3. Onward(bound, g[m]) \in Artifacts
    BY <2>2, OnwardFacts
  <2>4. h \in [0..(m + 1) -> Artifacts] /\ h[0] = a
    BY <2>2, <2>3
  <2>5. ASSUME NEW i \in 1..(m + 1) PROVE h[i] = Onward(bound, h[i - 1])
    <3>1. i \in 0..(m + 1) /\ i - 1 \in 0..m /\ i - 1 \in 0..(m + 1) /\ i - 1 # m + 1
      BY <2>2
    <3>2. h[i - 1] = g[i - 1]
      BY <3>1
    <3>3. CASE i = m + 1
      BY <2>2, <3>1, <3>2, <3>3
    <3>4. CASE i # m + 1
      <4>1. i \in 1..m /\ h[i] = g[i]
        BY <2>2, <3>1, <3>4
      <4> QED BY <2>2, <3>2, <4>1
    <3> QED BY <3>3, <3>4
  <2>6. Way(bound, a, m + 1, h)
    <3> HIDE DEF h
    <3> QED BY <2>4, <2>5 DEF Way
  <2> QED BY <2>6
<1>3. S = Nat
  <2>1. S \in SUBSET Nat
    OBVIOUS
  <2> HIDE DEF S
  <2> QED BY <1>1, <1>2, <2>1, Induction
<1> QED BY <1>3

LEMMA WayUnique ==
    ASSUME NEW bound, NEW a, NEW n \in Nat, NEW m \in Nat, NEW g, NEW h,
           Way(bound, a, n, g), Way(bound, a, m, h), NEW k \in Nat, k <= n, k <= m
    PROVE  g[k] = h[k]
<1> DEFINE S == {i \in Nat : i <= n /\ i <= m => g[i] = h[i]}
<1>1. 0 \in S
  BY DEF Way
<1>2. ASSUME NEW i \in S PROVE i + 1 \in S
  <2> SUFFICES ASSUME i + 1 <= n, i + 1 <= m PROVE g[i + 1] = h[i + 1]
    OBVIOUS
  <2>1. i + 1 \in 1..n /\ i + 1 \in 1..m /\ (i + 1) - 1 = i /\ g[i] = h[i]
    OBVIOUS
  <2>2. g[i + 1] = Onward(bound, g[(i + 1) - 1]) /\ h[i + 1] = Onward(bound, h[(i + 1) - 1])
    BY <2>1 DEF Way
  <2> QED BY <2>1, <2>2
<1>3. S = Nat
  <2>1. S \in SUBSET Nat
    OBVIOUS
  <2> HIDE DEF S
  <2> QED BY <1>1, <1>2, <2>1, Induction
<1> QED BY <1>3

\* What the recursive definition defines.
LEMMA FollowFacts ==
    ASSUME NEW bound \in SUBSET Proposals, NEW a \in Artifacts
    PROVE  /\ Follow(bound)[0][a] = a
           /\ \A n \in Nat : /\ Follow(bound)[n][a] \in Artifacts
                             /\ Follow(bound)[n + 1][a] = Onward(bound, Follow(bound)[n][a])
<1> DEFINE Body(f) == [n \in Nat |->
                         IF n = 0 THEN [x \in Artifacts |-> x]
                         ELSE [x \in Artifacts |-> Onward(bound, f[n - 1][x])]]
           way(n, x) == CHOOSE g : Way(bound, x, n, g)
           F == [n \in Nat |-> [x \in Artifacts |-> way(n, x)[n]]]
<1>1. Follow(bound) = CHOOSE f : f = Body(f)
  BY DEF Follow, Onward
<1>2. \A n \in Nat, x \in Artifacts : Way(bound, x, n, way(n, x))
  BY WayExists
<1>3. F = Body(F)
  <2>1. ASSUME NEW n \in Nat, NEW x \in Artifacts
        PROVE  F[n][x] = IF n = 0 THEN x ELSE Onward(bound, F[n - 1][x])
    <3> HIDE DEF way
    <3>1. F[n][x] = way(n, x)[n]
      OBVIOUS
    <3>2. CASE n = 0
      BY <1>2, <3>1, <3>2 DEF Way
    <3>3. CASE n # 0
      <4>1. n - 1 \in Nat /\ n \in 1..n /\ n - 1 <= n
        BY <3>3
      <4>2. F[n - 1][x] = way(n - 1, x)[n - 1]
        BY <4>1
      <4>3. way(n - 1, x)[n - 1] = way(n, x)[n - 1]
        <5>1. Way(bound, x, n - 1, way(n - 1, x)) /\ Way(bound, x, n, way(n, x))
          BY <1>2, <4>1
        <5> QED BY <4>1, <5>1, WayUnique
      <4>4. way(n, x)[n] = Onward(bound, way(n, x)[n - 1])
        BY <1>2, <4>1 DEF Way
      <4> QED BY <3>1, <3>3, <4>2, <4>3, <4>4
    <3> QED BY <3>2, <3>3
  <2>2. ASSUME NEW n \in Nat PROVE F[n] = Body(F)[n]
    <3>1. F[n] = [x \in Artifacts |-> F[n][x]]
      OBVIOUS
    <3> HIDE DEF F
    <3>2. Body(F)[n] = [x \in Artifacts |-> IF n = 0 THEN x ELSE Onward(bound, F[n - 1][x])]
      <4>1. CASE n = 0
        BY <4>1
      <4>2. CASE n # 0
        BY <4>2
      <4> QED BY <4>1, <4>2
    <3> QED BY <2>1, <3>1, <3>2
  <2>3. F = [n \in Nat |-> F[n]] /\ Body(F) = [n \in Nat |-> Body(F)[n]]
    OBVIOUS
  <2> HIDE DEF F, Body
  <2> QED BY <2>2, <2>3
<1> DEFINE G == Follow(bound)
<1>4. G = Body(G)
  <2> HIDE DEF F, Body
  <2> QED BY <1>1, <1>3
<1>5. \A n \in Nat : G[n][a] = IF n = 0 THEN a ELSE Onward(bound, G[n - 1][a])
  <2>1. \A n \in Nat : G[n] = IF n = 0 THEN [x \in Artifacts |-> x]
                              ELSE [x \in Artifacts |-> Onward(bound, G[n - 1][x])]
    BY <1>4
  <2> HIDE DEF G
  <2> QED BY <2>1
<1> HIDE DEF G, F, Body, way
<1>6. G[0][a] = a /\ \A n \in Nat : G[n + 1][a] = Onward(bound, G[n][a])
  <2>1. \A n \in Nat : n + 1 \in Nat /\ n + 1 # 0 /\ (n + 1) - 1 = n
    OBVIOUS
  <2> QED BY <1>5, <2>1
<1>7. {n \in Nat : G[n][a] \in Artifacts} = Nat
  <2> DEFINE S == {n \in Nat : G[n][a] \in Artifacts}
  <2>1. S \in SUBSET Nat /\ 0 \in S /\ \A n \in S : n + 1 \in S
    BY <1>6, OnwardFacts
  <2> HIDE DEF S
  <2>2. S = Nat
    BY <2>1, Induction
  <2> QED BY <2>2 DEF S
<1> QED BY <1>6, <1>7 DEF G

\* An artifact nobody replaces ends the way.
Final(bound, a) == \A q \in bound : Base[q] # a

LEMMA FinalStays ==
    ASSUME NEW bound \in SUBSET Proposals, NEW a \in Artifacts, NEW k \in Nat,
           Final(bound, Follow(bound)[k][a]), NEW n \in Nat, k <= n
    PROVE  Follow(bound)[n][a] = Follow(bound)[k][a]
<1> DEFINE f(i) == Follow(bound)[i][a]
           S == {i \in Nat : f(k + i) = f(k)}
<1>1. \A i \in Nat : f(i) \in Artifacts /\ f(i + 1) = Onward(bound, f(i))
  BY FollowFacts
<1>2. Final(bound, f(k))
  OBVIOUS
<1> HIDE DEF f
<1>3. 0 \in S
  OBVIOUS
<1>4. ASSUME NEW i \in S PROVE i + 1 \in S
  <2>1. k + i \in Nat /\ k + (i + 1) = (k + i) + 1 /\ f(k + i) = f(k) /\ i + 1 \in Nat
    OBVIOUS
  <2>2. f((k + i) + 1) = f(k)
    BY <1>1, <1>2, <2>1, OnwardFacts DEF Final
  <2> QED BY <2>1, <2>2
<1>5. S = Nat
  <2>1. S \in SUBSET Nat
    OBVIOUS
  <2> HIDE DEF S
  <2> QED BY <1>3, <1>4, <2>1, Induction
<1>6. n - k \in Nat /\ k + (n - k) = n
  OBVIOUS
<1>7. f(k + (n - k)) = f(k)
  <2>1. n - k \in S
    BY <1>5, <1>6
  <2> QED BY <2>1
<1>8. f(n) = f(k)
  BY <1>6, <1>7
<1> QED BY <1>8 DEF f

\* The way from a goes on from its first replacement.
LEMMA FollowShift ==
    ASSUME NEW bound \in SUBSET Proposals, NEW a \in Artifacts, NEW n \in Nat
    PROVE  Follow(bound)[n + 1][a] = Follow(bound)[n][Onward(bound, a)]
<1> DEFINE b == Onward(bound, a)
           f(i) == Follow(bound)[i][a]
           g(i) == Follow(bound)[i][b]
           S == {i \in Nat : f(i + 1) = g(i)}
<1>1. b \in Artifacts
  BY OnwardFacts
<1> HIDE DEF b
<1>2. /\ f(0) = a /\ \A i \in Nat : f(i + 1) = Onward(bound, f(i))
      /\ g(0) = b /\ \A i \in Nat : g(i + 1) = Onward(bound, g(i))
  BY <1>1, FollowFacts
<1> HIDE DEF f, g
<1>3. f(0 + 1) = b
  BY <1>2 DEF b
<1>4. 0 \in S
  BY <1>2, <1>3
<1>5. ASSUME NEW i \in S PROVE i + 1 \in S
  <2>1. i \in Nat /\ i + 1 \in Nat /\ f(i + 1) = g(i)
    OBVIOUS
  <2>2. f((i + 1) + 1) = Onward(bound, f(i + 1)) /\ g(i + 1) = Onward(bound, g(i))
    BY <1>2, <2>1
  <2> QED BY <2>1, <2>2
<1>6. S = Nat
  <2>1. S \in SUBSET Nat
    OBVIOUS
  <2> HIDE DEF S
  <2> QED BY <1>4, <1>5, <2>1, Induction
<1>7. f(n + 1) = g(n)
  BY <1>6
<1> QED BY <1>7 DEF f, g, b

\* No cycles: every replacement goes down in some order of the artifacts.
OneReplacement(bound) == \A p, q \in bound : Base[p] = Base[q] => p = q
Descends(rank, bound) == \A q \in bound : rank[Candidate[q]] < rank[Base[q]]
Acyclic(bound) == \E rank \in [Artifacts -> Nat] : Descends(rank, bound)

LEMMA ArtifactCount ==
    /\ Cardinality(Artifacts) \in Nat
    /\ \A p \in Proposals : Base[p] \in Artifacts /\ Candidate[p] \in Artifacts
BY EvolutionAssumption, FS_CardinalityType

\* Without cycles no artifact is met twice before the way ends.
LEMMA WayDescends ==
    ASSUME NEW bound \in SUBSET Proposals, OneReplacement(bound), Acyclic(bound),
           NEW a \in Artifacts, NEW n \in Nat,
           \A i \in Nat : i < n => ~Final(bound, Follow(bound)[i][a])
    PROVE  \A i, j \in 0..n : Follow(bound)[i][a] = Follow(bound)[j][a] => i = j
<1> DEFINE f(i) == Follow(bound)[i][a]
<1>1. \A i \in Nat : f(i) \in Artifacts /\ f(i + 1) = Onward(bound, f(i))
  BY FollowFacts
<1>2. \A i \in Nat : i < n => ~Final(bound, f(i))
  OBVIOUS
<1> HIDE DEF f
<1>3. PICK rank \in [Artifacts -> Nat] : Descends(rank, bound)
  BY DEF Acyclic
<1>4. \A i \in Nat : rank[f(i)] \in Nat
  BY <1>1, <1>3
<1>5. ASSUME NEW i \in Nat, i < n
      PROVE  rank[f(i + 1)] < rank[f(i)]
  <2>1. PICK q \in bound : Base[q] = f(i)
    BY <1>2, <1>5 DEF Final
  <2>2. \A r \in bound : Base[r] = Base[q] => r = q
    BY DEF OneReplacement
  <2>3. f(i + 1) = Candidate[q]
    BY <1>1, <2>1, <2>2, OnwardFacts
  <2>4. rank[Candidate[q]] < rank[Base[q]]
    BY <1>3 DEF Descends
  <2> QED BY <2>1, <2>3, <2>4
<1>6. ASSUME NEW i \in Nat, NEW j \in Nat, i < j, j <= n
      PROVE  rank[f(j)] < rank[f(i)]
  <2> DEFINE S == {d \in Nat : i + d + 1 <= n => rank[f(i + d + 1)] < rank[f(i)]}
  <2>1. 0 \in S
    <3>1. i + 0 + 1 = i + 1
      OBVIOUS
    <3> QED BY <1>5, <3>1
  <2>2. ASSUME NEW d \in S PROVE d + 1 \in S
    <3> SUFFICES ASSUME i + (d + 1) + 1 <= n PROVE rank[f(i + (d + 1) + 1)] < rank[f(i)]
      OBVIOUS
    <3> DEFINE k == i + d + 1
    <3>1. d \in Nat /\ k \in Nat /\ k < n /\ i + (d + 1) + 1 = k + 1
      OBVIOUS
    <3>2. rank[f(k)] < rank[f(i)]
      BY <3>1
    <3>3. rank[f(k + 1)] < rank[f(k)]
      BY <1>5, <3>1
    <3> DEFINE x == rank[f(k + 1)]
               y == rank[f(k)]
               z == rank[f(i)]
    <3>4. x < y /\ y < z /\ x \in Nat /\ y \in Nat /\ z \in Nat
      BY <1>4, <3>1, <3>2, <3>3
    <3>5. x < z
      <4> HIDE DEF x, y, z
      <4> QED BY <3>4
    <3> QED BY <3>1, <3>5
  <2>3. S = Nat
    <3>1. S \in SUBSET Nat
      OBVIOUS
    <3> HIDE DEF S
    <3> QED BY <2>1, <2>2, <3>1, Induction
  <2>4. j - i - 1 \in Nat /\ i + (j - i - 1) + 1 = j
    BY <1>6
  <2> QED BY <1>6, <2>3, <2>4
<1>7. ASSUME NEW i \in 0..n, NEW j \in 0..n, f(i) = f(j)
      PROVE  i = j
  <2>1. i \in Nat /\ j \in Nat /\ i <= n /\ j <= n
    OBVIOUS
  <2>2. ~(rank[f(j)] < rank[f(i)]) /\ ~(rank[f(i)] < rank[f(j)])
    BY <1>4, <1>7, <2>1
  <2>3. ~(i < j) /\ ~(j < i)
    BY <1>6, <2>1, <2>2
  <2> QED BY <2>1, <2>3
<1> QED BY <1>7 DEF f

\* A way that has not ended after n steps had not ended before.
LEMMA NotYetFinal ==
    ASSUME NEW bound \in SUBSET Proposals, NEW a \in Artifacts, NEW n \in Nat,
           ~Final(bound, Follow(bound)[n][a])
    PROVE  \A i \in Nat : i < n + 1 => ~Final(bound, Follow(bound)[i][a])
<1> SUFFICES ASSUME NEW i \in Nat, i < n + 1, Final(bound, Follow(bound)[i][a]) PROVE FALSE
  OBVIOUS
<1>1. i <= n
  OBVIOUS
<1>2. Follow(bound)[n][a] = Follow(bound)[i][a]
  BY <1>1, FinalStays
<1> QED BY <1>2

\* The way ends within as many steps as there are artifacts.
LEMMA WaysEnd ==
    ASSUME NEW bound \in SUBSET Proposals, OneReplacement(bound), Acyclic(bound),
           NEW a \in Artifacts
    PROVE  Final(bound, Follow(bound)[Cardinality(Artifacts)][a])
<1> DEFINE N == Cardinality(Artifacts)
           f(i) == Follow(bound)[i][a]
<1> SUFFICES ASSUME ~Final(bound, f(N)) PROVE FALSE
  OBVIOUS
<1>1. N \in Nat /\ IsFiniteSet(Artifacts)
  BY ArtifactCount, EvolutionAssumption
<1> HIDE DEF N
<1>2. \A i \in Nat : i < N + 1 => ~Final(bound, f(i))
  BY <1>1, NotYetFinal
<1>3. \A i \in Nat : i < N => ~Final(bound, f(i))
  <2>1. \A i \in Nat : i < N => i < N + 1
    BY <1>1
  <2> QED BY <1>2, <2>1
<1>4. \A i, j \in 0..N : f(i) = f(j) => i = j
  BY <1>1, <1>3, WayDescends
<1>5. \A i \in Nat : f(i) \in Artifacts
  BY FollowFacts
<1> HIDE DEF f
<1> DEFINE path == [i \in 0..N |-> f(i)]
<1>6. path \in [0..N -> Artifacts]
  BY <1>1, <1>5
<1>7. IsFiniteSet(0..N) /\ Cardinality(0..N) = N + 1
  <2>1. 0 \in Int /\ N \in Int /\ ~(0 > N) /\ N - 0 + 1 = N + 1
    BY <1>1
  <2> QED BY <2>1, FS_Interval
<1>8. Cardinality(Artifacts) < Cardinality(0..N)
  BY <1>1, <1>7 DEF N
<1>9. PICK i \in 0..N, j \in 0..N : i # j /\ path[i] = path[j]
  <2> HIDE DEF path
  <2> QED BY <1>1, <1>6, <1>7, <1>8, FS_PigeonHole
<1>10. f(i) = f(j)
  BY <1>9
<1> QED BY <1>4, <1>9, <1>10

\* Wherever the lookups stopped, if they stopped at an end it is the end.
LEMMA EndsAreOne ==
    ASSUME NEW bound \in SUBSET Proposals, NEW a \in Artifacts, NEW m \in Nat, NEW n \in Nat,
           Final(bound, Follow(bound)[m][a]), Final(bound, Follow(bound)[n][a])
    PROVE  Follow(bound)[m][a] = Follow(bound)[n][a]
<1>1. CASE m <= n
  BY <1>1, FinalStays
<1>2. CASE n <= m
  BY <1>2, FinalStays
<1> QED BY <1>1, <1>2

\* What catalog.activate admits closes no cycle.
LEMMA AdmittedAcyclic ==
    ASSUME NEW bound \in SUBSET Proposals, OneReplacement(bound), Acyclic(bound),
           NEW p \in Proposals, Final(bound, Base[p]),
           Follow(bound)[Cardinality(Artifacts)][Candidate[p]] # Base[p]
    PROVE  Acyclic(bound \cup {p})
<1> DEFINE N == Cardinality(Artifacts)
           end(x) == Follow(bound)[N][x]
           b == Base[p]
           c == Candidate[p]
<1>1. N \in Nat /\ b \in Artifacts /\ c \in Artifacts
  BY ArtifactCount
<1>2. end(b) = b /\ end(c) # b
  <2>1. Follow(bound)[0][b] = b /\ 0 <= N
    BY <1>1, FollowFacts
  <2>2. Final(bound, Follow(bound)[0][b])
    BY <2>1
  <2>3. Follow(bound)[N][b] = Follow(bound)[0][b]
    <3> HIDE DEF N, b
    <3> QED BY <1>1, <2>1, <2>2, FinalStays
  <2> QED BY <2>1, <2>3
<1> HIDE DEF N
<1>3. ASSUME NEW q \in bound
      PROVE  /\ end(Candidate[q]) = end(Base[q])
             /\ Base[q] \in Artifacts /\ Candidate[q] \in Artifacts
  <2> DEFINE x == Base[q]
  <2>1. x \in Artifacts /\ Candidate[q] \in Artifacts
    BY ArtifactCount
  <2>2. Onward(bound, x) = Candidate[q]
    BY <2>1, OnwardFacts DEF OneReplacement
  <2> HIDE DEF x
  <2>3. Follow(bound)[N + 1][x] = Follow(bound)[N][Candidate[q]]
    BY <1>1, <2>1, <2>2, FollowShift
  <2>4. Final(bound, Follow(bound)[N][x])
    BY <2>1, WaysEnd DEF N
  <2>5. N + 1 \in Nat /\ N <= N + 1
    BY <1>1
  <2>6. Follow(bound)[N + 1][x] = Follow(bound)[N][x]
    BY <1>1, <2>1, <2>4, <2>5, FinalStays
  <2> QED BY <2>1, <2>3, <2>6 DEF x
<1> HIDE DEF end
<1>4. PICK rank \in [Artifacts -> Nat] : Descends(rank, bound)
  BY DEF Acyclic
<1> DEFINE more == rank[c] + 1
           high == [x \in Artifacts |-> IF end(x) = b THEN rank[x] + more ELSE rank[x]]
<1>5. more \in Nat /\ rank[c] \in Nat /\ rank[b] \in Nat
  BY <1>1, <1>4
<1>6. high \in [Artifacts -> Nat]
  <2> HIDE DEF more
  <2> QED BY <1>4, <1>5
<1>7. ASSUME NEW q \in bound
      PROVE  high[Candidate[q]] < high[Base[q]]
  <2>1. rank[Candidate[q]] < rank[Base[q]] /\ rank[Candidate[q]] \in Nat /\ rank[Base[q]] \in Nat
    BY <1>3, <1>4 DEF Descends
  <2>2. CASE end(Base[q]) = b
    <3>1. high[Candidate[q]] = rank[Candidate[q]] + more /\ high[Base[q]] = rank[Base[q]] + more
      BY <1>3, <2>2
    <3> HIDE DEF more, high
    <3> QED BY <1>5, <2>1, <3>1
  <2>3. CASE end(Base[q]) # b
    BY <1>3, <2>1, <2>3
  <2> QED BY <2>2, <2>3
<1>8. high[c] < high[b]
  <2>1. high[c] = rank[c] /\ high[b] = rank[b] + more
    BY <1>1, <1>2
  <2> HIDE DEF high
  <2> QED BY <1>5, <2>1
<1>9. Descends(high, bound \cup {p})
  <2> HIDE DEF high
  <2> QED BY <1>7, <1>8 DEF Descends
<1> HIDE DEF high
<1> QED BY <1>6, <1>9 DEF Acyclic

\* The catalog loses a binding, gets one that it admits, or stays as it is.
LEMMA CatalogSteps ==
    ASSUME EvolutionInv, [Next]_vars
    PROVE  \/ Bound' \subseteq Bound
           \/ \E p \in Proposals : Admits(p) /\ Bound' = Bound \cup {p}
<1>1. /\ catalog \in Seq(Proposals) /\ \A i, j \in DOMAIN catalog : catalog[i] = catalog[j] => i = j
      /\ Bound = ToSet(catalog) /\ Bound' = ToSet(catalog') /\ Bound \subseteq Proposals
  BY BoundProposals DEF EvolutionInv, EnginesTypeOK, CatalogInv, Bound
<1>2. CASE catalog' = catalog
  BY <1>1, <1>2
<1>3. ASSUME NEW p \in Bound, catalog' = RemoveFirst(catalog, p)
      PROVE  Bound' \subseteq Bound
  BY <1>1, <1>3, Removal
<1>4. ASSUME NEW p \in Proposals, Admits(p), catalog' = Append(catalog, p)
      PROVE  Bound' = Bound \cup {p}
  <2>1. p \in Proposals \ ToSet(catalog)
    BY <1>1, <1>4 DEF Admits
  <2> QED BY <1>1, <1>4, <2>1, Addition
<1>5. ASSUME NEW e \in Engines, ReconcileBinding(e)
      PROVE  Bound' \subseteq Bound
  <2> DEFINE p == catalog[Least(Misfits(e))]
  <2>1. Misfits(e) # {} /\ Misfits(e) \subseteq DOMAIN catalog
    BY <1>5 DEF ReconcileBinding, Misfits
  <2>2. DOMAIN catalog = 1..Len(catalog) /\ Len(catalog) \in Nat
    BY <1>1
  <2>3. Misfits(e) \in SUBSET Nat
    BY <2>1, <2>2
  <2>4. Least(Misfits(e)) \in DOMAIN catalog
    BY <2>1, <2>3, LeastMember
  <2>5. p \in Bound
    BY <1>1, <2>4 DEF ToSet
  <2>6. catalog' = RemoveFirst(catalog, p) \/ catalog' = catalog
    BY <1>5 DEF ReconcileBinding
  <2> HIDE DEF p
  <2> QED BY <1>1, <1>3, <2>5, <2>6
<1>6. ASSUME NEW e \in Engines, ReconcileRecord(e)
      PROVE  \/ Bound' \subseteq Bound
             \/ \E p \in Proposals : Admits(p) /\ Bound' = Bound \cup {p}
  <2> DEFINE p == Least(Unlisted(e))
  <2>1. Unlisted(e) # {} /\ Unlisted(e) \subseteq Proposals /\ Proposals \subseteq Nat
    BY <1>6, EvolutionAssumption DEF ReconcileRecord, Unlisted, ActiveIn
  <2>2. p \in Proposals
    BY <2>1, LeastMember
  <2>3. (Admits(p) /\ catalog' = Append(catalog, p)) \/ catalog' = catalog
    BY <1>6 DEF ReconcileRecord
  <2> HIDE DEF p
  <2> QED BY <1>1, <1>4, <2>2, <2>3
<1>7. ASSUME NEW e \in Engines, Bind(e)
      PROVE  \/ Bound' \subseteq Bound
             \/ \E p \in Proposals : Admits(p) /\ Bound' = Bound \cup {p}
  <2> DEFINE p == want[e]
  <2>1. p \in Proposals
    BY <1>7 DEF Bind, EvolutionInv, EngineInv, EngineAt
  <2>2. (Admits(p) /\ catalog' = Append(catalog, p)) \/ catalog' = catalog
    BY <1>7 DEF Bind
  <2> QED BY <1>1, <1>4, <2>1, <2>2
<1>8. ASSUME NEW e \in Engines, Unbind(e)
      PROVE  Bound' \subseteq Bound
  <2> DEFINE p == want[e]
  <2>1. p \in Bound
    BY <1>8 DEF Unbind, EvolutionInv, EngineInv, EngineAt
  <2>2. catalog' = RemoveFirst(catalog, p) \/ catalog' = catalog
    BY <1>8 DEF Unbind
  <2> QED BY <1>1, <1>3, <2>1, <2>2
<1>9. ASSUME NEW e \in Engines, NEW p \in Proposals,
             StartCommand(e, p) \/ ServeRollout(e, p) \/ ActivateRecord(e, p) \/ RollbackRecord(e, p)
      PROVE  catalog' = catalog
  BY <1>9 DEF StartCommand, ServeRollout, ActivateRecord, RollbackRecord
<1>10. ASSUME NEW e \in Engines,
              \/ StartService(e) \/ AdvanceProposal(e) \/ ConfigureRollout(e)
              \/ TransitionRollout(e) \/ Refused(e)
              \/ Acquire(e) \/ Compensate(e) \/ Release(e) \/ Crash(e)
       PROVE  catalog' = catalog
  BY <1>10 DEF StartService, AdvanceProposal, ConfigureRollout, TransitionRollout, Settle,
       Refused, Acquire, Compensate, Release, Crash
<1>11. Lapse \/ UNCHANGED vars => catalog' = catalog
  BY DEF Lapse, vars
<1> QED BY <1>2, <1>5, <1>6, <1>7, <1>8, <1>9, <1>10, <1>11 DEF Next

\* ArtifactCatalog::activate, rollback and resolve: whichever processes change the
\* catalog, and from however old a copy, an artifact has one replacement and
\* following replacements ends; resolve gives up only on an artifact with
\* MAX_REPLACEMENT_DEPTH different replacements ahead.
THEOREM ResolutionEnds == Spec => []CatalogResolves
<1>1. Init => Acyclic(Bound)
  <2> SUFFICES ASSUME Init PROVE Acyclic(Bound)
    OBVIOUS
  <2>1. Bound = {}
    BY DEF Init, Bound, ToSet
  <2>2. [a \in Artifacts |-> 0] \in [Artifacts -> Nat]
    OBVIOUS
  <2> QED BY <2>1, <2>2 DEF Acyclic, Descends
<1>2. EvolutionInv /\ Acyclic(Bound) /\ [Next]_vars => Acyclic(Bound)'
  <2> SUFFICES ASSUME EvolutionInv, Acyclic(Bound), [Next]_vars PROVE Acyclic(Bound')
    BY DEF Acyclic, Descends
  <2>1. Bound \in SUBSET Proposals /\ OneReplacement(Bound)
    BY BoundProposals DEF EvolutionInv, CatalogInv, OneReplacement
  <2>2. CASE Bound' \subseteq Bound
    BY <2>2 DEF Acyclic, Descends
  <2>3. ASSUME NEW p \in Proposals, Admits(p), Bound' = Bound \cup {p}
        PROVE  Acyclic(Bound')
    <3>1. /\ Final(Bound, Base[p])
          /\ Final(Bound, Follow(Bound)[MaxDepth - 1][Candidate[p]])
          /\ Follow(Bound)[MaxDepth - 1][Candidate[p]] # Base[p]
      BY <2>3 DEF Admits, ClosesNoCycle, Final, Resolves, Resolve
    <3>2. MaxDepth - 1 \in Nat /\ Cardinality(Artifacts) \in Nat /\ Candidate[p] \in Artifacts
      BY ArtifactCount, EvolutionAssumption
    <3>3. Final(Bound, Follow(Bound)[Cardinality(Artifacts)][Candidate[p]])
      BY <2>1, <3>2, WaysEnd
    <3>4. Follow(Bound)[Cardinality(Artifacts)][Candidate[p]] # Base[p]
      BY <2>1, <3>1, <3>2, <3>3, EndsAreOne
    <3> QED BY <2>1, <2>3, <3>1, <3>4, AdmittedAcyclic
  <2> QED BY <2>2, <2>3, CatalogSteps
<1>3. EvolutionInv /\ Acyclic(Bound) => CatalogResolves
  <2> SUFFICES ASSUME EvolutionInv, Acyclic(Bound) PROVE CatalogResolves
    OBVIOUS
  <2>1. Bound \in SUBSET Proposals /\ OneReplacement(Bound)
    BY BoundProposals DEF EvolutionInv, CatalogInv, OneReplacement
  <2>2. \A a \in Artifacts : Final(Bound, Follow(Bound)[Cardinality(Artifacts)][a])
    BY <2>1, WaysEnd
  <2>3. ASSUME NEW a \in Artifacts, ~Resolves(a)
        PROVE  \A i, j \in 0..MaxDepth : Follow(Bound)[i][a] = Follow(Bound)[j][a] => i = j
    <3>1. MaxDepth \in Nat /\ MaxDepth - 1 \in Nat /\ (MaxDepth - 1) + 1 = MaxDepth
      BY EvolutionAssumption
    <3>2. ~Final(Bound, Follow(Bound)[MaxDepth - 1][a])
      BY <2>3 DEF Resolves, Resolve, Final
    <3>3. \A i \in Nat : i < MaxDepth => ~Final(Bound, Follow(Bound)[i][a])
      BY <2>1, <3>1, <3>2, NotYetFinal
    <3> QED BY <2>1, <3>1, <3>3, WayDescends
  <2> QED BY <2>1, <2>2, <2>3 DEF CatalogResolves, OneReplacement, Final
<1> QED BY <1>1, <1>2, <1>3, EvolutionInvariant, PTL DEF Spec
==============================================================================
