-------------------------- MODULE OrchestrationProofs --------------------------
(* The orchestration store keeps its tables, its plan and its accounts, and      *)
(* implements the abstract budget, for any plan, budget, runs and workers.       *)
EXTENDS Orchestration, FiniteSetTheorems, WellFoundedInduction, TLAPS

-----------------------------------------------------------------------------
(* Sums over finite sets.  SumFunctionOnSet is defined by taking members of the  *)
(* set one by one in some order; that the order does not matter follows because  *)
(* the sum counts the pairs of a member and a number below its value.            *)

Grains(f, S) == {p \in S \X Nat : p[2] < f[p[1]]}

LEMMA GrainsOfOne ==
    ASSUME NEW f, NEW o, f[o] \in Nat
    PROVE  /\ IsFiniteSet(Grains(f, {o}))
           /\ Cardinality(Grains(f, {o})) = f[o]
<1> DEFINE below == 0..(f[o] - 1)
<1>1. Grains(f, {o}) = {o} \X below
  BY DEF Grains
<1>2. IsFiniteSet(below) /\ Cardinality(below) = f[o]
  <2>1. 0 \in Int /\ f[o] - 1 \in Int
    OBVIOUS
  <2>2. /\ IsFiniteSet(0..(f[o] - 1))
        /\ Cardinality(0..(f[o] - 1)) = IF 0 > f[o] - 1 THEN 0 ELSE (f[o] - 1) - 0 + 1
    BY <2>1, FS_Interval, Zenon
  <2> QED BY <2>2
<1>3. IsFiniteSet({o}) /\ Cardinality({o}) = 1
  BY FS_Singleton
<1> HIDE DEF below
<1>4. IsFiniteSet({o} \X below) /\ Cardinality({o} \X below) = Cardinality({o}) * Cardinality(below)
  BY <1>2, <1>3, FS_Product
<1>5. 1 * f[o] = f[o]
  OBVIOUS
<1> QED BY <1>1, <1>2, <1>3, <1>4, <1>5

LEMMA GrainsFinite ==
    ASSUME NEW f, NEW S, IsFiniteSet(S), \A o \in S : f[o] \in Nat
    PROVE  IsFiniteSet(Grains(f, S)) /\ Cardinality(Grains(f, S)) \in Nat
<1> DEFINE parts == {Grains(f, {o}) : o \in S}
           part == [o \in S |-> Grains(f, {o})]
<1>1. part \in Surjection(S, parts)
  BY DEF Surjection
<1>2. IsFiniteSet(parts)
  BY <1>1, FS_Surjection
<1>3. \A T \in parts : IsFiniteSet(T)
  BY GrainsOfOne
<1>4. Grains(f, S) = UNION parts
  BY DEF Grains
<1>5. IsFiniteSet(UNION parts)
  <2> HIDE DEF parts
  <2> QED BY <1>2, <1>3, FS_UNION
<1> QED BY <1>4, <1>5, FS_CardinalityType

LEMMA GrainsOfUnion ==
    ASSUME NEW f, NEW S, NEW T, IsFiniteSet(S), IsFiniteSet(T), S \cap T = {},
           \A o \in S \cup T : f[o] \in Nat
    PROVE  Cardinality(Grains(f, S \cup T))
             = Cardinality(Grains(f, S)) + Cardinality(Grains(f, T))
<1>1. /\ IsFiniteSet(Grains(f, S)) /\ IsFiniteSet(Grains(f, T))
      /\ Cardinality(Grains(f, S)) \in Nat /\ Cardinality(Grains(f, T)) \in Nat
  BY GrainsFinite
<1>2. Grains(f, S \cup T) = Grains(f, S) \cup Grains(f, T)
  BY DEF Grains
<1>3. Grains(f, S) \cap Grains(f, T) = {}
  BY DEF Grains
<1> HIDE DEF Grains
<1>4. Cardinality(Grains(f, S) \cup Grains(f, T))
        = Cardinality(Grains(f, S)) + Cardinality(Grains(f, T))
            - Cardinality(Grains(f, S) \cap Grains(f, T))
  BY <1>1, FS_Union
<1>5. Cardinality(Grains(f, S) \cap Grains(f, T)) = 0
  BY <1>3, FS_EmptySet
<1> DEFINE a == Cardinality(Grains(f, S))
           b == Cardinality(Grains(f, T))
<1>6. Cardinality(Grains(f, S \cup T)) = a + b - 0
  BY <1>2, <1>4, <1>5
<1>7. a \in Nat /\ b \in Nat
  BY <1>1
<1> HIDE DEF a, b
<1>8. a + b - 0 = a + b
  BY <1>7
<1>9. Cardinality(Grains(f, S \cup T)) = a + b
  BY <1>6, <1>8
<1> QED BY <1>9 DEF a, b

LEMMA GrainsOfMore ==
    ASSUME NEW f, NEW S, NEW o, IsFiniteSet(S), o \notin S, \A p \in S \cup {o} : f[p] \in Nat
    PROVE  Cardinality(Grains(f, S \cup {o})) = f[o] + Cardinality(Grains(f, S))
<1>1. IsFiniteSet({o}) /\ S \cap {o} = {}
  BY FS_Singleton
<1>2. Cardinality(Grains(f, S)) \in Nat /\ Cardinality(Grains(f, {o})) = f[o] /\ f[o] \in Nat
  BY GrainsFinite, GrainsOfOne
<1> QED BY <1>1, <1>2, GrainsOfUnion

\* The recursion that the sum is defined by.
Sums(h, f, S) ==
    h = [s \in SUBSET S |->
            IF s = {} THEN 0
            ELSE f[CHOOSE o \in s : TRUE] + h[s \ {CHOOSE o \in s : TRUE}]]

LEMMA SumUnfolds ==
    ASSUME NEW f, NEW S, NEW h, Sums(h, f, S)
    PROVE  \E g : Sums(g, f, S) /\ SumFunctionOnSet(f, S) = g[S]
<1>1. SumFunctionOnSet(f, S) = (CHOOSE g : Sums(g, f, S))[S]
  BY DEF SumFunctionOnSet, FoldFunctionOnSet, MapThenFoldSet, Sums
<1>2. Sums(CHOOSE g : Sums(g, f, S), f, S)
  BY Zenon
<1> QED BY <1>1, <1>2

LEMMA CountingSums ==
    ASSUME NEW f, NEW S, IsFiniteSet(S), \A o \in S : f[o] \in Nat
    PROVE  Sums([s \in SUBSET S |-> Cardinality(Grains(f, s))], f, S)
<1> DEFINE h == [s \in SUBSET S |-> Cardinality(Grains(f, s))]
<1>1. Grains(f, {}) = {}
  BY DEF Grains
<1>2. h[{}] = 0
  BY <1>1, FS_EmptySet
<1>3. ASSUME NEW s \in SUBSET S, s # {}
      PROVE  h[s] = f[CHOOSE o \in s : TRUE] + h[s \ {CHOOSE o \in s : TRUE}]
  <2> DEFINE o == CHOOSE o \in s : TRUE
  <2>1. o \in s
    BY <1>3
  <2> HIDE DEF o
  <2>2. IsFiniteSet(s \ {o}) /\ s = (s \ {o}) \cup {o} /\ s \ {o} \in SUBSET S
    BY <2>1, FS_Subset
  <2>3. Cardinality(Grains(f, (s \ {o}) \cup {o})) = f[o] + Cardinality(Grains(f, s \ {o}))
    BY <2>1, <2>2, GrainsOfMore
  <2>4. h[s] = f[o] + h[s \ {o}]
    BY <2>2, <2>3
  <2> QED BY <2>4 DEF o
<1>4. \A s \in SUBSET S :
        h[s] = IF s = {} THEN 0
               ELSE f[CHOOSE o \in s : TRUE] + h[s \ {CHOOSE o \in s : TRUE}]
  BY <1>2, <1>3
<1>5. DOMAIN h = SUBSET S /\ h = [s \in SUBSET S |-> h[s]]
  OBVIOUS
<1> HIDE DEF h
<1>6. Sums(h, f, S)
  BY <1>4, <1>5 DEF Sums
<1> QED BY <1>6 DEF h

\* Two solutions of the recursion agree: a smallest set where they do not would
\* still show it with a member less.
LEMMA SumCounts ==
    ASSUME NEW f, NEW S, IsFiniteSet(S), \A o \in S : f[o] \in Nat
    PROVE  SumFunctionOnSet(f, S) = Cardinality(Grains(f, S))
<1> DEFINE h == [s \in SUBSET S |-> Cardinality(Grains(f, s))]
<1>1. Sums(h, f, S)
  BY CountingSums
<1>2. PICK g : Sums(g, f, S) /\ SumFunctionOnSet(f, S) = g[S]
  BY <1>1, SumUnfolds
<1>3. h[S] = Cardinality(Grains(f, S))
  OBVIOUS
<1> HIDE DEF h
<1> DEFINE Bad == {s \in SUBSET S : g[s] # h[s]}
<1>4. SUFFICES ASSUME Bad # {} PROVE FALSE
  BY <1>2, <1>3
<1>5. IsWellFoundedOn(StrictSubsetOrdering(S), SUBSET S)
  BY FS_StrictSubsetOrderingWellFounded, FS_FiniteSubsetsOfFinite
<1>6. PICK s \in Bad : \A t \in Bad : <<t, s>> \notin StrictSubsetOrdering(S)
  <2> HIDE DEF Bad
  <2>1. Bad \subseteq SUBSET S
    BY DEF Bad
  <2> QED BY <1>4, <1>5, <2>1, WFMin
<1>7. CASE s = {}
  BY <1>1, <1>2, <1>6, <1>7 DEF Sums
<1>8. CASE s # {}
  <2> DEFINE o == CHOOSE o \in s : TRUE
  <2>1. o \in s
    BY <1>8
  <2>2. g[s] = f[o] + g[s \ {o}] /\ h[s] = f[o] + h[s \ {o}]
    BY <1>1, <1>2, <1>6, <1>8 DEF Sums
  <2> HIDE DEF o
  <2>3. s \ {o} \notin Bad
    <3>1. <<s \ {o}, s>> \in StrictSubsetOrdering(S)
      BY <1>6, <2>1 DEF StrictSubsetOrdering
    <3> QED BY <1>6, <3>1
  <2>4. g[s \ {o}] = h[s \ {o}]
    BY <1>6, <2>3
  <2> QED BY <1>6, <2>2, <2>4
<1> QED BY <1>7, <1>8

\* What the proofs below use of sums.
LEMMA SumType ==
    ASSUME NEW f, NEW S, IsFiniteSet(S), \A o \in S : f[o] \in Nat
    PROVE  SumFunctionOnSet(f, S) \in Nat
BY SumCounts, GrainsFinite

LEMMA SumEmpty ==
    ASSUME NEW f
    PROVE  SumFunctionOnSet(f, {}) = 0
<1>1. Grains(f, {}) = {}
  BY DEF Grains
<1> QED BY <1>1, SumCounts, FS_EmptySet

LEMMA SumUnion ==
    ASSUME NEW f, NEW S, NEW T, IsFiniteSet(S), IsFiniteSet(T), S \cap T = {},
           \A o \in S \cup T : f[o] \in Nat
    PROVE  SumFunctionOnSet(f, S \cup T) = SumFunctionOnSet(f, S) + SumFunctionOnSet(f, T)
<1>1. IsFiniteSet(S \cup T)
  BY FS_Union
<1>2. /\ SumFunctionOnSet(f, S \cup T) = Cardinality(Grains(f, S \cup T))
      /\ SumFunctionOnSet(f, S) = Cardinality(Grains(f, S))
      /\ SumFunctionOnSet(f, T) = Cardinality(Grains(f, T))
  BY <1>1, SumCounts
<1> QED BY <1>2, GrainsOfUnion

LEMMA SumMore ==
    ASSUME NEW f, NEW S, NEW o, IsFiniteSet(S), o \notin S, \A p \in S \cup {o} : f[p] \in Nat
    PROVE  SumFunctionOnSet(f, S \cup {o}) = f[o] + SumFunctionOnSet(f, S)
<1>1. IsFiniteSet(S \cup {o})
  BY FS_AddElement
<1>2. /\ SumFunctionOnSet(f, S \cup {o}) = Cardinality(Grains(f, S \cup {o}))
      /\ SumFunctionOnSet(f, S) = Cardinality(Grains(f, S))
  BY <1>1, SumCounts
<1>3. Cardinality(Grains(f, S \cup {o})) = f[o] + Cardinality(Grains(f, S))
  BY GrainsOfMore
<1> QED BY <1>2, <1>3

LEMMA SumSame ==
    ASSUME NEW f, NEW g, NEW S, IsFiniteSet(S), \A o \in S : f[o] \in Nat /\ g[o] = f[o]
    PROVE  SumFunctionOnSet(g, S) = SumFunctionOnSet(f, S)
<1>1. Grains(g, S) = Grains(f, S)
  BY DEF Grains
<1>2. \A o \in S : g[o] \in Nat
  OBVIOUS
<1> QED BY <1>1, <1>2, SumCounts

\* One value grows.
LEMMA SumGrows ==
    ASSUME NEW f, NEW g, NEW S, NEW o \in S, NEW n \in Nat, IsFiniteSet(S),
           \A p \in S : f[p] \in Nat,
           \A p \in S \ {o} : g[p] = f[p], g[o] = f[o] + n
    PROVE  SumFunctionOnSet(g, S) = SumFunctionOnSet(f, S) + n
<1> DEFINE T == S \ {o}
<1>1. IsFiniteSet(T) /\ S = T \cup {o} /\ o \notin T
  BY FS_Subset
<1>2. \A p \in S : g[p] \in Nat
  OBVIOUS
<1>3. SumFunctionOnSet(g, T) = SumFunctionOnSet(f, T) /\ SumFunctionOnSet(f, T) \in Nat
  BY <1>1, SumSame, SumType
<1> HIDE DEF T
<1>4. /\ SumFunctionOnSet(f, T \cup {o}) = f[o] + SumFunctionOnSet(f, T)
      /\ SumFunctionOnSet(g, T \cup {o}) = g[o] + SumFunctionOnSet(g, T)
  BY <1>1, <1>2, SumMore
<1>5. f[o] \in Nat
  OBVIOUS
<1> QED BY <1>1, <1>3, <1>4, <1>5

-----------------------------------------------------------------------------
(* The plan.                                                                     *)

LEMMA RolesFinite == IsFiniteSet(Roles) /\ Roles # {}
<1>1. RoleOrder \in Seq(Roles) /\ Len(RoleOrder) \in Nat /\ Len(RoleOrder) # 0
  BY OrchestrationAssumption
<1>2. DOMAIN RoleOrder = 1..Len(RoleOrder)
  BY <1>1
<1>3. RoleOrder \in Surjection(1..Len(RoleOrder), Roles)
  BY <1>1, <1>2 DEF Surjection, Roles
<1>4. IsFiniteSet(1..Len(RoleOrder))
  BY <1>1, FS_Interval
<1>5. RoleOrder[1] \in Roles
  BY <1>1, <1>2 DEF Roles
<1> QED BY <1>3, <1>4, <1>5, FS_Surjection

\* The order of the plan is a total order of its roles.
LEMMA BeforeIsOrder ==
    /\ \A o \in Roles : ~Before(o, o)
    /\ \A o, p, q \in Roles : Before(o, p) /\ Before(p, q) => Before(o, q)
    /\ \A o, p \in Roles : o # p => Before(o, p) \/ Before(p, o)
<1>1. /\ DOMAIN RoleOrder \subseteq Nat
      /\ \A i, j \in DOMAIN RoleOrder : RoleOrder[i] = RoleOrder[j] => i = j
  <2>1. RoleOrder \in Seq(Roles)
    BY OrchestrationAssumption
  <2>2. DOMAIN RoleOrder = 1..Len(RoleOrder)
    BY <2>1
  <2> QED BY <2>1, <2>2, OrchestrationAssumption
<1>2. ASSUME NEW o \in Roles, Before(o, o) PROVE FALSE
  BY <1>1, <1>2 DEF Before
<1>3. ASSUME NEW o \in Roles, NEW p \in Roles, NEW q \in Roles, Before(o, p), Before(p, q)
      PROVE  Before(o, q)
  <2>1. PICK i \in DOMAIN RoleOrder, j \in DOMAIN RoleOrder :
            i < j /\ RoleOrder[i] = o /\ RoleOrder[j] = p
    BY <1>3 DEF Before
  <2>2. PICK k \in DOMAIN RoleOrder, l \in DOMAIN RoleOrder :
            k < l /\ RoleOrder[k] = p /\ RoleOrder[l] = q
    BY <1>3 DEF Before
  <2>3. j = k
    BY <1>1, <2>1, <2>2
  <2>4. i < l
    BY <1>1, <2>1, <2>2, <2>3
  <2> QED BY <2>1, <2>2, <2>4 DEF Before
<1>4. ASSUME NEW o \in Roles, NEW p \in Roles, o # p
      PROVE  Before(o, p) \/ Before(p, o)
  <2>1. PICK i \in DOMAIN RoleOrder, j \in DOMAIN RoleOrder :
            RoleOrder[i] = o /\ RoleOrder[j] = p
    BY DEF Roles
  <2>2. i < j \/ j < i
    BY <1>1, <1>4, <2>1
  <2> QED BY <2>1, <2>2 DEF Before
<1> QED BY <1>2, <1>3, <1>4

\* The first n are at most n: the number of roles before each tells them apart.
LEMMA FirstBounded ==
    ASSUME NEW roles \in SUBSET Roles, NEW n \in Nat
    PROVE  /\ First(roles, n) \subseteq roles
           /\ Cardinality(First(roles, n)) <= n
<1> DEFINE earlier(o) == {p \in roles : Before(p, o)}
           rank == [o \in First(roles, n) |-> Cardinality(earlier(o))]
<1>1. First(roles, n) \subseteq roles /\ First(roles, n) \subseteq Roles
  BY DEF First
<1>2. ASSUME NEW o \in roles
      PROVE  IsFiniteSet(earlier(o)) /\ Cardinality(earlier(o)) \in Nat
  <2>1. earlier(o) \in SUBSET Roles
    OBVIOUS
  <2>2. IsFiniteSet(earlier(o))
    BY <2>1, RolesFinite, FS_Subset
  <2> QED BY <2>2, FS_CardinalityType
<1>3. ASSUME NEW o \in roles, NEW q \in roles, Before(o, q)
      PROVE  Cardinality(earlier(o)) # Cardinality(earlier(q))
  <2>1. earlier(o) \in SUBSET earlier(q)
    BY <1>3, BeforeIsOrder
  <2>2. o \in earlier(q) /\ o \notin earlier(o)
    BY <1>3, BeforeIsOrder
  <2>3. IsFiniteSet(earlier(q))
    BY <1>2
  <2> HIDE DEF earlier
  <2> QED BY <2>1, <2>2, <2>3, FS_Subset
<1>4. ASSUME NEW o \in First(roles, n) PROVE Cardinality(earlier(o)) \in 0..(n - 1)
  <2>1. Cardinality(earlier(o)) < n /\ Cardinality(earlier(o)) \in Nat
    BY <1>1, <1>2 DEF First
  <2> HIDE DEF earlier
  <2> QED BY <2>1
<1> HIDE DEF earlier
<1>5. rank \in [First(roles, n) -> 0..(n - 1)]
  BY <1>4
<1>6. \A o, q \in First(roles, n) : rank[o] = rank[q] => o = q
  BY <1>1, <1>3, BeforeIsOrder
<1>7. rank \in Injection(First(roles, n), 0..(n - 1))
  <2> HIDE DEF rank
  <2> QED BY <1>5, <1>6 DEF Injection, IsInjective
<1>8. IsFiniteSet(0..(n - 1)) /\ Cardinality(0..(n - 1)) = n
  <2>1. 0 \in Int /\ n - 1 \in Int
    OBVIOUS
  <2>2. /\ IsFiniteSet(0..(n - 1))
        /\ Cardinality(0..(n - 1)) = IF 0 > n - 1 THEN 0 ELSE (n - 1) - 0 + 1
    BY <2>1, FS_Interval, Zenon
  <2> QED BY <2>2
<1>9. Cardinality(First(roles, n)) <= Cardinality(0..(n - 1))
  BY <1>7, <1>8, FS_Injection
<1> QED BY <1>1, <1>8, <1>9

\* What start_ready dispatches: roles of the plan that are neither active nor
\* completed, whose dependencies are, and no more than there is room for.
LEMMA ReadyRolesFacts ==
    ASSUME NEW x \in Runs, runs[x] \in RunRows,
           Cardinality(runs[x].active) <= MaxParallelism
    PROVE  /\ ReadyRoles(x) \subseteq Roles \ (runs[x].active \cup runs[x].completed)
           /\ \A o \in ReadyRoles(x) : DependsOn[o] \subseteq runs[x].completed
           /\ Cardinality(runs[x].active \cup ReadyRoles(x)) <= MaxParallelism
<1> DEFINE able == {o \in Roles \ runs[x].completed : DependsOn[o] \subseteq runs[x].completed}
           plan == PlanReady(runs[x].completed)
           room == MaxParallelism - Cardinality(runs[x].active)
<1>1. runs[x].active \in SUBSET Roles /\ MaxParallelism \in Nat
  BY OrchestrationAssumption DEF RunRows
<1>2. IsFiniteSet(runs[x].active) /\ Cardinality(runs[x].active) \in Nat
  BY <1>1, RolesFinite, FS_Subset, FS_CardinalityType
<1>3. room \in Nat
  BY <1>1, <1>2
<1>4. plan \subseteq able
  BY DEF PlanReady, First
<1>5. plan \ runs[x].active \in SUBSET Roles
  BY <1>4
<1>6. ReadyRoles(x) = First(plan \ runs[x].active, room)
  BY DEF ReadyRoles
<1> HIDE DEF plan, room
<1>7. ReadyRoles(x) \subseteq plan \ runs[x].active /\ Cardinality(ReadyRoles(x)) <= room
  BY <1>3, <1>5, <1>6, FirstBounded
<1>8. ReadyRoles(x) \in SUBSET Roles
  BY <1>5, <1>7
<1>9. IsFiniteSet(ReadyRoles(x)) /\ Cardinality(ReadyRoles(x)) \in Nat
  BY <1>8, RolesFinite, FS_Subset, FS_CardinalityType
<1> HIDE DEF ReadyRoles
<1>10. Cardinality(runs[x].active \cup ReadyRoles(x)) <= MaxParallelism
  <2>1. Cardinality(runs[x].active \cup ReadyRoles(x))
          = Cardinality(runs[x].active) + Cardinality(ReadyRoles(x))
              - Cardinality(runs[x].active \cap ReadyRoles(x))
    BY <1>2, <1>9, FS_Union
  <2>2. Cardinality(runs[x].active \cap ReadyRoles(x)) = 0
    <3>1. runs[x].active \cap ReadyRoles(x) = {}
      BY <1>7
    <3> QED BY <3>1, FS_EmptySet
  <2> DEFINE a == Cardinality(runs[x].active)
             b == Cardinality(ReadyRoles(x))
             c == Cardinality(runs[x].active \cup ReadyRoles(x))
  <2>3. c = a + b - 0 /\ a \in Nat /\ b \in Nat /\ b <= MaxParallelism - a
    BY <1>2, <1>7, <1>9, <2>1, <2>2 DEF room
  <2>4. c <= MaxParallelism
    <3> HIDE DEF a, b, c
    <3> QED BY <1>1, <2>3
  <2> QED BY <2>4
<1> QED BY <1>4, <1>7, <1>8, <1>10

-----------------------------------------------------------------------------
(* The amounts.                                                                  *)

Amounts == [Resources -> 0..MaxAmount]

\* What was reconciled of a role: finitely many digests, each with its charge.
Audits == UNION {[D -> Amounts] : D \in {E \in SUBSET Digests : IsFiniteSet(E)}}

LEMMA AmountFacts ==
    /\ MaxAmount \in Nat /\ 0..MaxAmount \subseteq Nat
    /\ Nothing \in Amounts /\ Ceiling \in Amounts
    /\ \A o \in Roles : Reserve[o] \in Amounts
    /\ \A u \in Usages : u.amount \in Amounts /\ u.known \in BOOLEAN
    /\ \A a \in Amounts, r \in Resources : a[r] \in 0..MaxAmount /\ a[r] \in Nat
BY OrchestrationAssumption DEF Amounts, Nothing

LEMMA ReservedType ==
    ASSUME NEW S \in SUBSET Roles, NEW r \in Resources
    PROVE  Reserved(S)[r] \in Nat
<1> DEFINE f == [o \in Roles |-> Reserve[o][r]]
<1>1. Reserved(S)[r] = SumFunctionOnSet(f, S)
  BY DEF Reserved
<1>2. \A o \in S : f[o] \in Nat
  BY AmountFacts
<1>3. IsFiniteSet(S)
  BY RolesFinite, FS_Subset
<1> HIDE DEF f
<1> QED BY <1>1, <1>2, <1>3, SumType

LEMMA ReservedUnion ==
    ASSUME NEW S \in SUBSET Roles, NEW T \in SUBSET Roles, S \cap T = {}, NEW r \in Resources
    PROVE  Reserved(S \cup T)[r] = Reserved(S)[r] + Reserved(T)[r]
<1> DEFINE f == [o \in Roles |-> Reserve[o][r]]
<1>1. \A U : Reserved(U)[r] = SumFunctionOnSet(f, U)
  BY DEF Reserved
<1>2. \A o \in S \cup T : f[o] \in Nat
  BY AmountFacts
<1>3. IsFiniteSet(S) /\ IsFiniteSet(T)
  BY RolesFinite, FS_Subset
<1> HIDE DEF f
<1>4. SumFunctionOnSet(f, S \cup T) = SumFunctionOnSet(f, S) + SumFunctionOnSet(f, T)
  BY <1>2, <1>3, SumUnion
<1> QED BY <1>1, <1>4

LEMMA ReservedOne ==
    ASSUME NEW o \in Roles, NEW r \in Resources
    PROVE  Reserved({o})[r] = Reserve[o][r]
<1> DEFINE f == [p \in Roles |-> Reserve[p][r]]
<1>1. Reserved({o})[r] = SumFunctionOnSet(f, {o}) /\ f[o] = Reserve[o][r]
  BY DEF Reserved
<1>2. f[o] \in Nat /\ IsFiniteSet({}) /\ {o} = {} \cup {o}
  BY AmountFacts, FS_EmptySet
<1> HIDE DEF f
<1>3. SumFunctionOnSet(f, {} \cup {o}) = f[o] + SumFunctionOnSet(f, {})
  BY <1>2, SumMore
<1>4. SumFunctionOnSet(f, {}) = 0
  BY SumEmpty
<1> QED BY <1>1, <1>2, <1>3, <1>4

-----------------------------------------------------------------------------
(* The invariant.                                                                *)

Typed ==
    /\ runs \in [Runs -> RunRows]
    /\ reservations \in [Runs -> [Roles -> Reservations]]
    /\ ledger \in [Runs -> Amounts]
    /\ unknownCost \in [Runs -> Nat]
    /\ reconciled \in [Runs -> [Roles -> Audits]]
    /\ dispatcher \in [Runs -> [Roles -> Workers \cup {NoWorker}]]

\* The run and its reservations.  A run that nobody holds has no role in progress.
TablesInv(x) ==
    /\ runs[x].worker # NoWorker <=> runs[x].status \in {"running", "completed", "interrupted"}
    /\ runs[x].status = "completed" => runs[x].completed = Roles
    /\ runs[x].completed \cap runs[x].active = {}
    /\ runs[x].worker = NoWorker => runs[x].active = {}
    /\ \A o \in Roles :
        /\ o \in runs[x].active <=> reservations[x][o].state = "active"
        /\ o \in runs[x].completed <=> reservations[x][o].state = "settled"
        /\ reservations[x][o].receipt # NoReceipt <=> o \in runs[x].completed

PlanInv(x) ==
    /\ \A o \in runs[x].active : dispatcher[x][o] = runs[x].worker
    /\ Cardinality(runs[x].active) <= MaxParallelism
    /\ \A o \in runs[x].active \cup runs[x].completed : DependsOn[o] \subseteq runs[x].completed

Audit(x, r) == Settled(x, r) + SumFunction([o \in Roles |-> Reconciled(x, o, r)])
LeastCost == Min({Reserve[o]["cost"] : o \in Roles})

AccountInv(x) ==
    /\ \A r \in Resources : ledger[x][r] = Audit(x, r)
    /\ ledger[x]["cost"] >= unknownCost[x] * LeastCost

OrchInv == Typed /\ \A x \in Runs : TablesInv(x) /\ PlanInv(x) /\ AccountInv(x)

\* No other run is touched.
OthersKept(x) ==
    \A y \in Runs \ {x} :
        /\ runs'[y] = runs[y] /\ reservations'[y] = reservations[y]
        /\ ledger'[y] = ledger[y] /\ unknownCost'[y] = unknownCost[y]
        /\ reconciled'[y] = reconciled[y] /\ dispatcher'[y] = dispatcher[y]

\* The sums of the audit, and when they stay as they are.
LEMMA AuditType ==
    ASSUME Typed, NEW x \in Runs, NEW r \in Resources
    PROVE  /\ \A o \in Roles : reservations[x][o].charge[r] \in Nat
           /\ \A o \in Roles : IsFiniteSet(DOMAIN reconciled[x][o])
           /\ \A o \in Roles : \A d \in DOMAIN reconciled[x][o] :
                reconciled[x][o][d] \in Amounts /\ reconciled[x][o][d][r] \in Nat
           /\ \A o \in Roles : Reconciled(x, o, r) \in Nat
           /\ IsFiniteSet(runs[x].completed) /\ runs[x].completed \subseteq Roles
           /\ Settled(x, r) \in Nat
           /\ SumFunction([o \in Roles |-> Reconciled(x, o, r)]) \in Nat
<1>1. ASSUME NEW o \in Roles PROVE reservations[x][o].charge[r] \in Nat
  BY AmountFacts DEF Typed, Reservations, Amounts
<1>2. ASSUME NEW o \in Roles
      PROVE  IsFiniteSet(DOMAIN reconciled[x][o]) /\ \A d \in DOMAIN reconciled[x][o] :
                reconciled[x][o][d] \in Amounts /\ reconciled[x][o][d][r] \in Nat
  <2>1. reconciled[x][o] \in Audits
    BY DEF Typed
  <2>2. PICK D \in {E \in SUBSET Digests : IsFiniteSet(E)} : reconciled[x][o] \in [D -> Amounts]
    BY <2>1 DEF Audits
  <2>3. DOMAIN reconciled[x][o] = D /\ IsFiniteSet(D)
    BY <2>2
  <2>4. \A d \in D : reconciled[x][o][d] \in Amounts
    BY <2>2
  <2> QED BY <2>3, <2>4, AmountFacts
<1>3. ASSUME NEW o \in Roles PROVE Reconciled(x, o, r) \in Nat
  <2> DEFINE f == [d \in DOMAIN reconciled[x][o] |-> reconciled[x][o][d][r]]
  <2>1. Reconciled(x, o, r) = SumFunctionOnSet(f, DOMAIN f)
    BY DEF Reconciled, SumFunction
  <2>2. IsFiniteSet(DOMAIN f) /\ \A d \in DOMAIN f : f[d] \in Nat
    BY <1>2
  <2> HIDE DEF f
  <2> QED BY <2>1, <2>2, SumType
<1>4. runs[x].completed \in SUBSET Roles
  BY DEF Typed, RunRows
<1>5. IsFiniteSet(runs[x].completed)
  BY <1>4, RolesFinite, FS_Subset
<1>6. Settled(x, r) \in Nat
  <2> DEFINE f == [o \in Roles |-> reservations[x][o].charge[r]]
  <2>1. \A o \in runs[x].completed : f[o] \in Nat
    BY <1>1, <1>4
  <2>2. Settled(x, r) = SumFunctionOnSet(f, runs[x].completed)
    BY DEF Settled
  <2> HIDE DEF f
  <2> QED BY <1>5, <2>1, <2>2, SumType
<1>7. SumFunction([o \in Roles |-> Reconciled(x, o, r)]) \in Nat
  <2> DEFINE f == [o \in Roles |-> Reconciled(x, o, r)]
  <2>1. SumFunction(f) = SumFunctionOnSet(f, Roles) /\ \A o \in Roles : f[o] \in Nat
    BY <1>3 DEF SumFunction
  <2> HIDE DEF f
  <2>2. SumFunction(f) \in Nat
    BY <2>1, RolesFinite, SumType
  <2> QED BY <2>2 DEF f
<1> QED BY <1>1, <1>2, <1>3, <1>4, <1>5, <1>6, <1>7

LEMMA ReconciledSame ==
    ASSUME NEW x, reconciled'[x] = reconciled[x], NEW r
    PROVE  SumFunction([o \in Roles |-> Reconciled(x, o, r)])'
             = SumFunction([o \in Roles |-> Reconciled(x, o, r)])
<1>1. \A o \in Roles : Reconciled(x, o, r)' = Reconciled(x, o, r)
  BY DEF Reconciled
<1>2. [o \in Roles |-> Reconciled(x, o, r)]' = [o \in Roles |-> Reconciled(x, o, r)]
  BY <1>1
<1> QED BY <1>2

\* A step that leaves the charges of the completed roles alone.
LEMMA SettledSame ==
    ASSUME Typed, NEW x \in Runs, NEW r \in Resources,
           runs'[x].completed = runs[x].completed,
           \A o \in runs[x].completed : reservations'[x][o].charge = reservations[x][o].charge
    PROVE  Settled(x, r)' = Settled(x, r)
<1> DEFINE f == [o \in Roles |-> reservations[x][o].charge[r]]
           g == [o \in Roles |-> reservations'[x][o].charge[r]]
<1>1. \A o \in runs[x].completed : f[o] \in Nat /\ g[o] = f[o]
  BY AuditType
<1>2. IsFiniteSet(runs[x].completed)
  BY AuditType
<1>3. Settled(x, r) = SumFunctionOnSet(f, runs[x].completed)
      /\ Settled(x, r)' = SumFunctionOnSet(g, runs[x].completed)
  BY DEF Settled
<1> HIDE DEF f, g
<1> QED BY <1>1, <1>2, <1>3, SumSame

LEMMA AccountSame ==
    ASSUME Typed, NEW x \in Runs, AccountInv(x),
           runs'[x].completed = runs[x].completed, reconciled'[x] = reconciled[x],
           ledger'[x] = ledger[x], unknownCost'[x] = unknownCost[x],
           \A o \in runs[x].completed : reservations'[x][o].charge = reservations[x][o].charge
    PROVE  AccountInv(x)'
<1>1. ASSUME NEW r \in Resources PROVE Audit(x, r)' = Audit(x, r)
  <2>1. Settled(x, r)' = Settled(x, r)
    BY SettledSame
  <2>2. SumFunction([o \in Roles |-> Reconciled(x, o, r)])'
             = SumFunction([o \in Roles |-> Reconciled(x, o, r)])
    BY ReconciledSame
  <2> QED BY <2>1, <2>2 DEF Audit
<1>2. ledger'[x]["cost"] >= unknownCost'[x] * LeastCost
  BY DEF AccountInv
<1>3. LeastCost' = LeastCost
  BY DEF LeastCost, Roles
<1> HIDE DEF LeastCost, Audit
<1> QED BY <1>1, <1>2, <1>3 DEF AccountInv

LEMMA OthersKeep ==
    ASSUME OrchInv, Typed', NEW x \in Runs, OthersKept(x),
           TablesInv(x)', PlanInv(x)', AccountInv(x)'
    PROVE  OrchInv'
<1>1. ASSUME NEW y \in Runs \ {x} PROVE TablesInv(y)' /\ PlanInv(y)' /\ AccountInv(y)'
  <2>1. TablesInv(y)'
    BY DEF OrchInv, OthersKept, TablesInv
  <2>2. PlanInv(y)'
    BY DEF OrchInv, OthersKept, PlanInv
  <2>3. AccountInv(y)'
    <3>1. /\ runs'[y] = runs[y] /\ reservations'[y] = reservations[y]
          /\ ledger'[y] = ledger[y] /\ unknownCost'[y] = unknownCost[y]
          /\ reconciled'[y] = reconciled[y]
      BY DEF OthersKept
    <3>2. Typed /\ AccountInv(y)
      BY DEF OrchInv
    <3> QED BY <3>1, <3>2, AccountSame
  <2> QED BY <2>1, <2>2, <2>3
<1> QED BY <1>1 DEF OrchInv

-----------------------------------------------------------------------------
(* The steps.                                                                    *)

\* The run is handed over, and neither its roles nor its budget change.
LEMMA HandOver ==
    ASSUME OrchInv, NEW x \in Runs, NEW row \in RunRows,
           runs' = [runs EXCEPT ![x] = row], UNCHANGED <<budgetRows, dispatcher>>,
           row.completed = runs[x].completed, row.active = runs[x].active,
           row.worker # NoWorker <=> row.status \in {"running", "completed", "interrupted"},
           row.status # "completed",
           row.worker = runs[x].worker \/ runs[x].active = {}
    PROVE  OrchInv'
<1>0. Typed /\ TablesInv(x) /\ PlanInv(x) /\ AccountInv(x)
  BY DEF OrchInv
<1>1. /\ reservations' = reservations /\ ledger' = ledger /\ unknownCost' = unknownCost
      /\ reconciled' = reconciled /\ dispatcher' = dispatcher
  BY DEF budgetRows
<1>2. runs'[x] = row /\ \A y \in Runs \ {x} : runs'[y] = runs[y]
  BY <1>0 DEF Typed
<1>3. Typed'
  BY <1>0, <1>1 DEF Typed
<1>4. OthersKept(x)
  BY <1>1, <1>2 DEF OthersKept
<1>5. TablesInv(x)'
  BY <1>0, <1>1, <1>2 DEF TablesInv
<1>6. PlanInv(x)'
  BY <1>0, <1>1, <1>2 DEF PlanInv
<1>7. AccountInv(x)'
  BY <1>0, <1>1, <1>2, AccountSame
<1> QED BY <1>3, <1>4, <1>5, <1>6, <1>7, OthersKeep

LEMMA HandOverSteps ==
    ASSUME OrchInv, NEW x \in Runs,
           \/ Submit(x) \/ MarkInterrupted(x) \/ Resume(x)
           \/ \E w \in Workers : ClaimNext(x, w)
    PROVE  OrchInv'
<1>0. runs \in [Runs -> RunRows] /\ runs[x] \in RunRows /\ TablesInv(x)
  BY DEF OrchInv, Typed
<1>1. CASE Submit(x)
  <2> DEFINE n == Cardinality({y \in Runs : runs[y].sequence > 0}) + 1
             row == [runs[x] EXCEPT !.status = "queued", !.sequence = n]
  <2>1. n \in Nat
    <3>1. {y \in Runs : runs[y].sequence > 0} \in SUBSET Runs
      OBVIOUS
    <3>2. IsFiniteSet({y \in Runs : runs[y].sequence > 0})
      BY <3>1, OrchestrationAssumption, FS_Subset
    <3>3. Cardinality({y \in Runs : runs[y].sequence > 0}) \in Nat
      BY <3>2, FS_CardinalityType
    <3> QED BY <3>3
  <2>2. runs' = [runs EXCEPT ![x] = row] /\ UNCHANGED <<budgetRows, dispatcher>>
    BY <1>1 DEF Submit
  <2> HIDE DEF n
  <2>3. row \in RunRows
    BY <1>0, <2>1 DEF RunRows, RunStatuses
  <2>4. /\ row.completed = runs[x].completed /\ row.active = runs[x].active
        /\ row.worker = runs[x].worker /\ row.status = "queued"
    BY <1>0 DEF RunRows
  <2>5. runs[x].worker = NoWorker
    BY <1>0, <1>1 DEF Submit, TablesInv
  <2> HIDE DEF row
  <2> QED BY <2>2, <2>3, <2>4, <2>5, HandOver
<1>2. CASE MarkInterrupted(x)
  <2> DEFINE row == [runs[x] EXCEPT !.status = "interrupted"]
  <2>1. runs' = [runs EXCEPT ![x] = row] /\ UNCHANGED <<budgetRows, dispatcher>>
    BY <1>2 DEF MarkInterrupted
  <2>2. row \in RunRows
    BY <1>0 DEF RunRows, RunStatuses
  <2>3. /\ row.completed = runs[x].completed /\ row.active = runs[x].active
        /\ row.worker = runs[x].worker /\ row.status = "interrupted"
    BY <1>0 DEF RunRows
  <2>4. runs[x].worker # NoWorker
    BY <1>0, <1>2 DEF MarkInterrupted, TablesInv
  <2> HIDE DEF row
  <2> QED BY <2>1, <2>2, <2>3, <2>4, HandOver
<1>3. CASE Resume(x)
  <2> DEFINE row == [runs[x] EXCEPT !.status = "queued", !.worker = NoWorker]
  <2>1. runs' = [runs EXCEPT ![x] = row] /\ UNCHANGED <<budgetRows, dispatcher>>
        /\ runs[x].active = {}
    BY <1>3 DEF Resume
  <2>2. row \in RunRows
    BY <1>0 DEF RunRows, RunStatuses
  <2>3. /\ row.completed = runs[x].completed /\ row.active = runs[x].active
        /\ row.worker = NoWorker /\ row.status = "queued"
    BY <1>0 DEF RunRows
  <2> HIDE DEF row
  <2> QED BY <2>1, <2>2, <2>3, HandOver
<1>4. ASSUME NEW w \in Workers, ClaimNext(x, w) PROVE OrchInv'
  <2> DEFINE row == [runs[x] EXCEPT !.status = "running", !.worker = w]
  <2>1. runs' = [runs EXCEPT ![x] = row] /\ UNCHANGED <<budgetRows, dispatcher>>
    BY <1>4 DEF ClaimNext
  <2>2. row \in RunRows
    BY <1>0 DEF RunRows, RunStatuses
  <2>3. /\ row.completed = runs[x].completed /\ row.active = runs[x].active
        /\ row.worker = w /\ row.status = "running"
    BY <1>0 DEF RunRows
  <2>4. runs[x].active = {} /\ w # NoWorker
    BY <1>0, <1>4, OrchestrationAssumption DEF ClaimNext, Queued, TablesInv
  <2> HIDE DEF row
  <2> QED BY <2>1, <2>2, <2>3, <2>4, HandOver
<1> QED BY <1>1, <1>2, <1>3, <1>4

LEMMA StartReadyKeeps ==
    ASSUME OrchInv, NEW x \in Runs, NEW w \in Workers, StartReady(x, w)
    PROVE  OrchInv'
<1> DEFINE ready == ReadyRoles(x)
           row == [runs[x] EXCEPT !.active = @ \cup ready]
           held == [state |-> "active", receipt |-> NoReceipt, charge |-> Nothing]
<1>0. Typed /\ TablesInv(x) /\ PlanInv(x) /\ AccountInv(x) /\ runs[x] \in RunRows
  BY DEF OrchInv, Typed
<1>1. /\ ready \subseteq Roles \ (runs[x].active \cup runs[x].completed)
      /\ \A o \in ready : DependsOn[o] \subseteq runs[x].completed
      /\ Cardinality(runs[x].active \cup ready) <= MaxParallelism
  BY <1>0, ReadyRolesFacts DEF PlanInv
<1>2. /\ runs' = [runs EXCEPT ![x] = row]
      /\ reservations' = [reservations EXCEPT ![x] =
           [o \in Roles |-> IF o \in ready THEN held ELSE reservations[x][o]]]
      /\ dispatcher' = [dispatcher EXCEPT ![x] =
           [o \in Roles |-> IF o \in ready THEN w ELSE dispatcher[x][o]]]
      /\ UNCHANGED <<ledger, unknownCost, reconciled>>
      /\ runs[x].status = "running" /\ runs[x].worker = w
  BY DEF StartReady, Owns
<1>3. held \in Reservations /\ held.state = "active" /\ held.receipt = NoReceipt
  BY AmountFacts DEF Reservations, Amounts
<1> HIDE DEF ready, held
<1>4. row \in RunRows
  BY <1>0, <1>1 DEF RunRows
<1>5. /\ row.completed = runs[x].completed /\ row.active = runs[x].active \cup ready
      /\ row.worker = w /\ row.status = "running"
  BY <1>0, <1>2 DEF RunRows
<1> HIDE DEF row
<1>6. /\ runs'[x] = row
      /\ reservations'[x] = [o \in Roles |-> IF o \in ready THEN held ELSE reservations[x][o]]
      /\ dispatcher'[x] = [o \in Roles |-> IF o \in ready THEN w ELSE dispatcher[x][o]]
  BY <1>0, <1>2 DEF Typed
<1>7. Typed'
  <2>1. reservations' \in [Runs -> [Roles -> Reservations]]
    BY <1>0, <1>2, <1>3 DEF Typed
  <2>2. dispatcher' \in [Runs -> [Roles -> Workers \cup {NoWorker}]]
    BY <1>0, <1>2 DEF Typed
  <2> QED BY <1>0, <1>2, <1>4, <2>1, <2>2 DEF Typed
<1>8. OthersKept(x)
  BY <1>0, <1>2 DEF OthersKept, Typed
<1>9. TablesInv(x)'
  <2>1. ASSUME NEW o \in Roles
        PROVE  /\ o \in runs'[x].active <=> reservations'[x][o].state = "active"
               /\ o \in runs'[x].completed <=> reservations'[x][o].state = "settled"
               /\ reservations'[x][o].receipt # NoReceipt <=> o \in runs'[x].completed
    BY <1>0, <1>1, <1>3, <1>5, <1>6 DEF TablesInv
  <2> QED BY <1>0, <1>1, <1>2, <1>5, <1>6, <2>1 DEF TablesInv
<1>10. PlanInv(x)'
  <2>1. runs[x].active \subseteq Roles
    BY <1>0 DEF RunRows
  <2>2. \A o \in runs'[x].active : dispatcher'[x][o] = runs'[x].worker
    BY <1>0, <1>1, <1>2, <1>5, <1>6, <2>1 DEF PlanInv
  <2>3. \A o \in runs'[x].active \cup runs'[x].completed :
            DependsOn[o] \subseteq runs'[x].completed
    BY <1>0, <1>1, <1>5, <1>6 DEF PlanInv
  <2> QED BY <1>1, <1>5, <1>6, <2>2, <2>3 DEF PlanInv
<1>11. AccountInv(x)'
  <2>1. \A o \in runs[x].completed : reservations'[x][o].charge = reservations[x][o].charge
    <3>1. runs[x].completed \subseteq Roles
      BY <1>0 DEF RunRows
    <3> QED BY <1>1, <1>6, <3>1
  <2>2. /\ runs'[x].completed = runs[x].completed /\ reconciled'[x] = reconciled[x]
        /\ ledger'[x] = ledger[x] /\ unknownCost'[x] = unknownCost[x]
    BY <1>2, <1>5, <1>6
  <2> QED BY <1>0, <2>1, <2>2, AccountSame
<1> QED BY <1>7, <1>8, <1>9, <1>10, <1>11, OthersKeep

\* Only a queued run is cancelled, and it has no active reservation.
LEMMA CancelKeeps ==
    ASSUME OrchInv, NEW x \in Runs, Cancel(x)
    PROVE  OrchInv'
<1> DEFINE row == [runs[x] EXCEPT !.status = "cancelled"]
<1>0. Typed /\ TablesInv(x) /\ runs[x] \in RunRows
  BY DEF OrchInv, Typed
<1>1. runs[x].worker = NoWorker /\ runs[x].active = {}
  BY <1>0 DEF Cancel, TablesInv
<1>2. \A o \in Roles : reservations[x][o].state # "active"
  BY <1>0, <1>1 DEF TablesInv
<1>3. reservations' = reservations
  <2>1. [o \in Roles |-> IF reservations[x][o].state = "active"
                         THEN [reservations[x][o] EXCEPT !.state = "released"]
                         ELSE reservations[x][o]] = reservations[x]
    BY <1>0, <1>2 DEF Typed
  <2> QED BY <1>0, <2>1 DEF Cancel, Typed
<1>4. runs' = [runs EXCEPT ![x] = row] /\ UNCHANGED <<budgetRows, dispatcher>>
  BY <1>3 DEF Cancel, budgetRows
<1>5. row \in RunRows
  BY <1>0 DEF RunRows, RunStatuses
<1>6. /\ row.completed = runs[x].completed /\ row.active = runs[x].active
      /\ row.worker = NoWorker /\ row.status = "cancelled"
  BY <1>0, <1>1 DEF RunRows
<1> HIDE DEF row
<1> QED BY <1>1, <1>4, <1>5, <1>6, HandOver

-----------------------------------------------------------------------------
(* The steps that charge the ledger.                                             *)

LEMMA LeastCostFacts ==
    LeastCost \in Nat /\ \A o \in Roles : LeastCost <= Reserve[o]["cost"]
<1> DEFINE costs == {Reserve[o]["cost"] : o \in Roles}
           R == OpToRel(<, Nat)
<1>1. costs \subseteq Nat /\ costs # {}
  BY AmountFacts, RolesFinite, OrchestrationAssumption
<1>2. R = {p \in Nat \X Nat : p[1] < p[2]}
  BY DEF OpToRel
<1>3. IsWellFoundedOn(R, Nat)
  BY NatLessThanWellFounded
<1> HIDE DEF R
<1>4. \E n \in costs : \A m \in costs : n <= m
  <2> HIDE DEF costs
  <2>1. PICK n \in costs : \A m \in costs : <<m, n>> \notin R
    BY <1>1, <1>3, WFMin
  <2>2. \A m \in costs : ~(m < n)
    BY <1>1, <1>2, <2>1
  <2> QED BY <1>1, <2>2
<1>5. LeastCost \in costs /\ \A m \in costs : LeastCost <= m
  BY <1>4 DEF LeastCost, Min
<1> QED BY <1>1, <1>5

\* A charge fits the reservation and the ledger.
LEMMA ChargeFacts ==
    ASSUME Typed, NEW x \in Runs, NEW o \in Roles, NEW u \in Usages, Chargeable(x, o, u)
    PROVE  /\ Enforced(o, u) \in Amounts
           /\ \A r \in Resources : Enforced(o, u)[r] <= Reserve[o][r]
           /\ Plus(ledger[x], Enforced(o, u)) \in Amounts
           /\ ~u.known => Enforced(o, u)["cost"] = Reserve[o]["cost"]
<1> DEFINE charge == Enforced(o, u)
<1>0. ledger[x] \in Amounts /\ "cost" \in Resources
  BY OrchestrationAssumption DEF Typed
<1>1. charge \in Amounts /\ (~u.known => charge["cost"] = Reserve[o]["cost"])
  BY <1>0, AmountFacts DEF Enforced, Amounts
<1>2. Within(charge, Reserve[o])
      /\ Within(Plus(Plus(ledger[x], charge), ActiveReserved(x, {o})), Ceiling)
  BY DEF Chargeable
<1> HIDE DEF charge
<1>3. \A r \in Resources : charge[r] <= Reserve[o][r]
  BY <1>2 DEF Within
<1>4. ASSUME NEW r \in Resources PROVE ledger[x][r] + charge[r] \in 0..MaxAmount
  <2> DEFINE S == {p \in Roles \ {o} : reservations[x][p].state = "active"}
  <2>1. S \in SUBSET Roles
    OBVIOUS
  <2>2. Reserved(S)[r] \in Nat
    BY <2>1, ReservedType
  <2>3. ActiveReserved(x, {o}) = Reserved(S)
    BY DEF ActiveReserved
  <2> HIDE DEF S
  <2>4. (ledger[x][r] + charge[r]) + Reserved(S)[r] <= Ceiling[r]
    BY <1>2, <2>3 DEF Within, Plus
  <2>5. /\ ledger[x][r] \in Nat /\ charge[r] \in Nat /\ Ceiling[r] \in 0..MaxAmount
        /\ MaxAmount \in Nat
    BY <1>0, <1>1, AmountFacts
  <2> QED BY <2>2, <2>4, <2>5
<1>5. Plus(ledger[x], charge) \in Amounts
  BY <1>4 DEF Plus, Amounts
<1> QED BY <1>1, <1>3, <1>5 DEF charge

\* The unknown costs of a run stay covered.
LEMMA UnknownCostStep ==
    ASSUME Typed, NEW x \in Runs, NEW o \in Roles, NEW u \in Usages, Chargeable(x, o, u),
           Charge(x, o, u), AccountInv(x)
    PROVE  ledger'[x]["cost"] >= unknownCost'[x] * LeastCost
<1> DEFINE charge == Enforced(o, u)
<1>0. /\ charge \in Amounts /\ ledger[x] \in Amounts /\ "cost" \in Resources
      /\ (~u.known => charge["cost"] = Reserve[o]["cost"])
  BY ChargeFacts, OrchestrationAssumption DEF Typed
<1>1. ledger'[x]["cost"] = ledger[x]["cost"] + charge["cost"]
  BY <1>0 DEF Charge, Typed, Plus
<1>2. unknownCost'[x] = unknownCost[x] + (IF u.known THEN 0 ELSE 1)
  BY DEF Charge, Typed
<1> HIDE DEF charge
<1> DEFINE l == ledger[x]["cost"]
           c == charge["cost"]
           n == unknownCost[x]
<1>3. l \in Nat /\ c \in Nat /\ n \in Nat /\ LeastCost \in Nat /\ l >= n * LeastCost
  BY <1>0, AmountFacts, LeastCostFacts DEF AccountInv, Typed
<1>4. (n + 1) * LeastCost = n * LeastCost + LeastCost /\ (n + 0) * LeastCost = n * LeastCost
      /\ n * LeastCost \in Nat
  <2> HIDE DEF n
  <2> QED BY <1>3
<1>5. CASE u.known
  <2>1. unknownCost'[x] = n + 0
    BY <1>2, <1>5
  <2>2. l + c >= n * LeastCost
    <3> HIDE DEF l, c, n
    <3> QED BY <1>3, <1>4
  <2> QED BY <1>1, <1>4, <2>1, <2>2
<1>6. CASE ~u.known
  <2>1. unknownCost'[x] = n + 1
    BY <1>2, <1>6
  <2>2. LeastCost <= c
    BY <1>0, <1>6, LeastCostFacts
  <2>3. l + c >= n * LeastCost + LeastCost
    <3> HIDE DEF l, c, n
    <3> QED BY <1>3, <1>4, <2>2
  <2> QED BY <1>1, <1>4, <2>1, <2>3
<1> QED BY <1>5, <1>6

LEMMA CompleteRoleKeeps ==
    ASSUME OrchInv, NEW x \in Runs, NEW w \in Workers, NEW o \in Roles, NEW c \in Receipts,
           NEW u \in Usages, CompleteRole(x, w, o, c, u)
    PROVE  OrchInv'
<1> DEFINE charge == Enforced(o, u)
           status == IF runs[x].completed \cup {o} = Roles THEN "completed" ELSE runs[x].status
           row == [runs[x] EXCEPT !.active = @ \ {o}, !.completed = @ \cup {o},
                                  !.status = status]
           settled == [state |-> "settled", receipt |-> c, charge |-> charge]
<1>0. Typed /\ TablesInv(x) /\ PlanInv(x) /\ AccountInv(x) /\ runs[x] \in RunRows
  BY DEF OrchInv, Typed
<1>1. /\ runs[x].status = "running" /\ runs[x].worker = w /\ o \in runs[x].active
      /\ Chargeable(x, o, u) /\ Charge(x, o, u)
      /\ UNCHANGED <<reconciled, dispatcher>>
  BY DEF CompleteRole, Owns
<1>2. o \notin runs[x].completed /\ reservations[x][o].state = "active"
  BY <1>0, <1>1 DEF TablesInv
<1>3. /\ runs' = [runs EXCEPT ![x] = row]
      /\ reservations' = [reservations EXCEPT ![x] = [reservations[x] EXCEPT ![o] = settled]]
      /\ ledger' = [ledger EXCEPT ![x] = Plus(ledger[x], charge)]
      /\ unknownCost' = [unknownCost EXCEPT ![x] = @ + (IF u.known THEN 0 ELSE 1)]
  BY DEF CompleteRole, Charge
<1>4. charge \in Amounts /\ Plus(ledger[x], charge) \in Amounts
  BY <1>0, <1>1, ChargeFacts
<1>5. status \in {"running", "completed"}
      /\ (status = "completed" => runs[x].completed \cup {o} = Roles)
  BY <1>1
<1> HIDE DEF charge, status
<1>6. settled \in Reservations /\ settled.state = "settled" /\ settled.receipt = c
      /\ settled.charge = charge /\ c # NoReceipt
  BY <1>4, OrchestrationAssumption DEF Reservations, Amounts
<1>7. row \in RunRows
  BY <1>0, <1>5 DEF RunRows, RunStatuses
<1>8. /\ row.completed = runs[x].completed \cup {o} /\ row.active = runs[x].active \ {o}
      /\ row.worker = w /\ row.status = status
  BY <1>0, <1>1 DEF RunRows
<1> HIDE DEF row, settled
<1>9. /\ runs'[x] = row /\ ledger'[x] = Plus(ledger[x], charge)
      /\ reservations'[x] = [reservations[x] EXCEPT ![o] = settled]
      /\ reservations'[x][o] = settled
      /\ \A p \in Roles \ {o} : reservations'[x][p] = reservations[x][p]
      /\ reconciled'[x] = reconciled[x] /\ dispatcher' = dispatcher
  BY <1>0, <1>1, <1>3 DEF Typed
<1>10. Typed'
  <2>1. reservations' \in [Runs -> [Roles -> Reservations]]
    BY <1>0, <1>3, <1>6 DEF Typed
  <2>2. unknownCost' \in [Runs -> Nat]
    BY <1>0, <1>3 DEF Typed
  <2> QED BY <1>0, <1>1, <1>3, <1>4, <1>7, <2>1, <2>2 DEF Typed
<1>11. OthersKept(x)
  BY <1>0, <1>1, <1>3 DEF OthersKept, Typed
<1>12. TablesInv(x)'
  <2>1. ASSUME NEW p \in Roles
        PROVE  /\ p \in runs'[x].active <=> reservations'[x][p].state = "active"
               /\ p \in runs'[x].completed <=> reservations'[x][p].state = "settled"
               /\ reservations'[x][p].receipt # NoReceipt <=> p \in runs'[x].completed
    <3>1. CASE p = o
      BY <1>6, <1>8, <1>9, <3>1
    <3>2. CASE p # o
      BY <1>0, <1>8, <1>9, <3>2 DEF TablesInv
    <3> QED BY <3>1, <3>2
  <2>2. w # NoWorker
    BY OrchestrationAssumption
  <2> QED BY <1>0, <1>5, <1>8, <1>9, <2>1, <2>2 DEF TablesInv
<1>13. PlanInv(x)'
  <2>1. IsFiniteSet(runs[x].active) /\ MaxParallelism \in Nat
    BY <1>0, RolesFinite, FS_Subset, OrchestrationAssumption DEF RunRows
  <2>2. Cardinality(runs[x].active \ {o}) <= Cardinality(runs[x].active)
    BY <2>1, FS_Subset
  <2>3. Cardinality(runs[x].active \ {o}) \in Nat /\ Cardinality(runs[x].active) \in Nat
    BY <2>1, FS_Subset, FS_CardinalityType
  <2>4. Cardinality(runs'[x].active) <= MaxParallelism
    <3>1. runs'[x].active = runs[x].active \ {o}
      BY <1>8, <1>9
    <3>2. Cardinality(runs[x].active) <= MaxParallelism
      BY <1>0 DEF PlanInv
    <3> DEFINE a == Cardinality(runs[x].active)
               b == Cardinality(runs[x].active \ {o})
    <3>3. b <= a /\ a <= MaxParallelism /\ a \in Nat /\ b \in Nat /\ MaxParallelism \in Nat
      BY <2>1, <2>2, <2>3, <3>2
    <3>4. b <= MaxParallelism
      <4> HIDE DEF a, b
      <4> QED BY <3>3
    <3> QED BY <3>1, <3>4
  <2> QED BY <1>0, <1>1, <1>8, <1>9, <2>4 DEF PlanInv
<1>14. AccountInv(x)'
  <2>1. ASSUME NEW r \in Resources
        PROVE  ledger'[x][r] = Audit(x, r)'
    <3> DEFINE f == [p \in Roles |-> reservations[x][p].charge[r]]
               g == [p \in Roles |-> reservations'[x][p].charge[r]]
               done == runs[x].completed
               rest == SumFunction([p \in Roles |-> Reconciled(x, p, r)])
    <3>1. /\ IsFiniteSet(done) /\ done \subseteq Roles /\ \A p \in Roles : f[p] \in Nat
          /\ Settled(x, r) \in Nat /\ rest \in Nat
      BY <1>0, AuditType
    <3>2. \A p \in done : g[p] = f[p]
      BY <1>2, <1>9, <3>1
    <3>3. g[o] = charge[r] /\ charge[r] \in Nat /\ ledger[x][r] \in Nat
      BY <1>0, <1>4, <1>6, <1>9, AmountFacts DEF Typed
    <3>4. Settled(x, r) = SumFunctionOnSet(f, done)
          /\ Settled(x, r)' = SumFunctionOnSet(g, done \cup {o})
      BY <1>8, <1>9 DEF Settled
    <3>5. rest' = rest
      BY <1>9, ReconciledSame
    <3> HIDE DEF f, g, done
    <3>6. o \notin done
      BY <1>2 DEF done
    <3>7. SumFunctionOnSet(g, done) = SumFunctionOnSet(f, done)
      BY <3>1, <3>2, SumSame
    <3>8. SumFunctionOnSet(g, done \cup {o}) = g[o] + SumFunctionOnSet(g, done)
      <4>1. \A p \in done \cup {o} : g[p] \in Nat
        BY <3>1, <3>2, <3>3
      <4> QED BY <3>1, <3>6, <4>1, SumMore
    <3>9. Settled(x, r)' = charge[r] + Settled(x, r)
      BY <3>3, <3>4, <3>7, <3>8
    <3>10. ledger[x][r] = Settled(x, r) + rest
      BY <1>0 DEF AccountInv, Audit
    <3>11. ledger'[x][r] = ledger[x][r] + charge[r]
      BY <1>9 DEF Plus
    <3>12. Audit(x, r)' = Settled(x, r)' + rest'
      BY DEF Audit
    <3> HIDE DEF rest
    <3> QED BY <3>1, <3>3, <3>5, <3>9, <3>10, <3>11, <3>12
  <2>2. ledger'[x]["cost"] >= unknownCost'[x] * LeastCost
    BY <1>0, <1>1, UnknownCostStep
  <2>3. LeastCost' = LeastCost
    BY DEF LeastCost, Roles
  <2> HIDE DEF LeastCost, Audit
  <2> QED BY <2>1, <2>2, <2>3 DEF AccountInv
<1> QED BY <1>10, <1>11, <1>12, <1>13, <1>14, OthersKeep

LEMMA ReconcileKeeps ==
    ASSUME OrchInv, NEW x \in Runs, NEW o \in Roles, NEW d \in Digests,
           NEW u \in Usages, ReconcileInterruptedRole(x, o, d, u)
    PROVE  OrchInv'
<1> DEFINE charge == Enforced(o, u)
           row == [runs[x] EXCEPT !.active = @ \ {o}]
           released == [reservations[x][o] EXCEPT !.state = "released", !.charge = charge]
           old == reconciled[x][o]
           new == [e \in DOMAIN old \cup {d} |-> IF e = d THEN charge ELSE old[e]]
<1>0. Typed /\ TablesInv(x) /\ PlanInv(x) /\ AccountInv(x) /\ runs[x] \in RunRows
      /\ reservations[x][o] \in Reservations
  BY DEF OrchInv, Typed
<1>1. /\ runs[x].status = "interrupted" /\ o \in runs[x].active /\ d \notin DOMAIN old
      /\ Chargeable(x, o, u) /\ Charge(x, o, u) /\ UNCHANGED dispatcher
  BY DEF ReconcileInterruptedRole
<1>2. o \notin runs[x].completed /\ reservations[x][o].state = "active"
      /\ reservations[x][o].receipt = NoReceipt
  BY <1>0, <1>1 DEF TablesInv
<1>3. /\ runs' = [runs EXCEPT ![x] = row]
      /\ reservations' = [reservations EXCEPT ![x] = [reservations[x] EXCEPT ![o] = released]]
      /\ reconciled' = [reconciled EXCEPT ![x] = [reconciled[x] EXCEPT ![o] = new]]
      /\ ledger' = [ledger EXCEPT ![x] = Plus(ledger[x], charge)]
      /\ unknownCost' = [unknownCost EXCEPT ![x] = @ + (IF u.known THEN 0 ELSE 1)]
  BY <1>0 DEF ReconcileInterruptedRole, Charge, Typed
<1>4. charge \in Amounts /\ Plus(ledger[x], charge) \in Amounts
  BY <1>0, <1>1, ChargeFacts
<1>5. IsFiniteSet(DOMAIN old) /\ \A e \in DOMAIN old : old[e] \in Amounts
  <2>1. PICK r \in Resources : TRUE
    BY OrchestrationAssumption
  <2> QED BY <1>0, <2>1, AuditType
<1> HIDE DEF charge
<1>6. released \in Reservations /\ released.state = "released"
      /\ released.receipt = NoReceipt
  BY <1>0, <1>2, <1>4 DEF Reservations, Amounts
<1>7. new \in Audits
  <2> DEFINE D == DOMAIN old \cup {d}
  <2>1. new \in [D -> Amounts]
    BY <1>4, <1>5
  <2>2. DOMAIN old \subseteq Digests
    <3>1. old \in Audits
      BY <1>0 DEF Typed
    <3> QED BY <3>1 DEF Audits
  <2>3. D \in SUBSET Digests /\ IsFiniteSet(D)
    BY <1>5, <2>2, FS_AddElement
  <2> HIDE DEF D, new
  <2> QED BY <2>1, <2>3 DEF Audits
<1>8. row \in RunRows
  BY <1>0 DEF RunRows
<1>9. /\ row.completed = runs[x].completed /\ row.active = runs[x].active \ {o}
      /\ row.worker = runs[x].worker /\ row.status = "interrupted"
  BY <1>0, <1>1 DEF RunRows
<1> HIDE DEF row, released
<1>10. /\ runs'[x] = row /\ ledger'[x] = Plus(ledger[x], charge)
       /\ reservations'[x][o] = released
       /\ \A p \in Roles \ {o} : reservations'[x][p] = reservations[x][p]
       /\ dispatcher' = dispatcher
  BY <1>0, <1>1, <1>3 DEF Typed
<1>11. /\ reconciled'[x][o] = new
       /\ \A p \in Roles \ {o} : reconciled'[x][p] = reconciled[x][p]
  <2> HIDE DEF new
  <2> QED BY <1>0, <1>3 DEF Typed
<1>12. Typed'
  <2> HIDE DEF new
  <2>1. reservations' \in [Runs -> [Roles -> Reservations]]
    BY <1>0, <1>3, <1>6 DEF Typed
  <2>2. unknownCost' \in [Runs -> Nat]
    BY <1>0, <1>3 DEF Typed
  <2>3. reconciled' \in [Runs -> [Roles -> Audits]]
    BY <1>0, <1>3, <1>7 DEF Typed
  <2> QED BY <1>0, <1>1, <1>3, <1>4, <1>8, <2>1, <2>2, <2>3 DEF Typed
<1>13. OthersKept(x)
  <2> HIDE DEF new
  <2> QED BY <1>0, <1>1, <1>3 DEF OthersKept, Typed
<1>14. TablesInv(x)'
  <2>1. ASSUME NEW p \in Roles
        PROVE  /\ p \in runs'[x].active <=> reservations'[x][p].state = "active"
               /\ p \in runs'[x].completed <=> reservations'[x][p].state = "settled"
               /\ reservations'[x][p].receipt # NoReceipt <=> p \in runs'[x].completed
    <3>1. CASE p = o
      BY <1>2, <1>6, <1>9, <1>10, <3>1
    <3>2. CASE p # o
      BY <1>0, <1>9, <1>10, <3>2 DEF TablesInv
    <3> QED BY <3>1, <3>2
  <2> QED BY <1>0, <1>1, <1>9, <1>10, <2>1 DEF TablesInv
<1>15. PlanInv(x)'
  <2>1. IsFiniteSet(runs[x].active) /\ MaxParallelism \in Nat
    BY <1>0, RolesFinite, FS_Subset, OrchestrationAssumption DEF RunRows
  <2>2. Cardinality(runs[x].active \ {o}) <= Cardinality(runs[x].active)
    BY <2>1, FS_Subset
  <2>3. Cardinality(runs[x].active \ {o}) \in Nat /\ Cardinality(runs[x].active) \in Nat
    BY <2>1, FS_Subset, FS_CardinalityType
  <2>4. Cardinality(runs'[x].active) <= MaxParallelism
    <3>1. runs'[x].active = runs[x].active \ {o}
      BY <1>9, <1>10
    <3>2. Cardinality(runs[x].active) <= MaxParallelism
      BY <1>0 DEF PlanInv
    <3> DEFINE a == Cardinality(runs[x].active)
               b == Cardinality(runs[x].active \ {o})
    <3>3. b <= a /\ a <= MaxParallelism /\ a \in Nat /\ b \in Nat /\ MaxParallelism \in Nat
      BY <2>1, <2>2, <2>3, <3>2
    <3>4. b <= MaxParallelism
      <4> HIDE DEF a, b
      <4> QED BY <3>3
    <3> QED BY <3>1, <3>4
  <2> QED BY <1>0, <1>9, <1>10, <2>4 DEF PlanInv
<1>16. AccountInv(x)'
  <2>1. ASSUME NEW r \in Resources
        PROVE  ledger'[x][r] = Audit(x, r)'
    <3> DEFINE f == [e \in DOMAIN old |-> old[e][r]]
               g == [e \in DOMAIN new |-> new[e][r]]
               F == [p \in Roles |-> Reconciled(x, p, r)]
               G == [p \in Roles |-> Reconciled(x, p, r)']
    <3>1. /\ Settled(x, r) \in Nat /\ \A p \in Roles : F[p] \in Nat
          /\ \A e \in DOMAIN old : f[e] \in Nat
      BY <1>0, AuditType
    <3>2. charge[r] \in Nat /\ ledger[x][r] \in Nat
      BY <1>0, <1>4, AmountFacts DEF Typed
    <3>3. DOMAIN new = DOMAIN old \cup {d} /\ g[d] = charge[r]
          /\ \A e \in DOMAIN old : g[e] = f[e]
      BY <1>1
    <3>4. F[o] = SumFunctionOnSet(f, DOMAIN old)
      BY DEF Reconciled, SumFunction
    <3>5. G[o] = SumFunctionOnSet(g, DOMAIN old \cup {d})
      <4>1. G[o] = SumFunctionOnSet(g, DOMAIN g)
        BY <1>11 DEF Reconciled, SumFunction
      <4>2. DOMAIN g = DOMAIN old \cup {d}
        BY <3>3
      <4> QED BY <4>1, <4>2
    <3>6. \A p \in Roles \ {o} : G[p] = F[p]
      BY <1>11 DEF Reconciled
    <3>7. SumFunction(F)' = SumFunctionOnSet(G, Roles)
          /\ SumFunction(F) = SumFunctionOnSet(F, Roles)
      BY DEF SumFunction
    <3> HIDE DEF f, g, old, new
    <3>8. SumFunctionOnSet(g, DOMAIN old) = SumFunctionOnSet(f, DOMAIN old)
      BY <1>5, <3>1, <3>3, SumSame
    <3>9. SumFunctionOnSet(g, DOMAIN old \cup {d}) = g[d] + SumFunctionOnSet(g, DOMAIN old)
      <4>1. \A e \in DOMAIN old \cup {d} : g[e] \in Nat
        BY <3>1, <3>2, <3>3
      <4> QED BY <1>1, <1>5, <4>1, SumMore
    <3>10. G[o] = F[o] + charge[r]
      <4>1. F[o] \in Nat
        BY <3>1
      <4>2. G[o] = charge[r] + F[o]
        BY <3>3, <3>4, <3>5, <3>8, <3>9
      <4> HIDE DEF F, G
      <4> QED BY <3>2, <4>1, <4>2
    <3>11. Audit(x, r) = Settled(x, r) + SumFunction(F)
           /\ Audit(x, r)' = Settled(x, r)' + SumFunction(F)'
      BY DEF Audit
    <3> HIDE DEF F, G
    <3>12. SumFunctionOnSet(G, Roles) = SumFunctionOnSet(F, Roles) + charge[r]
           /\ SumFunctionOnSet(F, Roles) \in Nat
      BY <3>1, <3>2, <3>6, <3>10, RolesFinite, SumGrows, SumType
    <3>13. Settled(x, r)' = Settled(x, r)
      <4>1. \A p \in runs[x].completed :
                reservations'[x][p].charge = reservations[x][p].charge
        <5>1. runs[x].completed \subseteq Roles
          BY <1>0 DEF RunRows
        <5> QED BY <1>2, <1>10, <5>1
      <4>2. runs'[x].completed = runs[x].completed
        BY <1>9, <1>10
      <4> QED BY <1>0, <4>1, <4>2, SettledSame
    <3>14. ledger[x][r] = Audit(x, r)
      BY <1>0 DEF AccountInv
    <3>15. ledger'[x][r] = ledger[x][r] + charge[r]
      BY <1>10 DEF Plus
    <3> QED BY <3>1, <3>2, <3>7, <3>11, <3>12, <3>13, <3>14, <3>15
  <2>2. ledger'[x]["cost"] >= unknownCost'[x] * LeastCost
    BY <1>0, <1>1, UnknownCostStep
  <2>3. LeastCost' = LeastCost
    BY DEF LeastCost, Roles
  <2> HIDE DEF LeastCost, Audit
  <2> QED BY <2>1, <2>2, <2>3 DEF AccountInv
<1> QED BY <1>12, <1>13, <1>14, <1>15, <1>16, OthersKeep

-----------------------------------------------------------------------------
(* The theorems.                                                                 *)

LEMMA OrchInitially ==
    ASSUME Init
    PROVE  OrchInv
<1> DEFINE none == [d \in {} |-> Nothing]
           row == [status |-> "absent", worker |-> NoWorker, sequence |-> 0,
                   completed |-> {}, active |-> {}]
           reservation == [state |-> "none", receipt |-> NoReceipt, charge |-> Nothing]
<1>0. /\ runs = [x \in Runs |-> row]
      /\ ledger = [x \in Runs |-> Nothing]
      /\ unknownCost = [x \in Runs |-> 0]
      /\ reservations = [x \in Runs |-> [o \in Roles |-> reservation]]
      /\ reconciled = [x \in Runs |-> [o \in Roles |-> none]]
      /\ dispatcher = [x \in Runs |-> [o \in Roles |-> NoWorker]]
  BY DEF Init
<1>1. none \in Audits /\ DOMAIN none = {}
  <2>1. none \in [{} -> Amounts] /\ {} \in {E \in SUBSET Digests : IsFiniteSet(E)}
    BY FS_EmptySet
  <2> HIDE DEF none
  <2>2. none \in Audits
    BY <2>1 DEF Audits
  <2>3. DOMAIN none = {}
    BY <2>1
  <2> QED BY <2>2, <2>3
<1>2. row \in RunRows /\ reservation \in Reservations
  BY AmountFacts DEF RunRows, RunStatuses, Reservations, Amounts
<1>3. Typed
  <2> HIDE DEF none, row, reservation
  <2> QED BY <1>0, <1>1, <1>2, AmountFacts DEF Typed
<1>4. ASSUME NEW x \in Runs PROVE TablesInv(x) /\ PlanInv(x)
  <2>1. Cardinality({}) <= MaxParallelism
    BY FS_EmptySet, OrchestrationAssumption
  <2> QED BY <1>0, <2>1 DEF TablesInv, PlanInv
<1>5. ASSUME NEW x \in Runs PROVE AccountInv(x)
  <2>1. ASSUME NEW r \in Resources PROVE ledger[x][r] = Audit(x, r)
    <3>1. runs[x].completed = {} /\ ledger[x][r] = 0
      BY <1>0 DEF Nothing
    <3>2. Settled(x, r) = 0
      BY <3>1, SumEmpty DEF Settled
    <3> DEFINE F == [o \in Roles |-> Reconciled(x, o, r)]
               Z == [o \in Roles |-> 0]
    <3>3. ASSUME NEW o \in Roles PROVE F[o] = 0
      <4>1. DOMAIN reconciled[x][o] = {}
        <5> HIDE DEF none
        <5> QED BY <1>0, <1>1
      <4> DEFINE f == [d \in DOMAIN reconciled[x][o] |-> reconciled[x][o][d][r]]
      <4>2. F[o] = SumFunctionOnSet(f, DOMAIN f) /\ DOMAIN f = {}
        BY <4>1 DEF Reconciled, SumFunction
      <4> HIDE DEF f
      <4> QED BY <4>2, SumEmpty
    <3>4. SumFunction(F) = SumFunctionOnSet(F, Roles)
      BY DEF SumFunction
    <3>5. Audit(x, r) = Settled(x, r) + SumFunction(F)
      BY DEF Audit
    <3> HIDE DEF F
    <3>6. Grains(F, Roles) = {}
      BY <3>3 DEF Grains
    <3>7. SumFunctionOnSet(F, Roles) = 0
      <4>1. \A o \in Roles : F[o] \in Nat
        BY <3>3
      <4>2. SumFunctionOnSet(F, Roles) = Cardinality(Grains(F, Roles))
        BY <4>1, RolesFinite, SumCounts
      <4> QED BY <3>6, <4>2, FS_EmptySet
    <3> QED BY <3>1, <3>2, <3>4, <3>5, <3>7
  <2>2. ledger[x]["cost"] = 0 /\ unknownCost[x] = 0
    BY <1>0, OrchestrationAssumption DEF Nothing
  <2>3. 0 * LeastCost = 0
    BY LeastCostFacts
  <2> QED BY <2>1, <2>2, <2>3 DEF AccountInv
<1> QED BY <1>3, <1>4, <1>5 DEF OrchInv

\* The inductive invariant.
THEOREM OrchestrationInvariant == Spec => []OrchInv
<1>1. Init => OrchInv
  BY OrchInitially
<1>2. OrchInv /\ [Next]_orchVars => OrchInv'
  <2>1. ASSUME OrchInv, Next PROVE OrchInv'
    BY <2>1, HandOverSteps, StartReadyKeeps, CancelKeeps, CompleteRoleKeeps, ReconcileKeeps
       DEF Next
  <2>2. ASSUME OrchInv, UNCHANGED orchVars PROVE OrchInv'
    <3>1. Typed'
      BY <2>2 DEF OrchInv, Typed, orchVars
    <3>2. ASSUME NEW x \in Runs PROVE TablesInv(x)' /\ PlanInv(x)' /\ AccountInv(x)'
      <4>1. TablesInv(x)' /\ PlanInv(x)'
        BY <2>2 DEF OrchInv, TablesInv, PlanInv, orchVars
      <4>2. AccountInv(x)'
        BY <2>2, AccountSame DEF OrchInv, orchVars
      <4> QED BY <4>1, <4>2
    <3> QED BY <3>1, <3>2 DEF OrchInv
  <2> QED BY <2>1, <2>2
<1> QED BY <1>1, <1>2, PTL DEF Spec

\* The run's snapshot and its reservations agree after every transaction.
THEOREM TablesMatch == Spec => []ReservationsMatchRoles
<1>1. OrchInv => ReservationsMatchRoles
  BY DEF OrchInv, Typed, TablesInv, ReservationsMatchRoles, TypeOK, Amounts
<1> QED BY <1>1, OrchestrationInvariant, PTL

\* Every charge is in the ledger once, and unknown costs are charged in full.
THEOREM AccountsBalance == Spec => []AccountsKept
<1>1. OrchInv => AccountsKept
  BY DEF OrchInv, AccountInv, Audit, LeastCost, AccountsKept, LedgerMatchesAudit,
         UnknownCostCharged
<1> QED BY <1>1, OrchestrationInvariant, PTL

\* Roles in progress are in the hands of the run's worker and within the plan.
THEOREM PlansAreKept == Spec => []RolesKept
<1>1. OrchInv => RolesKept
  BY DEF OrchInv, PlanInv, RolesKept, ActiveRolesAreTheWorkers, PlanKept
<1> QED BY <1>1, OrchestrationInvariant, PTL

-----------------------------------------------------------------------------
(* The refinement: what a run holds is what its active roles reserved.           *)

Active(x) == {o \in Roles \ {} : reservations[x][o].state = "active"}
Held == [x \in Runs |-> ActiveReserved(x, {})]

LEMMA HeldFacts ==
    /\ Held \in [Runs -> [Resources -> Nat]]
    /\ \A x \in Runs : Held[x] = Reserved(Active(x))
<1>1. ASSUME NEW x \in Runs PROVE Held[x] = Reserved(Active(x))
  BY DEF Held, ActiveReserved, Active
<1>2. ASSUME NEW x \in Runs PROVE Reserved(Active(x)) \in [Resources -> Nat]
  <2>1. Active(x) \in SUBSET Roles
    BY DEF Active
  <2>2. \A r \in Resources : Reserved(Active(x))[r] \in Nat
    BY <2>1, ReservedType
  <2>3. Reserved(Active(x)) = [r \in Resources |-> Reserved(Active(x))[r]]
    BY DEF Reserved
  <2> QED BY <2>2, <2>3
<1>3. Held = [x \in Runs |-> Held[x]]
  BY DEF Held
<1> QED BY <1>1, <1>2, <1>3

LEMMA HeldFactsPrimed ==
    /\ Held' \in [Runs -> [Resources -> Nat]]
    /\ \A x \in Runs : Held'[x] = Reserved(Active(x)')
<1>1. ASSUME NEW x \in Runs PROVE Held'[x] = Reserved(Active(x)')
  BY DEF Held, ActiveReserved, Active, Reserved, Roles
<1>2. ASSUME NEW x \in Runs PROVE Reserved(Active(x)') \in [Resources -> Nat]
  <2>1. Active(x)' \in SUBSET Roles
    BY DEF Active, Roles
  <2>2. \A r \in Resources : Reserved(Active(x)')[r] \in Nat
    BY <2>1, ReservedType
  <2>3. Reserved(Active(x)') = [r \in Resources |-> Reserved(Active(x)')[r]]
    BY DEF Reserved
  <2> QED BY <2>2, <2>3
<1>3. Held' = [x \in Runs |-> Held'[x]]
  BY DEF Held
<1> QED BY <1>1, <1>2, <1>3

\* Where no reservation changes, nothing held changes.
LEMMA HeldSame ==
    ASSUME NEW x \in Runs, reservations'[x] = reservations[x]
    PROVE  Held'[x] = Held[x]
<1>1. Active(x)' = Active(x)
  BY DEF Active, Roles
<1> QED BY <1>1, HeldFacts, HeldFactsPrimed

LEMMA LedgerIsAmounts ==
    ASSUME Typed
    PROVE  ledger \in [Runs -> [Resources -> Nat]]
BY AmountFacts DEF Typed, Amounts

\* start_ready holds what it reserves, within the ceiling.
LEMMA StartReadyHolds ==
    ASSUME OrchInv, NEW x \in Runs, NEW w \in Workers, StartReady(x, w)
    PROVE  /\ \A r \in Resources : Held[x][r] <= Held'[x][r]
           /\ \A r \in Resources : ledger[x][r] + Held'[x][r] <= Ceiling[r]
           /\ \A y \in Runs \ {x} : Held'[y] = Held[y]
<1> DEFINE ready == ReadyRoles(x)
<1>0. Typed /\ runs[x] \in RunRows /\ PlanInv(x)
  BY DEF OrchInv, Typed
<1>1. ready \subseteq Roles
  BY <1>0, ReadyRolesFacts DEF PlanInv
<1>2. /\ reservations' = [reservations EXCEPT ![x] =
           [o \in Roles |-> IF o \in ready
                            THEN [state |-> "active", receipt |-> NoReceipt, charge |-> Nothing]
                            ELSE reservations[x][o]]]
      /\ \A o \in ready : reservations[x][o].state \in {"none", "released"}
      /\ Within(Plus(Plus(ledger[x], ActiveReserved(x, {})), Reserved(ready)), Ceiling)
  BY DEF StartReady, CanReserve
<1> HIDE DEF ready
<1>3. reservations'[x] = [o \in Roles |-> IF o \in ready
                            THEN [state |-> "active", receipt |-> NoReceipt, charge |-> Nothing]
                            ELSE reservations[x][o]]
      /\ \A y \in Runs \ {x} : reservations'[y] = reservations[y]
  BY <1>0, <1>2 DEF Typed
<1>4. Active(x)' = Active(x) \cup ready /\ Active(x) \cap ready = {}
  BY <1>1, <1>2, <1>3 DEF Active, Roles
<1>5. Active(x) \in SUBSET Roles /\ ready \in SUBSET Roles
  BY <1>1 DEF Active
<1>6. ASSUME NEW r \in Resources
      PROVE  Held[x][r] <= Held'[x][r] /\ ledger[x][r] + Held'[x][r] <= Ceiling[r]
  <2>1. Reserved(Active(x) \cup ready)[r] = Reserved(Active(x))[r] + Reserved(ready)[r]
    BY <1>4, <1>5, ReservedUnion
  <2>2. Reserved(Active(x))[r] \in Nat /\ Reserved(ready)[r] \in Nat
    BY <1>5, ReservedType
  <2>3. Held[x][r] = Reserved(Active(x))[r] /\ Held'[x][r] = Reserved(Active(x) \cup ready)[r]
    BY <1>4, HeldFacts, HeldFactsPrimed
  <2>4. (ledger[x][r] + Held[x][r]) + Reserved(ready)[r] <= Ceiling[r]
    BY <1>2 DEF Within, Plus, Held
  <2>5. ledger[x][r] \in Nat /\ Ceiling[r] \in Nat
    BY <1>0, LedgerIsAmounts, AmountFacts
  <2> QED BY <2>1, <2>2, <2>3, <2>4, <2>5
<1>7. \A y \in Runs \ {x} : Held'[y] = Held[y]
  BY <1>3, HeldSame
<1> QED BY <1>6, <1>7

\* A completion or reconciliation spends no more than the role held.
LEMMA ChargeSpends ==
    ASSUME OrchInv, NEW x \in Runs, NEW o \in Roles, NEW u \in Usages,
           Chargeable(x, o, u), Charge(x, o, u),
           reservations'[x][o].state \in {"settled", "released"},
           \A p \in Roles \ {o} : reservations'[x][p] = reservations[x][p],
           \A y \in Runs \ {x} : reservations'[y] = reservations[y]
    PROVE  /\ \A r \in Resources :
                /\ ledger[x][r] <= ledger'[x][r]
                /\ Held'[x][r] <= Held[x][r]
                /\ ledger'[x][r] + Held'[x][r] <= ledger[x][r] + Held[x][r]
           /\ \A y \in Runs \ {x} : ledger'[y] = ledger[y] /\ Held'[y] = Held[y]
<1>0. Typed
  BY DEF OrchInv
<1>2. reservations[x][o].state = "active"
  BY DEF Chargeable
<1>3. Active(x) = Active(x)' \cup {o} /\ Active(x)' \cap {o} = {}
  BY <1>2 DEF Active, Roles
<1>4. Active(x)' \in SUBSET Roles /\ {o} \in SUBSET Roles
  BY DEF Active, Roles
<1>5. ledger'[x] = Plus(ledger[x], Enforced(o, u))
      /\ \A y \in Runs \ {x} : ledger'[y] = ledger[y]
  BY <1>0 DEF Charge, Typed
<1>6. ASSUME NEW r \in Resources
      PROVE  /\ ledger[x][r] <= ledger'[x][r]
             /\ Held'[x][r] <= Held[x][r]
             /\ ledger'[x][r] + Held'[x][r] <= ledger[x][r] + Held[x][r]
  <2>1. Reserved(Active(x)' \cup {o})[r] = Reserved(Active(x)')[r] + Reserved({o})[r]
    BY <1>3, <1>4, ReservedUnion
  <2>2. Reserved(Active(x)')[r] \in Nat /\ Reserved({o})[r] = Reserve[o][r]
    BY <1>4, ReservedType, ReservedOne
  <2>3. Held[x][r] = Reserved(Active(x)' \cup {o})[r] /\ Held'[x][r] = Reserved(Active(x)')[r]
    BY <1>3, HeldFacts, HeldFactsPrimed
  <2>4. /\ Enforced(o, u)[r] <= Reserve[o][r] /\ Enforced(o, u)[r] \in Nat
        /\ Reserve[o][r] \in Nat /\ ledger[x][r] \in Nat
    BY <1>0, ChargeFacts, AmountFacts, LedgerIsAmounts
  <2>5. ledger'[x][r] = ledger[x][r] + Enforced(o, u)[r]
    BY <1>5 DEF Plus
  <2> QED BY <2>1, <2>2, <2>3, <2>4, <2>5
<1>7. \A y \in Runs \ {x} : Held'[y] = Held[y]
  BY HeldSame
<1> QED BY <1>5, <1>6, <1>7

LEMMA HoldStep ==
    ASSUME OrchInv, Typed', NEW x \in Runs, ledger' = ledger,
           \A r \in Resources : Held[x][r] <= Held'[x][r],
           \A r \in Resources : ledger[x][r] + Held'[x][r] <= Ceiling[r],
           \A y \in Runs \ {x} : Held'[y] = Held[y]
    PROVE  Ledger!Hold(x)
<1>1. Held = [y \in Runs |-> ActiveReserved(y, {})]
      /\ Held' = [y \in Runs |-> ActiveReserved(y, {})]'
  BY DEF Held
<1>2. ledger' \in [Runs -> [Resources -> Nat]]
  BY LedgerIsAmounts DEF OrchInv
<1>3. Held' \in [Runs -> [Resources -> Nat]]
  BY HeldFactsPrimed
<1> HIDE DEF Held
<1> QED BY <1>1, <1>2, <1>3
     DEF Ledger!Hold, Ledger!Only, Ledger!Ledgers, Ledger!Amounts, Ledger!Within, Ledger!Plus

LEMMA SpendStep ==
    ASSUME OrchInv, Typed', NEW x \in Runs,
           \A r \in Resources :
                /\ ledger[x][r] <= ledger'[x][r]
                /\ Held'[x][r] <= Held[x][r]
                /\ ledger'[x][r] + Held'[x][r] <= ledger[x][r] + Held[x][r],
           \A y \in Runs \ {x} : ledger'[y] = ledger[y] /\ Held'[y] = Held[y]
    PROVE  Ledger!Spend(x)
<1>1. Held = [y \in Runs |-> ActiveReserved(y, {})]
      /\ Held' = [y \in Runs |-> ActiveReserved(y, {})]'
  BY DEF Held
<1>2. ledger' \in [Runs -> [Resources -> Nat]]
  BY AmountFacts DEF Typed, Amounts
<1>3. Held' \in [Runs -> [Resources -> Nat]]
  BY HeldFactsPrimed
<1> HIDE DEF Held
<1> QED BY <1>1, <1>2, <1>3
     DEF Ledger!Spend, Ledger!Only, Ledger!Ledgers, Ledger!Amounts, Ledger!Within, Ledger!Plus

LEMMA StutterStep ==
    ASSUME ledger' = ledger, \A x \in Runs : Held'[x] = Held[x]
    PROVE  UNCHANGED Ledger!budgetVars
<1>1. Held = [y \in Runs |-> ActiveReserved(y, {})]
      /\ Held' = [y \in Runs |-> ActiveReserved(y, {})]'
  BY DEF Held
<1>2. Held' = Held
  <2>1. Held = [y \in Runs |-> Held[y]] /\ Held' = [y \in Runs |-> Held'[y]]
    BY DEF Held
  <2> QED BY <2>1
<1> HIDE DEF Held
<1> QED BY <1>1, <1>2 DEF Ledger!budgetVars

\* The store implements the abstract budget: every transaction is a hold, a spend
\* or no step of it.
THEOREM StoreImplementsBudget == Spec => ImplementsBudget
<1>1. Init => Ledger!BudgetInit
  <2> SUFFICES ASSUME Init PROVE Ledger!BudgetInit
    OBVIOUS
  <2>1. ASSUME NEW x \in Runs PROVE ActiveReserved(x, {}) = Nothing
    <3>1. Active(x) = {}
      BY DEF Init, Active
    <3>2. ActiveReserved(x, {}) = Reserved({})
      BY <3>1 DEF ActiveReserved, Active
    <3> QED BY <3>2, SumEmpty DEF Reserved, Nothing
  <2>2. [x \in Runs |-> ActiveReserved(x, {})] = [x \in Runs |-> Nothing]
    BY <2>1
  <2>3. ledger = [x \in Runs |-> Nothing]
    BY DEF Init
  <2> QED BY <2>2, <2>3 DEF Ledger!BudgetInit, Ledger!Nothing, Nothing
<1>2. OrchInv /\ OrchInv' /\ [Next]_orchVars => [Ledger!BudgetNext]_(Ledger!budgetVars)
  <2> SUFFICES ASSUME OrchInv, OrchInv', [Next]_orchVars
               PROVE  Ledger!BudgetNext \/ UNCHANGED Ledger!budgetVars
    OBVIOUS
  <2>0. Typed /\ Typed'
    BY DEF OrchInv
  <2>1. ASSUME reservations' = reservations, ledger' = ledger
        PROVE  UNCHANGED Ledger!budgetVars
    BY <2>1, HeldSame, StutterStep
  <2>2. ASSUME NEW x \in Runs,
               \/ Submit(x) \/ MarkInterrupted(x) \/ Resume(x)
               \/ \E w \in Workers : ClaimNext(x, w)
        PROVE  UNCHANGED Ledger!budgetVars
    BY <2>1, <2>2 DEF Submit, MarkInterrupted, Resume, ClaimNext, budgetRows
  <2>3. ASSUME NEW x \in Runs, Cancel(x) PROVE UNCHANGED Ledger!budgetVars
    <3>1. \A y \in Runs : \A o \in Roles : reservations[y][o].state = "active"
                                              => runs[y].worker # NoWorker
      BY DEF OrchInv, TablesInv
    <3>2. runs[x].worker = NoWorker
      BY <2>3 DEF Cancel, OrchInv, TablesInv
    <3>3. \A o \in Roles : reservations[x][o].state # "active"
      BY <3>1, <3>2
    <3>4. [o \in Roles |-> IF reservations[x][o].state = "active"
                           THEN [reservations[x][o] EXCEPT !.state = "released"]
                           ELSE reservations[x][o]] = reservations[x]
      BY <2>0, <3>3 DEF Typed
    <3>5. reservations' = reservations /\ ledger' = ledger
      BY <2>0, <2>3, <3>4 DEF Cancel, Typed
    <3> QED BY <2>1, <3>5
  <2>4. ASSUME NEW x \in Runs, NEW w \in Workers, StartReady(x, w)
        PROVE  Ledger!Hold(x)
    <3>1. ledger' = ledger
      BY <2>4 DEF StartReady
    <3> QED BY <2>0, <2>4, <3>1, StartReadyHolds, HoldStep
  <2>5. ASSUME NEW x \in Runs, NEW w \in Workers, NEW o \in Roles, NEW c \in Receipts,
               NEW u \in Usages, CompleteRole(x, w, o, c, u)
        PROVE  Ledger!Spend(x)
    <3> DEFINE after == [state |-> "settled", receipt |-> c, charge |-> Enforced(o, u)]
    <3>1. /\ Chargeable(x, o, u) /\ Charge(x, o, u) /\ after.state = "settled"
          /\ reservations' = [reservations EXCEPT ![x] = [reservations[x] EXCEPT ![o] = after]]
      BY <2>5 DEF CompleteRole
    <3> HIDE DEF after
    <3>2. /\ \A r \in Resources :
               /\ ledger[x][r] <= ledger'[x][r]
               /\ Held'[x][r] <= Held[x][r]
               /\ ledger'[x][r] + Held'[x][r] <= ledger[x][r] + Held[x][r]
          /\ \A y \in Runs \ {x} : ledger'[y] = ledger[y] /\ Held'[y] = Held[y]
      <4>1. /\ reservations'[x][o].state \in {"settled", "released"}
            /\ \A p \in Roles \ {o} : reservations'[x][p] = reservations[x][p]
            /\ \A y \in Runs \ {x} : reservations'[y] = reservations[y]
        BY <2>0, <3>1 DEF Typed
      <4> QED BY <3>1, <4>1, ChargeSpends
    <3> QED BY <2>0, <3>2, SpendStep
  <2>6. ASSUME NEW x \in Runs, NEW o \in Roles, NEW d \in Digests, NEW u \in Usages,
               ReconcileInterruptedRole(x, o, d, u)
        PROVE  Ledger!Spend(x)
    <3> DEFINE after == [reservations[x][o] EXCEPT !.state = "released",
                                                   !.charge = Enforced(o, u)]
    <3>0. reservations[x] \in [Roles -> Reservations] /\ reservations[x][o] \in Reservations
      BY <2>0 DEF Typed
    <3>1. /\ Chargeable(x, o, u) /\ Charge(x, o, u)
          /\ reservations' = [reservations EXCEPT ![x] = [reservations[x] EXCEPT ![o] = after]]
      <4>1. Chargeable(x, o, u) /\ Charge(x, o, u)
        BY <2>6 DEF ReconcileInterruptedRole
      <4>2. reservations' = [reservations EXCEPT ![x][o].state = "released",
                                                 ![x][o].charge = Enforced(o, u)]
        BY <2>6 DEF ReconcileInterruptedRole
      <4>3. reservations' = [reservations EXCEPT ![x] = [reservations[x] EXCEPT ![o] = after]]
        BY <2>0, <3>0, <4>2 DEF Typed
      <4> QED BY <4>1, <4>3
    <3>2. after.state = "released"
      BY <2>0 DEF Typed, Reservations
    <3> HIDE DEF after
    <3>3. /\ \A r \in Resources :
               /\ ledger[x][r] <= ledger'[x][r]
               /\ Held'[x][r] <= Held[x][r]
               /\ ledger'[x][r] + Held'[x][r] <= ledger[x][r] + Held[x][r]
          /\ \A y \in Runs \ {x} : ledger'[y] = ledger[y] /\ Held'[y] = Held[y]
      <4>1. /\ reservations'[x][o].state \in {"settled", "released"}
            /\ \A p \in Roles \ {o} : reservations'[x][p] = reservations[x][p]
            /\ \A y \in Runs \ {x} : reservations'[y] = reservations[y]
        BY <2>0, <3>1, <3>2 DEF Typed
      <4> QED BY <3>1, <4>1, ChargeSpends
    <3> QED BY <2>0, <3>3, SpendStep
  <2>7. CASE UNCHANGED orchVars
    BY <2>1, <2>7 DEF orchVars
  <2>8. CASE Next
    <3>1. PICK x \in Runs :
            \/ Submit(x) \/ MarkInterrupted(x) \/ Resume(x) \/ Cancel(x)
            \/ \E w \in Workers : ClaimNext(x, w) \/ StartReady(x, w)
            \/ \E w \in Workers, o \in Roles, c \in Receipts, u \in Usages :
                 CompleteRole(x, w, o, c, u)
            \/ \E o \in Roles, d \in Digests, u \in Usages :
                 ReconcileInterruptedRole(x, o, d, u)
      BY <2>8 DEF Next
    <3>2. UNCHANGED Ledger!budgetVars \/ Ledger!Hold(x) \/ Ledger!Spend(x)
      BY <2>2, <2>3, <2>4, <2>5, <2>6, <3>1
    <3> QED BY <3>2 DEF Ledger!BudgetNext
  <2> QED BY <2>7, <2>8
<1> QED BY <1>1, <1>2, OrchestrationInvariant, PTL
     DEF Spec, ImplementsBudget, Ledger!BudgetSpec

-----------------------------------------------------------------------------
(* What the refinement gives: the promises of the budget, kept by the store.     *)

\* The budget in terms of what the store keeps.
LEMMA MappedBudget ==
    /\ Ledger!WithinCeiling <=> \A x \in Runs : \A r \in Resources : ledger[x][r] + Held[x][r] <= Ceiling[r]
    /\ \A x \in Runs : Ledger!Hold(x) =>
         /\ ledger'[x] = ledger[x]
         /\ \A r \in Resources : ledger[x][r] + Held'[x][r] <= Ceiling[r]
    /\ \A x \in Runs : Ledger!Spend(x) => \A r \in Resources :
         /\ ledger[x][r] <= ledger'[x][r]
         /\ ledger'[x][r] + Held'[x][r] <= ledger[x][r] + Held[x][r]
    /\ \A x \in Runs : Ledger!Hold(x) \/ Ledger!Spend(x) =>
         \A y \in Runs \ {x} : ledger'[y] = ledger[y] /\ Held'[y] = Held[y]
<1>1. Held = [y \in Runs |-> ActiveReserved(y, {})]
      /\ Held' = [y \in Runs |-> ActiveReserved(y, {})]'
  BY DEF Held
<1> HIDE DEF Held
<1> QED BY <1>1
     DEF Ledger!Hold, Ledger!Spend, Ledger!Only, Ledger!Within, Ledger!Plus, Ledger!WithinCeiling

LEMMA MappedCeilingPrimed ==
    Ledger!WithinCeiling' <=>
        \A x \in Runs : \A r \in Resources : ledger'[x][r] + Held'[x][r] <= Ceiling[r]
<1>1. Held' = [y \in Runs |-> ActiveReserved(y, {})]'
  BY DEF Held
<1> HIDE DEF Held
<1> QED BY <1>1 DEF Ledger!Within, Ledger!Plus, Ledger!WithinCeiling

\* So no run of the store is ever committed beyond its ceiling, in any resource:
\* what the ledger charged and what active roles reserved fit it together.
THEOREM BudgetsHold == Spec => []Ledger!WithinCeiling
<1>1. Ledger!BudgetInit => Ledger!WithinCeiling
  <2> SUFFICES ASSUME Ledger!BudgetInit
               PROVE  \A x \in Runs : \A r \in Resources : ledger[x][r] + Held[x][r] <= Ceiling[r]
    BY MappedBudget
  <2>1. \A x \in Runs : \A r \in Resources : ledger[x][r] = 0 /\ Held[x][r] = 0
    BY DEF Ledger!BudgetInit, Ledger!Nothing, Held
  <2>2. \A r \in Resources : Ceiling[r] \in Nat
    BY AmountFacts
  <2> QED BY <2>1, <2>2
<1>2. OrchInv /\ OrchInv' /\ Ledger!WithinCeiling /\ [Ledger!BudgetNext]_(Ledger!budgetVars)
        => Ledger!WithinCeiling'
  <2> SUFFICES ASSUME OrchInv, OrchInv', Ledger!WithinCeiling,
                      [Ledger!BudgetNext]_(Ledger!budgetVars)
               PROVE  Ledger!WithinCeiling'
    OBVIOUS
  <2>1. CASE UNCHANGED Ledger!budgetVars
    <3>1. ledger' = ledger /\ Held' = Held
      BY <2>1 DEF Ledger!budgetVars, Held
    <3> HIDE DEF Held
    <3> QED BY <3>1, MappedBudget, MappedCeilingPrimed
  <2>2. CASE Ledger!BudgetNext
    <3>1. PICK x \in Runs : Ledger!Hold(x) \/ Ledger!Spend(x)
      BY <2>2 DEF Ledger!BudgetNext
    <3>2. \A y \in Runs \ {x} : \A r \in Resources : ledger'[y][r] + Held'[y][r] <= Ceiling[r]
      BY <3>1, MappedBudget
    <3>3. \A r \in Resources : ledger'[x][r] + Held'[x][r] <= Ceiling[r]
      <4>1. \A r \in Resources : /\ ledger[x][r] \in Nat /\ Held[x][r] \in Nat /\ Ceiling[r] \in Nat
                                 /\ ledger'[x][r] \in Nat /\ Held'[x][r] \in Nat
        <5>1. ledger \in [Runs -> [Resources -> Nat]] /\ ledger' \in [Runs -> [Resources -> Nat]]
          BY AmountFacts DEF OrchInv, Typed, Amounts
        <5>2. \A r \in Resources : Ceiling[r] \in Nat
          BY AmountFacts
        <5> QED BY <5>1, <5>2, HeldFacts, HeldFactsPrimed
      <4>2. CASE Ledger!Hold(x)
        BY <4>2, MappedBudget
      <4>3. CASE Ledger!Spend(x)
        <5>1. \A r \in Resources : ledger[x][r] + Held[x][r] <= Ceiling[r]
          BY MappedBudget
        <5>2. \A r \in Resources : ledger'[x][r] + Held'[x][r] <= ledger[x][r] + Held[x][r]
          BY <4>3, MappedBudget
        <5> QED BY <4>1, <5>1, <5>2
      <4> QED BY <3>1, <4>2, <4>3
    <3> QED BY <3>2, <3>3, MappedCeilingPrimed
  <2> QED BY <2>1, <2>2
<1> QED BY <1>1, <1>2, StoreImplementsBudget, OrchestrationInvariant, PTL
     DEF ImplementsBudget, Ledger!BudgetSpec

\* And nothing the ledger charged is ever given back, whatever is interrupted,
\* reconciled, cancelled or released later.
THEOREM ChargesStand == Spec => Ledger!NeverRefunded
<1>1. OrchInv /\ [Ledger!BudgetNext]_(Ledger!budgetVars)
        => [\A x \in Runs : Ledger!Within(ledger[x], ledger'[x])]_(Ledger!budgetVars)
  <2> SUFFICES ASSUME OrchInv, Ledger!BudgetNext
               PROVE  \A y \in Runs : Ledger!Within(ledger[y], ledger'[y])
    OBVIOUS
  <2>1. \A y \in Runs : \A r \in Resources : ledger[y][r] \in Nat
    BY LedgerIsAmounts DEF OrchInv
  <2>2. PICK x \in Runs : Ledger!Hold(x) \/ Ledger!Spend(x)
    BY DEF Ledger!BudgetNext
  <2>3. \A r \in Resources : ledger[x][r] <= ledger'[x][r]
    BY <2>1, <2>2, MappedBudget
  <2>4. \A y \in Runs \ {x} : ledger'[y] = ledger[y]
    BY <2>2, MappedBudget
  <2> QED BY <2>1, <2>3, <2>4 DEF Ledger!Within
<1> QED BY <1>1, StoreImplementsBudget, OrchestrationInvariant, PTL
     DEF ImplementsBudget, Ledger!BudgetSpec, Ledger!NeverRefunded
================================================================================
