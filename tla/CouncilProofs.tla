--------------------------- MODULE CouncilProofs ---------------------------
(***************************************************************************)
(* Proofs about execute_council.  Whatever plans callers hand in: a plan   *)
(* that parse_council_plan lets through falls into waves, every stage of   *)
(* it in one of them after the stages it needs, and what is left of the    *)
(* waves, of the present wave and of the present batch accounts for every  *)
(* stage that is not reported yet.                                         *)
(***************************************************************************)
EXTENDS Council, FiniteSetTheorems, SequenceTheorems,
        WellFoundedInduction, TLAPS

-----------------------------------------------------------------------------
Distinct(s) == \A j, k \in DOMAIN s : j # k => s[j] # s[k]

(* The sequences ws of stages are what is left once those of T are taken:  *)
(* each stage once, in an order that heeds depends_on.                     *)
Planned(T, ws) ==
    /\ \A n \in DOMAIN ws : Distinct(ws[n])
    /\ \A n \in DOMAIN ws : Range(ws[n]) \cap T = {}
    /\ \A m, n \in DOMAIN ws : m < n => Range(ws[m]) \cap Range(ws[n]) = {}
    /\ Ids = T \cup UNION {Range(ws[n]) : n \in DOMAIN ws}
    /\ \A n \in DOMAIN ws : \A i \in Range(ws[n]) :
          Of(i).needs \subseteq T \cup UNION {Range(ws[m]) : m \in 1..(n - 1)}

(* The council came through its checks.                                    *)
Underway ==
    point \in {"wave", "batch", "run"} \/ answer \in {"completed", "with_skips"}

PlanInv ==
    /\ answer = "none" <=> point # "done"
    /\ point = "cost" => ValidPlan
    /\ Underway => ValidPlan /\ (plan.cost = 0 \/ Affordable)
    /\ ~Underway =>
          /\ \A i \in StageId : task[i] = "absent"
          /\ waves = <<>> /\ outcomes = <<>> /\ skipped = <<>>

LoopInv ==
    /\ point = "done" => waves = <<>>
    /\ point \notin {"batch", "run"} => wave = <<>>
    /\ point # "run" => batch = <<>>
    /\ stage # NoStage =>
          /\ point = "run" /\ batch # <<>> /\ stage = Head(batch)
          /\ skipped = <<>>
    /\ Exhausted => clock >= plan.time

Line  == Range(batch) \cup Range(wave)

LineInv ==
    /\ Distinct(batch) /\ Distinct(wave)
    /\ Range(batch) \cap Range(wave) = {}
    /\ Line \cap Handled = {}
    /\ \A i \in Line : Of(i).needs \subseteq Handled

RunIds == {outcomes[k].id : k \in DOMAIN outcomes}

HandledInv ==
    /\ \A j, k \in DOMAIN outcomes : j # k => outcomes[j].id # outcomes[k].id
    /\ Distinct(skipped)
    /\ RunIds \cap Range(skipped) = {}
    /\ \A k \in DOMAIN outcomes :
          Of(outcomes[k].id).needs \subseteq {outcomes[l].id : l \in 1..(k - 1)}

-----------------------------------------------------------------------------
(* Numbers and sequences.                                                  *)

LEMMA LeastNat ==
    ASSUME NEW T \in SUBSET Nat, T # {}
    PROVE  \E n \in T : \A m \in T : n <= m
<1> DEFINE R == OpToRel(<, Nat)
<1>1. \A x, y \in Nat : x < y => <<x, y>> \in R
  BY DEF OpToRel
<1>2. IsWellFoundedOn(R, Nat)
  BY NatLessThanWellFounded
<1> HIDE DEF R
<1>3. PICK n \in T : \A y \in T : ~(<<y, n>> \in R)
  BY <1>2, WFMin
<1>4. \A y \in T : ~(y < n)
  BY <1>1, <1>3
<1>5. QED
  BY <1>3, <1>4

HasOrder(S) ==
    \E q \in [1..Cardinality(S) -> S] :
        \A j, k \in 1..Cardinality(S) : j < k => q[j] < q[k]

LEMMA OrderExists ==
    ASSUME NEW S \in SUBSET Nat, IsFiniteSet(S)
    PROVE  HasOrder(S)
<1> DEFINE T == {n \in Nat : \E U \in SUBSET Nat :
                    IsFiniteSet(U) /\ Cardinality(U) = n /\ ~HasOrder(U)}
<1>1. SUFFICES T = {}
  BY FS_CardinalityType
<1>2. SUFFICES ASSUME T # {}
               PROVE  FALSE
  OBVIOUS
<1>3. PICK n \in T : \A m \in T : n <= m
  <2> T \in SUBSET Nat
    OBVIOUS
  <2> HIDE DEF T
  <2> QED
    BY <1>2, LeastNat
<1>4. PICK U \in SUBSET Nat :
         IsFiniteSet(U) /\ Cardinality(U) = n /\ ~HasOrder(U)
  BY <1>3
<1>5. U # {}
  <2>1. ASSUME U = {}
        PROVE  HasOrder(U)
    <3>1. Cardinality(U) = 0
      BY <2>1, FS_EmptySet
    <3>2. [k \in 1..0 |-> k] \in [1..Cardinality(U) -> U]
      BY <3>1
    <3>3. QED
      BY <3>1, <3>2 DEF HasOrder
  <2>2. QED
    BY <1>4, <2>1
<1>6. PICK least \in U : \A m \in U : least <= m
  BY <1>4, <1>5, LeastNat
<1> DEFINE V == U \ {least}
<1>7. IsFiniteSet(V) /\ Cardinality(V) = n - 1 /\ n \in Nat \ {0}
  <2>1. IsFiniteSet(V) /\ Cardinality(V) = n - 1
    BY <1>4, <1>6, FS_RemoveElement
  <2>2. Cardinality(V) \in Nat
    BY <2>1, FS_CardinalityType
  <2>3. QED
    BY <1>3, <2>1, <2>2
<1>8. HasOrder(V)
  BY <1>3, <1>4, <1>7
<1>9. PICK q \in [1..(n - 1) -> V] :
         \A j, k \in 1..(n - 1) : j < k => q[j] < q[k]
  BY <1>7, <1>8 DEF HasOrder
<1> DEFINE p == [k \in 1..n |-> IF k = 1 THEN least ELSE q[k - 1]]
<1>10. \A k \in 1..n : k # 1 => k - 1 \in 1..(n - 1) /\ q[k - 1] \in V
  BY <1>7, <1>9
<1>11. p \in [1..n -> U]
  BY <1>6, <1>10
<1>12. \A j, k \in 1..n : j < k => p[j] < p[k]
  <2> SUFFICES ASSUME NEW j \in 1..n, NEW k \in 1..n, j < k
               PROVE  p[j] < p[k]
    OBVIOUS
  <2>1. k # 1 /\ p[k] = q[k - 1] /\ k - 1 \in 1..(n - 1) /\ q[k - 1] \in V
    BY <1>7, <1>10
  <2>2. CASE j = 1
    <3>1. p[j] = least
      BY <2>2
    <3>2. q[k - 1] \in U /\ q[k - 1] # least
      BY <2>1
    <3>3. least <= q[k - 1] /\ least \in Nat /\ q[k - 1] \in Nat
      BY <1>4, <1>6, <3>2
    <3> HIDE DEF p
    <3>4. QED
      BY <2>1, <3>1, <3>2, <3>3
  <2>3. CASE j # 1
    BY <1>7, <1>9, <1>10, <2>1, <2>3
  <2>4. QED
    BY <2>2, <2>3
<1>13. QED
  BY <1>4, <1>11, <1>12 DEF HasOrder

(* A wave is its stages, each once.                                        *)
LEMMA InOrderFacts ==
    ASSUME NEW S \in SUBSET Nat, IsFiniteSet(S)
    PROVE  /\ InOrder(S) \in Seq(S)
           /\ Distinct(InOrder(S))
           /\ Range(InOrder(S)) = S
<1> DEFINE q == InOrder(S)  n == Cardinality(S)
<1>1. n \in Nat
  BY FS_CardinalityType
<1>2. q \in [1..n -> S] /\ \A j, k \in 1..n : j < k => q[j] < q[k]
  BY OrderExists DEF HasOrder, InOrder
<1> HIDE DEF q
<1>3. \A j, k \in 1..n : j # k => q[j] # q[k]
  <2> SUFFICES ASSUME NEW j \in 1..n, NEW k \in 1..n, j # k
               PROVE  q[j] # q[k]
    OBVIOUS
  <2>1. j < k \/ k < j
    BY <1>1
  <2>2. q[j] \in Nat /\ q[k] \in Nat
    BY <1>2
  <2>3. QED
    BY <1>2, <2>1, <2>2
<1>4. q \in Injection(1..n, S)
  BY <1>2, <1>3 DEF Injection, IsInjective
<1>5. q \in Surjection(1..n, S)
  <2>1. Cardinality(1..n) = n
    BY <1>1, FS_Interval
  <2>2. QED
    BY <1>4, <2>1, FS_Injection
<1>6. q \in Seq(S)
  BY <1>1, <1>2
<1>7. Range(q) = S
  BY <1>2, <1>5 DEF Range, Surjection
<1>8. Distinct(q)
  BY <1>2, <1>3 DEF Distinct
<1>9. QED
  BY <1>6, <1>7, <1>8 DEF q

(* A sequence without repetition is as long as its range is large.         *)
LEMMA DistinctLength ==
    ASSUME NEW S, NEW s \in Seq(S), Distinct(s)
    PROVE  IsFiniteSet(Range(s)) /\ Cardinality(Range(s)) = Len(s)
<1>1. Len(s) \in Nat /\ DOMAIN s = 1..Len(s) /\ s \in [1..Len(s) -> S]
  OBVIOUS
<1>2. s \in Bijection(1..Len(s), Range(s))
  BY <1>1 DEF Distinct, Bijection, Injection, IsInjective, Surjection, Range
<1>3. IsFiniteSet(1..Len(s)) /\ Cardinality(1..Len(s)) = Len(s)
  BY <1>1, FS_Interval
<1>4. ExistsBijection(1..Len(s), Range(s))
  BY <1>2 DEF ExistsBijection
<1>5. QED
  BY <1>3, <1>4, FS_Bijection

-----------------------------------------------------------------------------
(* The plan.                                                               *)

(* What the callers' side and the clock have to do with it: plans are of   *)
(* the type that _parse_bounds and _parse_stage let through.               *)
Assumed ==
    StageId \subseteq Nat \ {0} /\ Plans \subseteq Plan /\ MaxTicks \in Nat

N == Cardinality(Ids)

LEMMA IdsFacts ==
    ASSUME Assumed, plan \in Plans
    PROVE  /\ plan \in Plan
           /\ IsFiniteSet(Ids) /\ N \in Nat /\ Ids \subseteq StageId
           /\ Ids \subseteq Nat \ {0}
           /\ \A i \in Ids : Of(i) \in Stage /\ Of(i).id = i
<1>1. plan \in Plan /\ plan.stages \in Seq(Stage)
  BY DEF Assumed, Plan
<1>2. \A k \in DOMAIN plan.stages :
         plan.stages[k] \in Stage /\ plan.stages[k].id \in StageId
  <2>1. \A k \in DOMAIN plan.stages : plan.stages[k] \in Stage
    BY <1>1
  <2>2. \A s \in Stage : s.id \in StageId
    BY DEF Stage
  <2>3. QED
    BY <2>1, <2>2
<1>3. IsFiniteSet(Ids) /\ N \in Nat
  <2> DEFINE f == [k \in DOMAIN plan.stages |-> plan.stages[k].id]
  <2>1. f \in Surjection(DOMAIN plan.stages, Ids)
    BY DEF Surjection, Ids
  <2>2. IsFiniteSet(DOMAIN plan.stages)
    <3>1. Len(plan.stages) \in Nat /\ DOMAIN plan.stages = 1..Len(plan.stages)
      BY <1>1
    <3>2. QED
      BY <3>1, FS_Interval
  <2> HIDE DEF f
  <2>3. QED
    BY <2>1, <2>2, FS_Surjection, FS_CardinalityType DEF N
<1>4. Ids \subseteq StageId /\ Ids \subseteq Nat \ {0}
  BY <1>2 DEF Ids, Assumed
<1>5. ASSUME NEW i \in Ids
      PROVE  Of(i) \in Stage /\ Of(i).id = i
  <2>1. \E s \in {plan.stages[k] : k \in DOMAIN plan.stages} : s.id = i
    BY <1>5 DEF Ids
  <2>2. Of(i) \in {plan.stages[k] : k \in DOMAIN plan.stages} /\ Of(i).id = i
    BY <2>1 DEF Of
  <2>3. QED
    BY <1>2, <2>2
<1>6. QED
  BY <1>1, <1>3, <1>4, <1>5

(* The while loop of _topological_waves always finds a stage that is       *)
(* ready: stages that each wait for another of them close a cycle.         *)
THEOREM SomeReady ==
    ASSUME Assumed, plan \in Plans, ValidPlan,
           NEW D \in SUBSET Ids, D # Ids
    PROVE  Ready(D) # {}
<1>1. SUFFICES ASSUME Ready(D) = {}
               PROVE  FALSE
  OBVIOUS
<1> DEFINE U == Ids \ D
<1>2. IsFiniteSet(Ids) /\ N \in Nat
  BY IdsFacts
<1>3. \A i \in U : \E j \in U : j \in Of(i).needs
  BY <1>1 DEF Ready, ValidPlan
<1>4. PICK u \in U : TRUE
  OBVIOUS
<1> HIDE DEF U
<1> DEFINE T == {n \in Nat : ~ \E q \in [0..n -> U] : Follows(q, n)}
<1>5. T = {}
  <2>1. SUFFICES ASSUME T # {}
                 PROVE  FALSE
    OBVIOUS
  <2>2. PICK n \in T : \A m \in T : n <= m
    <3> T \in SUBSET Nat
      OBVIOUS
    <3> HIDE DEF T
    <3> QED
      BY <2>1, LeastNat
  <2>3. n \in Nat /\ ~ \E q \in [0..n -> U] : Follows(q, n)
    BY <2>2
  <2>4. n # 0
    <3>1. [k \in 0..0 |-> u] \in [0..0 -> U]
      BY <1>4
    <3>2. Follows([k \in 0..0 |-> u], 0)
      BY DEF Follows
    <3>3. QED
      BY <2>3, <3>1, <3>2
  <2>5. n - 1 \in Nat /\ n - 1 \notin T
    <3>1. n - 1 \in Nat /\ ~(n <= n - 1)
      BY <2>3, <2>4
    <3>2. QED
      BY <2>2, <3>1
  <2>6. PICK q \in [0..(n - 1) -> U] : Follows(q, n - 1)
    BY <2>5
  <2>7. PICK j \in U : j \in Of(q[n - 1]).needs
    BY <1>3, <2>5
  <2> DEFINE p == [k \in 0..n |-> IF k = n THEN j ELSE q[k]]
  <2>8. p \in [0..n -> U]
    BY <2>3, <2>7
  <2>9. Follows(p, n)
    <3> SUFFICES ASSUME NEW k \in 1..n
                 PROVE  p[k] \in Of(p[k - 1]).needs
      BY DEF Follows
    <3>1. p[k - 1] = q[k - 1]
      BY <2>3
    <3>2. CASE k = n
      BY <2>3, <2>7, <3>1, <3>2
    <3>3. CASE k # n
      <4>1. k \in 1..(n - 1) /\ p[k] = q[k]
        BY <2>3, <3>3
      <4>2. QED
        BY <2>6, <3>1, <4>1 DEF Follows
    <3>4. QED
      BY <3>2, <3>3
  <2>10. QED
    BY <2>3, <2>8, <2>9
<1>6. PICK q \in [0..N -> U] : Follows(q, N)
  BY <1>2, <1>5
<1>7. PICK a \in 0..N, b \in 0..N : a # b /\ q[a] = q[b]
  <2>1. IsFiniteSet(0..N) /\ Cardinality(0..N) = N + 1
    BY <1>2, FS_Interval
  <2>2. IsFiniteSet(U) /\ Cardinality(U) <= N /\ Cardinality(U) \in Nat
    BY <1>2, FS_Subset, FS_CardinalityType DEF U, N
  <2>3. Cardinality(U) < Cardinality(0..N)
    BY <1>2, <2>1, <2>2
  <2>4. QED
    BY <2>1, <2>2, <2>3, FS_PigeonHole
<1>8. ASSUME NEW c \in 0..N, NEW d \in 0..N, c < d, q[c] = q[d]
      PROVE  FALSE
  <2> DEFINE n == d - c  p == [k \in 0..n |-> q[c + k]]
  <2>1. n \in 1..N /\ \A k \in 0..n : c + k \in 0..N
    BY <1>2, <1>8
  <2>2. p \in [0..n -> Ids]
    BY <2>1 DEF U
  <2>3. Follows(p, n)
    <3> SUFFICES ASSUME NEW k \in 1..n
                 PROVE  p[k] \in Of(p[k - 1]).needs
      BY DEF Follows
    <3>1. /\ k \in 0..n /\ k - 1 \in 0..n
          /\ c + k \in 1..N /\ c + (k - 1) = (c + k) - 1
      BY <1>2, <1>8, <2>1
    <3>2. p[k] = q[c + k] /\ p[k - 1] = q[(c + k) - 1]
      BY <3>1
    <3>3. QED
      BY <1>6, <3>1, <3>2 DEF Follows
  <2>4. p[0] = q[c] /\ p[n] = q[d]
    BY <1>2, <1>8, <2>1
  <2>5. \E r \in [0..n -> Ids] : Follows(r, n) /\ r[0] = r[n]
    BY <1>8, <2>2, <2>3, <2>4
  <2> HIDE DEF n
  <2>6. ~Acyclic
    BY <2>1, <2>5 DEF Acyclic, N
  <2>7. QED
    BY <2>6 DEF ValidPlan
<1>9. QED
  <2>1. a < b \/ b < a
    BY <1>2, <1>7
  <2>2. QED
    BY <1>7, <1>8, <2>1

(* Begun is what its recursion says.                                       *)
LEMMA BegunUnfolds ==
    ASSUME Assumed, plan \in Plans
    PROVE  /\ Begun \in [0..N -> SUBSET Ids] /\ Begun[0] = {}
           /\ \A n \in 1..N : Begun[n] = Begun[n - 1] \cup Ready(Begun[n - 1])
<1> DEFINE Solves(g, n) ==
               g = [k \in 0..n |-> IF k = 0 THEN {}
                                   ELSE g[k - 1] \cup Ready(g[k - 1])]
<1>1. N \in Nat
  BY IdsFacts
<1> DEFINE T == {n \in Nat : ~ \E g : Solves(g, n)}
<1>2. T = {}
  <2>1. SUFFICES ASSUME T # {}
                 PROVE  FALSE
    OBVIOUS
  <2>2. PICK n \in T : \A m \in T : n <= m
    <3> T \in SUBSET Nat
      OBVIOUS
    <3> HIDE DEF T
    <3> QED
      BY <2>1, LeastNat
  <2>3. n \in Nat /\ ~ \E g : Solves(g, n)
    BY <2>2
  <2>4. n # 0
    <3>1. ASSUME n = 0
          PROVE  Solves([k \in 0..0 |-> {}], n)
      BY <3>1
    <3>2. QED
      BY <2>3, <3>1
  <2>5. n - 1 \in Nat /\ n - 1 \notin T
    <3>1. n - 1 \in Nat /\ ~(n <= n - 1)
      BY <2>3, <2>4
    <3>2. QED
      BY <2>2, <3>1
  <2>6. PICK g : Solves(g, n - 1)
    BY <2>5
  <2> DEFINE h == [k \in 0..n |-> IF k = n
                                  THEN g[n - 1] \cup Ready(g[n - 1]) ELSE g[k]]
  <2>7. \A k \in 0..n : h[k] = IF k = 0 THEN {}
                               ELSE h[k - 1] \cup Ready(h[k - 1])
    <3> SUFFICES ASSUME NEW k \in 0..n
                 PROVE  h[k] = IF k = 0 THEN {}
                               ELSE h[k - 1] \cup Ready(h[k - 1])
      OBVIOUS
    <3>1. CASE k = 0
      <4>1. h[k] = g[0] /\ 0 \in 0..(n - 1)
        BY <2>3, <2>4, <3>1
      <4>2. g[0] = {}
        BY <2>6, <4>1
      <4>3. QED
        BY <3>1, <4>1, <4>2
    <3>2. CASE k # 0
      <4>1. k - 1 \in 0..n /\ k - 1 # n
        BY <2>3, <3>2
      <4>2. h[k - 1] = g[k - 1]
        BY <4>1
      <4>3. h[k] = g[k - 1] \cup Ready(g[k - 1])
        <5>1. CASE k = n
          BY <5>1
        <5>2. CASE k # n
          <6>1. k \in 0..(n - 1) /\ h[k] = g[k]
            BY <2>3, <5>2
          <6>2. QED
            BY <2>6, <3>2, <6>1
        <5>3. QED
          BY <5>1, <5>2
      <4> HIDE DEF h
      <4>4. QED
        BY <3>2, <4>2, <4>3
    <3>3. QED
      BY <3>1, <3>2
  <2>8. h = [k \in 0..n |-> h[k]]
    OBVIOUS
  <2> HIDE DEF h
  <2>9. Solves(h, n)
    BY <2>7, <2>8
  <2>10. QED
    BY <2>3, <2>9
<1>3. \E g : Solves(g, N)
  BY <1>1, <1>2
<1>4. Solves(Begun, N)
  BY <1>3 DEF Begun, N
<1> DEFINE V == {n \in Nat : n \in 0..N /\ ~(Begun[n] \subseteq Ids)}
<1>5. /\ Begun[0] = {}
      /\ \A n \in 1..N : Begun[n] = Begun[n - 1] \cup Ready(Begun[n - 1])
      /\ DOMAIN Begun = 0..N /\ Begun = [k \in 0..N |-> Begun[k]]
  <2>1. \A n \in 0..N : Begun[n] = IF n = 0 THEN {}
                          ELSE Begun[n - 1] \cup Ready(Begun[n - 1])
    BY <1>4
  <2>2. DOMAIN Begun = 0..N /\ Begun = [k \in 0..N |-> Begun[k]]
    BY <1>4
  <2>3. QED
    BY <1>1, <2>1, <2>2
<1>6. V = {}
  <2>1. SUFFICES ASSUME V # {}
                 PROVE  FALSE
    OBVIOUS
  <2>2. PICK n \in V : \A m \in V : n <= m
    <3> V \in SUBSET Nat
      OBVIOUS
    <3> HIDE DEF V
    <3> QED
      BY <2>1, LeastNat
  <2>3. n \in 1..N
    BY <1>1, <1>5, <2>2
  <2>4. n - 1 \in 0..N /\ n - 1 \in Nat /\ ~(n <= n - 1)
    BY <1>1, <2>3
  <2>5. Begun[n - 1] \subseteq Ids
    BY <2>2, <2>4
  <2>6. QED
    BY <1>5, <2>2, <2>3, <2>5 DEF Ready
<1>7. \A n \in 0..N : Begun[n] \in SUBSET Ids
  BY <1>1, <1>6
<1>8. QED
  <2>1. Begun \in [0..N -> SUBSET Ids]
    BY <1>5, <1>7
  <2>2. QED
    BY <1>5, <2>1

(* Every round of the loop takes up a stage more.                          *)
LEMMA BegunRises ==
    ASSUME Assumed, plan \in Plans, ValidPlan
    PROVE  \A n \in 0..N : n <= Cardinality(Begun[n]) \/ Begun[n] = Ids
<1>1. N \in Nat /\ IsFiniteSet(Ids)
  BY IdsFacts
<1> DEFINE T == {n \in Nat : n \in 0..N /\ ~(n <= Cardinality(Begun[n]))
                                       /\ Begun[n] # Ids}
<1>2. T = {}
  <2>1. SUFFICES ASSUME T # {}
                 PROVE  FALSE
    OBVIOUS
  <2>2. PICK n \in T : \A m \in T : n <= m
    <3> T \in SUBSET Nat
      OBVIOUS
    <3> HIDE DEF T
    <3> QED
      BY <2>1, LeastNat
  <2>3. n # 0
    <3>1. Begun[0] = {} /\ 0 <= Cardinality({})
      BY BegunUnfolds, FS_EmptySet
    <3>2. QED
      BY <2>2, <3>1
  <2>4. /\ n \in 1..N /\ n - 1 \in 0..N /\ n - 1 \in Nat /\ ~(n <= n - 1)
        /\ ~(n <= Cardinality(Begun[n])) /\ Begun[n] # Ids
    BY <1>1, <2>2, <2>3
  <2>5. n - 1 \notin T
    BY <2>2, <2>4
  <2> HIDE DEF T
  <2> DEFINE D == Begun[n - 1]
  <2>6. /\ D \in SUBSET Ids /\ Begun[n] \in SUBSET Ids
        /\ Begun[n] = D \cup Ready(D)
    BY <2>4, BegunUnfolds
  <2>7. n - 1 <= Cardinality(D) \/ D = Ids
    BY <2>4, <2>5 DEF T
  <2> HIDE DEF D
  <2>8. D # Ids
    BY <2>4, <2>6 DEF Ready
  <2>9. PICK i \in Ready(D) : TRUE
    BY <2>6, <2>8, SomeReady
  <2>10. i \notin D /\ i \in Begun[n]
    BY <2>6, <2>9 DEF Ready
  <2>11. /\ IsFiniteSet(Begun[n]) /\ IsFiniteSet(D)
         /\ Cardinality(D) \in Nat /\ Cardinality(Begun[n]) \in Nat
    BY <1>1, <2>6, FS_Subset, FS_CardinalityType
  <2>12. Cardinality(D \cup {i}) = Cardinality(D) + 1
    BY <2>10, <2>11, FS_AddElement
  <2>13. Cardinality(D \cup {i}) <= Cardinality(Begun[n])
    BY <2>6, <2>10, <2>11, FS_Subset
  <2>14. QED
    BY <2>4, <2>7, <2>8, <2>11, <2>12, <2>13
<1>3. QED
  <2> SUFFICES ASSUME NEW n \in 0..N
               PROVE  n <= Cardinality(Begun[n]) \/ Begun[n] = Ids
    OBVIOUS
  <2>1. n \in Nat /\ n \notin T
    BY <1>1, <1>2
  <2>2. QED
    BY <2>1

LEMMA DepthFacts ==
    ASSUME Assumed, plan \in Plans, ValidPlan
    PROVE  Depth \in 0..N /\ Begun[Depth] = Ids
<1>1. N \in Nat /\ IsFiniteSet(Ids)
  BY IdsFacts
<1>2. Begun[N] = Ids
  <2>1. CASE N <= Cardinality(Begun[N])
    <3>1. Begun[N] \in SUBSET Ids
      BY <1>1, BegunUnfolds
    <3>2. Cardinality(Begun[N]) \in Nat /\ Cardinality(Begun[N]) <= N
      BY <1>1, <3>1, FS_Subset, FS_CardinalityType DEF N
    <3>3. Cardinality(Begun[N]) = N
      BY <1>1, <2>1, <3>2
    <3>4. QED
      BY <1>1, <3>1, <3>3, FS_Subset DEF N
  <2>2. QED
    BY <1>1, <2>1, BegunRises
<1> DEFINE T == {n \in Nat : n \in 0..N /\ Begun[n] = Ids}
<1>3. PICK n \in T : \A m \in T : n <= m
  <2> T \in SUBSET Nat /\ T # {}
    BY <1>1, <1>2
  <2> HIDE DEF T
  <2> QED
    BY LeastNat
<1>4. \A m \in 0..(n - 1) : Begun[m] # Ids
  <2> SUFFICES ASSUME NEW m \in 0..(n - 1), Begun[m] = Ids
               PROVE  FALSE
    OBVIOUS
  <2>1. m \in Nat /\ m \in 0..N /\ ~(n <= m)
    BY <1>1, <1>3
  <2>2. QED
    BY <1>3, <2>1
<1>5. \E d \in 0..N : Begun[d] = Ids /\ \A m \in 0..(d - 1) : Begun[m] # Ids
  BY <1>3, <1>4
<1>6. QED
  BY <1>5 DEF Depth, N

(* What _topological_waves returns.                                        *)
LEMMA WavesFacts ==
    ASSUME Assumed, plan \in Plans, ValidPlan
    PROVE  Waves \in Seq(Seq(Ids)) /\ Planned({}, Waves)
<1> DEFINE R(n) == Ready(Begun[n - 1])
<1>1. /\ N \in Nat /\ IsFiniteSet(Ids) /\ Ids \subseteq Nat
      /\ Depth \in 0..N /\ Depth \in Nat /\ Begun[Depth] = Ids
  BY IdsFacts, DepthFacts
<1>2. /\ Begun[0] = {}
      /\ \A n \in 1..Depth : Begun[n] = Begun[n - 1] \cup R(n)
  BY <1>1, BegunUnfolds
<1>3. \A n \in 1..Depth :
         /\ R(n) \in SUBSET Ids /\ R(n) \cap Begun[n - 1] = {}
         /\ \A i \in R(n) : Of(i).needs \subseteq Begun[n - 1]
  BY DEF Ready
<1>4. DOMAIN Waves = 1..Depth
  BY DEF Waves
<1>5. \A n \in 1..Depth :
         /\ Waves[n] \in Seq(Ids) /\ Distinct(Waves[n])
         /\ Range(Waves[n]) = R(n)
  <2> SUFFICES ASSUME NEW n \in 1..Depth
               PROVE  /\ Waves[n] \in Seq(Ids) /\ Distinct(Waves[n])
                      /\ Range(Waves[n]) = R(n)
    OBVIOUS
  <2>1. R(n) \in SUBSET Nat /\ IsFiniteSet(R(n)) /\ R(n) \subseteq Ids
    BY <1>1, <1>3, FS_Subset
  <2>2. Waves[n] = InOrder(R(n))
    BY DEF Waves
  <2> HIDE DEF R
  <2>3. /\ InOrder(R(n)) \in Seq(R(n)) /\ Distinct(InOrder(R(n)))
        /\ Range(InOrder(R(n))) = R(n)
    BY <2>1, InOrderFacts
  <2>4. InOrder(R(n)) \in Seq(Ids)
    BY <2>1, <2>3
  <2>5. QED
    BY <2>2, <2>3, <2>4
<1>6. Waves \in Seq(Seq(Ids))
  <2>1. Waves = [n \in 1..Depth |-> Waves[n]]
    BY DEF Waves
  <2>2. Waves \in [1..Depth -> Seq(Ids)]
    BY <1>5, <2>1
  <2>3. QED
    BY <1>1, <2>2
<1> HIDE DEF R
<1> DEFINE Upto(n) == UNION {Range(Waves[m]) : m \in 1..n}
           T == {n \in Nat : n \in 0..Depth /\ Upto(n) # Begun[n]}
<1>7. T = {}
  <2>1. SUFFICES ASSUME T # {}
                 PROVE  FALSE
    OBVIOUS
  <2>2. PICK n \in T : \A m \in T : n <= m
    <3> T \in SUBSET Nat
      OBVIOUS
    <3> HIDE DEF T
    <3> QED
      BY <2>1, LeastNat
  <2>3. n # 0
    BY <1>2, <2>2
  <2>4. /\ n \in 1..Depth /\ n - 1 \in 0..Depth /\ n - 1 \in Nat
        /\ ~(n <= n - 1) /\ Upto(n) # Begun[n]
    BY <1>1, <2>2, <2>3
  <2>5. Upto(n - 1) = Begun[n - 1]
    BY <2>2, <2>4
  <2>6. Upto(n) = Upto(n - 1) \cup Range(Waves[n])
    <3>1. 1..n = 1..(n - 1) \cup {n}
      BY <2>4
    <3>2. QED
      BY <3>1
  <2>7. QED
    BY <1>2, <1>5, <2>4, <2>5, <2>6
<1>8. \A n \in 0..Depth : Upto(n) = Begun[n]
  BY <1>1, <1>7
<1>9. \A m, n \in 1..Depth : m < n => Range(Waves[m]) \cap Range(Waves[n]) = {}
  <2> SUFFICES ASSUME NEW m \in 1..Depth, NEW n \in 1..Depth, m < n
               PROVE  Range(Waves[m]) \cap Range(Waves[n]) = {}
    OBVIOUS
  <2>1. m \in 1..(n - 1) /\ n - 1 \in 0..Depth
    BY <1>1
  <2>2. Range(Waves[m]) \subseteq Upto(n - 1)
    BY <2>1
  <2>3. QED
    BY <1>3, <1>5, <1>8, <2>1, <2>2
<1>10. \A n \in 1..Depth : \A i \in Range(Waves[n]) :
          Of(i).needs \subseteq {} \cup Upto(n - 1)
  <2>1. \A n \in 1..Depth : n - 1 \in 0..Depth
    BY <1>1
  <2> HIDE DEF Upto
  <2>2. QED
    BY <1>3, <1>5, <1>8, <2>1
<1>11. Ids = {} \cup UNION {Range(Waves[n]) : n \in DOMAIN Waves}
  <2>1. Upto(Depth) = Ids
    BY <1>1, <1>8
  <2>2. QED
    BY <1>4, <2>1
<1>12. QED
  BY <1>4, <1>5, <1>6, <1>9, <1>10, <1>11 DEF Planned

-----------------------------------------------------------------------------
(* Taking from a sequence, and adding to one.                              *)

LEMMA TailTakes ==
    ASSUME NEW S, NEW s \in Seq(S), s # <<>>, Distinct(s)
    PROVE  /\ Head(s) \in S /\ Tail(s) \in Seq(S) /\ Len(Tail(s)) = Len(s) - 1
           /\ Distinct(Tail(s)) /\ Head(s) \notin Range(Tail(s))
           /\ Range(s) = {Head(s)} \cup Range(Tail(s))
<1>1. /\ Len(s) \in Nat \ {0} /\ DOMAIN s = 1..Len(s)
      /\ Head(s) = s[1] /\ s[1] \in S
  OBVIOUS
<1>2. /\ Tail(s) \in Seq(S) /\ Len(Tail(s)) = Len(s) - 1
      /\ DOMAIN Tail(s) = 1..(Len(s) - 1)
      /\ \A k \in 1..(Len(s) - 1) : Tail(s)[k] = s[k + 1]
  OBVIOUS
<1>3. \A k \in 1..(Len(s) - 1) : k + 1 \in 1..Len(s) /\ k + 1 # 1
  BY <1>1
<1>4. Distinct(Tail(s))
  <2> SUFFICES ASSUME NEW j \in DOMAIN Tail(s), NEW k \in DOMAIN Tail(s), j # k
               PROVE  Tail(s)[j] # Tail(s)[k]
    BY DEF Distinct
  <2>1. j + 1 \in DOMAIN s /\ k + 1 \in DOMAIN s /\ j + 1 # k + 1
    BY <1>1, <1>2
  <2>2. s[j + 1] # s[k + 1]
    BY <2>1 DEF Distinct
  <2>3. QED
    BY <1>2, <2>2
<1>5. Head(s) \notin Range(Tail(s))
  BY <1>1, <1>2, <1>3 DEF Distinct, Range
<1>6. Range(s) = {Head(s)} \cup Range(Tail(s))
  <2>1. \A k \in 1..Len(s) :
           k = 1 \/ (k - 1 \in 1..(Len(s) - 1) /\ (k - 1) + 1 = k)
    BY <1>1
  <2>2. \A k \in DOMAIN s : k = 1 \/ \E j \in DOMAIN Tail(s) : s[k] = Tail(s)[j]
    BY <1>1, <1>2, <2>1
  <2>3. \A j \in DOMAIN Tail(s) : \E k \in DOMAIN s : s[k] = Tail(s)[j]
    BY <1>1, <1>2, <1>3
  <2>4. 1 \in DOMAIN s
    BY <1>1
  <2>5. Range(s) \subseteq {Head(s)} \cup Range(Tail(s))
    BY <1>1, <2>2 DEF Range
  <2>6. {Head(s)} \cup Range(Tail(s)) \subseteq Range(s)
    BY <1>1, <2>3, <2>4 DEF Range
  <2>7. QED
    BY <2>5, <2>6
<1>7. QED
  BY <1>1, <1>2, <1>4, <1>5, <1>6

LEMMA SplitTakes ==
    ASSUME NEW S, NEW s \in Seq(S), Distinct(s), NEW n \in 0..Len(s)
    PROVE  LET a == SubSeq(s, 1, n)
               b == SubSeq(s, n + 1, Len(s))
           IN  /\ Distinct(a) /\ Distinct(b) /\ Range(a) \cap Range(b) = {}
               /\ Range(s) = Range(a) \cup Range(b)
<1> DEFINE a == SubSeq(s, 1, n)  b == SubSeq(s, n + 1, Len(s))
<1>1. Len(s) \in Nat /\ DOMAIN s = 1..Len(s) /\ n \in Nat /\ n <= Len(s)
  OBVIOUS
<1>2. /\ a \in Seq(S) /\ Len(a) = n /\ DOMAIN a = 1..n
      /\ \A k \in 1..n : a[k] = s[k]
  OBVIOUS
<1>3. /\ b \in Seq(S) /\ Len(b) = Len(s) - n /\ DOMAIN b = 1..(Len(s) - n)
      /\ \A k \in 1..(Len(s) - n) : b[k] = s[n + k]
  <2>1. \A i \in (n + 1)..Len(s) : s[i] \in S
    BY <1>1
  <2>2. /\ b \in Seq(S)
        /\ Len(b) = IF n + 1 <= Len(s) THEN Len(s) - (n + 1) + 1 ELSE 0
        /\ \A i \in 1..(Len(s) - (n + 1) + 1) : b[i] = s[(n + 1) + i - 1]
    BY <1>1, <2>1, SubSeqProperties
  <2>3. Len(b) = Len(s) - n /\ Len(s) - (n + 1) + 1 = Len(s) - n
    <3>1. \A l, m \in Nat : m <= l =>
             /\ (IF m + 1 <= l THEN l - (m + 1) + 1 ELSE 0) = l - m
             /\ l - (m + 1) + 1 = l - m
      OBVIOUS
    <3>2. QED
      BY <1>1, <2>2, <3>1
  <2>4. \A i \in 1..(Len(s) - n) : (n + 1) + i - 1 = n + i
    BY <1>1
  <2>5. DOMAIN b = 1..Len(b)
    BY <2>2
  <2>6. QED
    BY <2>2, <2>3, <2>4, <2>5
<1> HIDE DEF a, b
<1>4. Distinct(a)
  BY <1>1, <1>2 DEF Distinct
<1>5. Distinct(b)
  <2> SUFFICES ASSUME NEW j \in DOMAIN b, NEW k \in DOMAIN b, j # k
               PROVE  b[j] # b[k]
    BY DEF Distinct
  <2>1. n + j \in DOMAIN s /\ n + k \in DOMAIN s /\ n + j # n + k
    BY <1>1, <1>3
  <2>2. s[n + j] # s[n + k]
    BY <2>1 DEF Distinct
  <2>3. QED
    BY <1>3, <2>2
<1>6. Range(a) \cap Range(b) = {}
  <2> SUFFICES ASSUME NEW j \in DOMAIN a, NEW k \in DOMAIN b
               PROVE  a[j] # b[k]
    BY DEF Range
  <2>1. j \in 1..n /\ k \in 1..(Len(s) - n)
    BY <1>2, <1>3
  <2>2. j \in 1..Len(s) /\ n + k \in 1..Len(s) /\ j # n + k
    BY <1>1, <2>1
  <2>3. s[j] # s[n + k]
    BY <1>1, <2>2 DEF Distinct
  <2>4. QED
    BY <1>2, <1>3, <2>1, <2>3
<1>7. Range(s) = Range(a) \cup Range(b)
  <2>1. \A k \in 1..Len(s) : k \in 1..n \/ k - n \in 1..(Len(s) - n)
    BY <1>1
  <2>2. \A k \in 1..Len(s) :
           k - n \in 1..(Len(s) - n) => b[k - n] = s[k]
    <3>1. \A k \in 1..Len(s) : n + (k - n) = k
      BY <1>1
    <3>2. QED
      BY <1>3, <3>1
  <2>3. \A k \in 1..(Len(s) - n) : n + k \in 1..Len(s)
    BY <1>1
  <2>4. Range(s) \subseteq Range(a) \cup Range(b)
    BY <1>1, <1>2, <1>3, <2>1, <2>2 DEF Range
  <2>5. Range(a) \subseteq Range(s)
    BY <1>1, <1>2 DEF Range
  <2>6. Range(b) \subseteq Range(s)
    BY <1>1, <1>3, <2>3 DEF Range
  <2>7. QED
    BY <2>4, <2>5, <2>6
<1>8. QED
  BY <1>4, <1>5, <1>6, <1>7 DEF a, b

LEMMA ConcatAdds ==
    ASSUME NEW S, NEW s \in Seq(S), NEW t \in Seq(S),
           Distinct(s), Distinct(t), Range(s) \cap Range(t) = {}
    PROVE  /\ s \o t \in Seq(S) /\ Distinct(s \o t)
           /\ Range(s \o t) = Range(s) \cup Range(t)
<1> DEFINE u == s \o t  m == Len(s)  n == Len(t)
<1>1. m \in Nat /\ n \in Nat /\ DOMAIN s = 1..m /\ DOMAIN t = 1..n
  OBVIOUS
<1>2. /\ u \in Seq(S) /\ DOMAIN u = 1..(m + n)
      /\ \A k \in 1..m : u[k] = s[k]
      /\ \A k \in (m + 1)..(m + n) : u[k] = t[k - m]
  BY <1>1
<1>3. \A k \in 1..(m + n) :
         \/ k \in 1..m
         \/ k \in (m + 1)..(m + n) /\ k - m \in 1..n
  BY <1>1
<1>4. \A k \in 1..n : m + k \in (m + 1)..(m + n) /\ (m + k) - m = k
  BY <1>1
<1> HIDE DEF u, m, n
<1>5. Range(u) = Range(s) \cup Range(t)
  <2>1. Range(u) \subseteq Range(s) \cup Range(t)
    BY <1>1, <1>2, <1>3 DEF Range
  <2>2. Range(s) \subseteq Range(u)
    <3>1. \A k \in 1..m : k \in 1..(m + n)
      BY <1>1
    <3>2. QED
      BY <1>1, <1>2, <3>1 DEF Range
  <2>3. Range(t) \subseteq Range(u)
    <3>1. \A k \in 1..n : m + k \in 1..(m + n) /\ u[m + k] = t[k]
      BY <1>1, <1>2, <1>4
    <3>2. QED
      BY <1>1, <1>2, <3>1 DEF Range
  <2>4. QED
    BY <2>1, <2>2, <2>3
<1>6. Distinct(u)
  <2> SUFFICES ASSUME NEW j \in 1..(m + n), NEW k \in 1..(m + n), j # k
               PROVE  u[j] # u[k]
    BY <1>2 DEF Distinct
  <2>1. CASE j \in 1..m /\ k \in 1..m
    BY <1>1, <1>2, <2>1 DEF Distinct
  <2>2. CASE j \in 1..m /\ k \in (m + 1)..(m + n) /\ k - m \in 1..n
    BY <1>1, <1>2, <2>2 DEF Range
  <2>3. CASE k \in 1..m /\ j \in (m + 1)..(m + n) /\ j - m \in 1..n
    BY <1>1, <1>2, <2>3 DEF Range
  <2>4. CASE /\ j \in (m + 1)..(m + n) /\ k \in (m + 1)..(m + n)
             /\ j - m \in 1..n /\ k - m \in 1..n
    <3>1. j - m # k - m
      BY <1>1, <2>4
    <3>2. t[j - m] # t[k - m]
      BY <1>1, <2>4, <3>1 DEF Distinct
    <3>3. QED
      BY <1>2, <2>4, <3>2
  <2>5. QED
    BY <1>3, <2>1, <2>2, <2>3, <2>4
<1>7. QED
  BY <1>2, <1>5, <1>6 DEF u

LEMMA AppendAdds ==
    ASSUME NEW S, NEW s \in Seq(S), NEW x \in S, x \notin Range(s), Distinct(s)
    PROVE  /\ Append(s, x) \in Seq(S) /\ Distinct(Append(s, x))
           /\ Range(Append(s, x)) = Range(s) \cup {x}
<1> DEFINE u == Append(s, x)  m == Len(s)
<1>1. m \in Nat /\ DOMAIN s = 1..m
  OBVIOUS
<1>2. /\ u \in Seq(S) /\ DOMAIN u = 1..(m + 1) /\ u[m + 1] = x
      /\ \A k \in 1..m : u[k] = s[k]
  BY <1>1
<1>3. /\ \A k \in 1..(m + 1) : k \in 1..m \/ k = m + 1
      /\ \A k \in 1..m : k \in 1..(m + 1)
      /\ m + 1 \in 1..(m + 1)
  BY <1>1
<1> HIDE DEF u, m
<1>4. Range(u) = Range(s) \cup {x}
  BY <1>1, <1>2, <1>3 DEF Range
<1>5. Distinct(u)
  BY <1>1, <1>2, <1>3 DEF Distinct, Range
<1>6. QED
  BY <1>2, <1>4, <1>5 DEF u

(* The next wave taken up, what is left stays planned.                     *)
LEMMA WaveTakes ==
    ASSUME NEW T, NEW ws \in Seq(Seq(Ids)), ws # <<>>, Planned(T, ws)
    PROVE  /\ Head(ws) \in Seq(Ids) /\ Tail(ws) \in Seq(Seq(Ids))
           /\ Distinct(Head(ws)) /\ Range(Head(ws)) \cap T = {}
           /\ \A i \in Range(Head(ws)) : Of(i).needs \subseteq T
           /\ Planned(T \cup Range(Head(ws)), Tail(ws))
<1> DEFINE h == Head(ws)  t == Tail(ws)  L == Len(ws)
<1>1. /\ L \in Nat \ {0} /\ DOMAIN ws = 1..L /\ 1 \in DOMAIN ws
      /\ h = ws[1] /\ h \in Seq(Ids)
  OBVIOUS
<1>2. /\ t \in Seq(Seq(Ids)) /\ DOMAIN t = 1..(L - 1)
      /\ \A k \in 1..(L - 1) : t[k] = ws[k + 1]
  OBVIOUS
<1>3. \A k \in DOMAIN t : k + 1 \in DOMAIN ws /\ 1 < k + 1 /\ t[k] = ws[k + 1]
  BY <1>1, <1>2
<1>4. \A k \in DOMAIN ws : k = 1 \/ (k - 1 \in DOMAIN t /\ t[k - 1] = ws[k])
  BY <1>1, <1>2
<1> HIDE DEF h, t, L
<1>5. Distinct(h) /\ Range(h) \cap T = {}
  BY <1>1 DEF Planned
<1>6. \A i \in Range(h) : Of(i).needs \subseteq T
  <2>1. UNION {Range(ws[m]) : m \in 1..(1 - 1)} = {}
    OBVIOUS
  <2>2. QED
    BY <1>1, <2>1 DEF Planned
<1>7. /\ \A n \in DOMAIN t : Distinct(t[n])
      /\ \A n \in DOMAIN t : Range(t[n]) \cap (T \cup Range(h)) = {}
  BY <1>1, <1>3 DEF Planned
<1>8. \A m, n \in DOMAIN t : m < n => Range(t[m]) \cap Range(t[n]) = {}
  <2> SUFFICES ASSUME NEW m \in DOMAIN t, NEW n \in DOMAIN t, m < n
               PROVE  Range(t[m]) \cap Range(t[n]) = {}
    OBVIOUS
  <2>1. m + 1 < n + 1
    BY <1>1, <1>2
  <2>2. QED
    BY <1>3, <2>1 DEF Planned
<1>9. Ids = (T \cup Range(h)) \cup UNION {Range(t[n]) : n \in DOMAIN t}
  <2>1. UNION {Range(ws[n]) : n \in DOMAIN ws}
           = Range(h) \cup UNION {Range(t[n]) : n \in DOMAIN t}
    <3>1. \A n \in DOMAIN ws : \/ ws[n] = h
                              \/ \E k \in DOMAIN t : ws[n] = t[k]
      BY <1>1, <1>4
    <3>2. \A k \in DOMAIN t : \E n \in DOMAIN ws : ws[n] = t[k]
      BY <1>3
    <3>3. \E n \in DOMAIN ws : ws[n] = h
      BY <1>1
    <3>4. QED
      BY <3>1, <3>2, <3>3
  <2>2. QED
    BY <2>1 DEF Planned
<1>10. \A n \in DOMAIN t : \A i \in Range(t[n]) :
          Of(i).needs \subseteq (T \cup Range(h))
                                \cup UNION {Range(t[m]) : m \in 1..(n - 1)}
  <2> SUFFICES ASSUME NEW n \in DOMAIN t, NEW i \in Range(t[n])
               PROVE  Of(i).needs \subseteq (T \cup Range(h))
                              \cup UNION {Range(t[m]) : m \in 1..(n - 1)}
    OBVIOUS
  <2>1. Of(i).needs
          \subseteq T \cup UNION {Range(ws[m]) : m \in 1..((n + 1) - 1)}
    BY <1>3 DEF Planned
  <2>2. \A m \in 1..((n + 1) - 1) :
           m = 1 \/ (m - 1 \in 1..(n - 1) /\ m \in DOMAIN ws)
    <3>1. n \in 1..(L - 1) /\ L \in Nat \ {0} /\ DOMAIN ws = 1..L
      BY <1>1, <1>2
    <3>2. \A m \in 1..n : m = 1 \/ m - 1 \in 1..(n - 1)
      BY <3>1
    <3>3. \A m \in 1..n : m \in 1..L
      BY <3>1
    <3>4. (n + 1) - 1 = n
      BY <3>1
    <3>5. QED
      BY <3>1, <3>2, <3>3, <3>4
  <2>3. UNION {Range(ws[m]) : m \in 1..((n + 1) - 1)}
          \subseteq Range(h) \cup UNION {Range(t[m]) : m \in 1..(n - 1)}
    <3>1. \A m \in 1..((n + 1) - 1) :
             ws[m] = h \/ \E k \in 1..(n - 1) : ws[m] = t[k]
      BY <1>1, <1>4, <2>2
    <3>2. QED
      BY <3>1
  <2>4. QED
    BY <2>1, <2>3
<1>11. Planned(T \cup Range(h), t)
  BY <1>7, <1>8, <1>9, <1>10 DEF Planned
<1>12. QED
  BY <1>1, <1>2, <1>5, <1>6, <1>11 DEF h, t

-----------------------------------------------------------------------------
(* The plan is the caller's throughout.                                    *)

LEMMA PlanKept ==
    ASSUME [Next]_vars
    PROVE  /\ plan' = plan /\ Ids' = Ids /\ \A i : Of(i)' = Of(i)
           /\ ValidPlan' <=> ValidPlan
           /\ Affordable' <=> Affordable
           /\ \A T, ws : Planned(T, ws)' <=> Planned(T, ws)
<1>1. plan' = plan
  <2>1. CASE Works
    BY <2>1 DEF Works, Validate, BoundCost, NextWave, NextBatch, Skip, Start,
                Collect, EndBatch, Report
  <2>2. CASE Tick
    BY <2>2 DEF Tick
  <2>3. CASE \E i \in Ids : RuntimeEnds(i) \/ Others(i)
    BY <2>3 DEF RuntimeEnds, Others, council
  <2>4. CASE UNCHANGED vars
    BY <2>4 DEF vars, council
  <2>5. QED
    BY <2>1, <2>2, <2>3, <2>4 DEF Next
<1>2. Ids' = Ids
  BY <1>1 DEF Ids
<1>3. \A i : Of(i)' = Of(i)
  BY <1>1 DEF Of
<1>4. ValidPlan' <=> ValidPlan
  BY <1>1, <1>2, <1>3 DEF ValidPlan, Acyclic, Follows, SelfCritique
<1>5. Affordable' <=> Affordable
  BY <1>1 DEF Affordable, Costs, Bound
<1>6. ASSUME NEW T, NEW ws
      PROVE  Planned(T, ws)' <=> Planned(T, ws)
  BY <1>2, <1>3 DEF Planned
<1>7. QED
  BY <1>1, <1>2, <1>3, <1>4, <1>5, <1>6

(* Types.                                                                  *)

LEMMA InitTyped ==
    ASSUME Assumed, Init
    PROVE  TypeOK
<1>1. plan \in Plan /\ 0 \in 0..MaxTicks
  BY DEF Assumed, Init
<1>2. plan.concurrency \in Nat \ {0}
  BY <1>1 DEF Plan
<1>3. QED
  BY <1>1, <1>2 DEF Init, TypeOK

LEMMA TypeStep ==
    ASSUME Assumed, TypeOK, PlanInv, LoopInv, [Next]_vars
    PROVE  TypeOK'
<1> DEFINE Outcome == [id : Ids, state : TaskState \cup {"error"}]
<1>1. plan' = plan /\ Ids' = Ids
  BY PlanKept
<1>2. plan \in Plan /\ MaxTicks \in Nat /\ plan.concurrency \in Nat \ {0}
  BY DEF TypeOK, Assumed, Plan
<1>3. /\ waves \in Seq(Seq(Ids)) /\ wave \in Seq(Ids) /\ batch \in Seq(Ids)
      /\ Len(batch) <= plan.concurrency /\ stage \in Ids \cup {NoStage}
      /\ outcomes \in Seq(Outcome) /\ skipped \in Seq(Ids)
  BY DEF TypeOK
<1>4. ASSUME batch # <<>>
      PROVE  /\ Head(batch) \in Ids /\ Tail(batch) \in Seq(Ids)
             /\ Len(Tail(batch)) <= plan.concurrency
  <2>1. /\ Head(batch) \in Ids /\ Tail(batch) \in Seq(Ids)
        /\ Len(Tail(batch)) = Len(batch) - 1 /\ Len(batch) \in Nat
    BY <1>3, <1>4
  <2>2. QED
    BY <1>2, <1>3, <2>1
<1>5. ASSUME NEW i \in Ids, NEW to \in TaskState \cup {"error"}, Records(i, to)
      PROVE  outcomes' \in Seq(Outcome)
  <2>1. [id |-> i, state |-> to] \in Outcome
    OBVIOUS
  <2> HIDE DEF Outcome
  <2>2. QED
    BY <1>3, <1>5, <2>1 DEF Records
<1>6. /\ {"rejected", "failed", "running", "succeeded", "cancelled",
          "recovery_required"} \subseteq TaskState
      /\ TerminalState \subseteq TaskState
  BY DEF TaskState, TerminalState
<1> HIDE DEF Outcome
<1>7. SUFFICES
        /\ point' \in {"validate", "cost", "wave", "batch", "run", "done"}
        /\ waves' \in Seq(Seq(Ids)) /\ wave' \in Seq(Ids) /\ batch' \in Seq(Ids)
        /\ Len(batch') <= plan.concurrency /\ stage' \in Ids \cup {NoStage}
        /\ clock' \in 0..MaxTicks
        /\ task' \in [StageId -> TaskState \cup {"absent"}]
        /\ process' \in [StageId -> {"none", "alive", "done", "broken"}]
        /\ outcomes' \in Seq(Outcome) /\ skipped' \in Seq(Ids)
        /\ answer' \in {"none", "raised", "rejected", "completed", "with_skips"}
  BY <1>1 DEF TypeOK, Outcome
<1>8. CASE Validate
  BY <1>3, <1>8 DEF Validate, Returns, broker, TypeOK
<1>9. CASE BoundCost
  <2>1. ValidPlan /\ plan \in Plans
    BY <1>9 DEF BoundCost, PlanInv, TypeOK
  <2>2. Waves \in Seq(Seq(Ids))
    BY <2>1, WavesFacts
  <2>3. QED
    BY <1>3, <1>9, <2>2 DEF BoundCost, Returns, broker, TypeOK
<1>10. CASE NextWave
  <2>1. Head(waves) \in Seq(Ids) /\ Tail(waves) \in Seq(Seq(Ids))
    BY <1>3, <1>10 DEF NextWave
  <2>2. skipped \o Head(waves) \in Seq(Ids)
    BY <1>3, <2>1
  <2>3. QED
    BY <1>3, <1>10, <2>1, <2>2 DEF NextWave, broker, TypeOK
<1>11. CASE NextBatch
  <2>1. CASE wave = <<>>
    BY <1>3, <1>11, <2>1 DEF NextBatch, broker, TypeOK
  <2>2. CASE wave # <<>>
    <3> DEFINE size == Least(plan.concurrency, Len(wave))
    <3>1. Len(wave) \in Nat \ {0} /\ \A k \in 1..Len(wave) : wave[k] \in Ids
      BY <1>3, <2>2
    <3>2. size \in 0..Len(wave) /\ size <= plan.concurrency
      BY <1>2, <3>1 DEF Least
    <3> HIDE DEF size
    <3>3. /\ SubSeq(wave, 1, size) \in Seq(Ids)
          /\ Len(SubSeq(wave, 1, size)) = size
          /\ SubSeq(wave, size + 1, Len(wave)) \in Seq(Ids)
      BY <1>3, <3>1, <3>2, SubSeqProperties
    <3>4. /\ batch' = SubSeq(wave, 1, size) /\ wave' = Rest(size)
          /\ point' = "run"
          /\ UNCHANGED <<waves, stage, clock, outcomes, skipped, answer,
                         broker>>
      BY <1>11, <2>2 DEF NextBatch, size
    <3>5. QED
      BY <1>3, <3>2, <3>3, <3>4 DEF Rest, broker, TypeOK
  <2>3. QED
    BY <2>1, <2>2
<1>12. CASE EndBatch
  BY <1>3, <1>12 DEF EndBatch, broker, TypeOK
<1>13. CASE Skip
  <2>1. Append(skipped, Head(batch)) \in Seq(Ids)
    BY <1>3, <1>4, <1>13 DEF Skip
  <2>2. QED
    BY <1>3, <1>4, <1>13, <2>1 DEF Skip, broker, TypeOK
<1>14. CASE Start
  <2> DEFINE i == Head(batch)
  <2>1. i \in Ids /\ Tail(batch) \in Seq(Ids)
        /\ Len(Tail(batch)) <= plan.concurrency
    BY <1>4, <1>14 DEF Start
  <2>2. UNCHANGED <<point, waves, wave, clock, skipped, answer>>
    BY <1>14 DEF Start
  <2>3. /\ task' \in [StageId -> TaskState \cup {"absent"}]
        /\ process' \in [StageId -> {"none", "alive", "done", "broken"}]
    BY <1>6, <1>14 DEF Start, broker, TypeOK
  <2>4. /\ stage' \in Ids \cup {NoStage}
        /\ batch' \in Seq(Ids) /\ Len(batch') <= plan.concurrency
    BY <1>3, <1>14, <2>1 DEF Start
  <2>5. outcomes' = outcomes \/ Records(i, "error")
    BY <1>14 DEF Start
  <2> HIDE DEF i
  <2>6. outcomes' \in Seq(Outcome)
    BY <1>3, <1>5, <2>1, <2>5
  <2>7. QED
    BY <1>3, <2>2, <2>3, <2>4, <2>6 DEF TypeOK
<1>15. CASE Collect
  <2>1. stage \in Ids /\ batch # <<>> /\ stage \in StageId
    BY <1>3, <1>15, IdsFacts DEF Collect, LoopInv, TypeOK
  <2>2. /\ UNCHANGED <<point, waves, wave, clock, skipped, answer, process>>
        /\ stage' = NoStage /\ batch' = Tail(batch)
    BY <1>15 DEF Collect
  <2>3. task' \in [StageId -> TaskState \cup {"absent"}]
    BY <1>6, <1>15 DEF Collect, Verdict, TypeOK
  <2>4. \E to \in TaskState \cup {"error"} : Records(stage, to)
    <3>1. task[stage] # "absent" => task[stage] \in TaskState
      BY <2>1 DEF TypeOK
    <3>2. CASE /\ task' = [task EXCEPT ![stage] = Verdict(stage)]
               /\ Records(stage, Evidence(stage))
      <4>1. Evidence(stage) \in {"succeeded", "failed"}
        BY <2>1, <3>2 DEF Evidence, Verdict, TypeOK
      <4>2. QED
        BY <1>6, <3>2, <4>1
    <3>3. CASE /\ task' = task
               /\ Records(stage, Evidence(stage)) \/ Records(stage, "error")
               /\ task[stage] \in TaskState
      BY <3>3 DEF Evidence
    <3>4. QED
      BY <1>6, <1>15, <3>2, <3>3 DEF Collect
  <2>5. outcomes' \in Seq(Outcome)
    BY <1>5, <2>1, <2>4
  <2>6. QED
    BY <1>3, <1>4, <2>1, <2>2, <2>3, <2>5 DEF TypeOK
<1>16. CASE Report
  BY <1>3, <1>16 DEF Report, Returns, broker, TypeOK
<1>17. CASE Tick
  BY <1>2, <1>3, <1>17 DEF Tick, broker, TypeOK
<1>18. CASE \E i \in Ids : RuntimeEnds(i)
  BY <1>3, <1>18 DEF RuntimeEnds, council, TypeOK
<1>19. CASE \E i \in Ids : Others(i)
  <2>1. /\ UNCHANGED council
        /\ \E i \in Ids :
              /\ \E to \in {"cancelled", "recovery_required"} :
                    task' = [task EXCEPT ![i] = to]
              /\ \/ process' = process
                 \/ process' = [process EXCEPT ![i] = IF @ = "alive"
                                                      THEN "broken" ELSE @]
    BY <1>19 DEF Others
  <2>2. task' \in [StageId -> TaskState \cup {"absent"}]
    <3>1. \E i \in Ids, to \in TaskState : task' = [task EXCEPT ![i] = to]
      BY <1>6, <2>1
    <3>2. task \in [StageId -> TaskState \cup {"absent"}]
      BY DEF TypeOK
    <3>3. QED
      BY <3>1, <3>2
  <2>3. process' \in [StageId -> {"none", "alive", "done", "broken"}]
    <3> DEFINE Runtime == {"none", "alive", "done", "broken"}
    <3>1. process \in [StageId -> Runtime] /\ "broken" \in Runtime
      BY DEF TypeOK
    <3> HIDE DEF Runtime
    <3>2. Ids \subseteq StageId
      BY IdsFacts DEF TypeOK
    <3>3. PICK i \in Ids :
             \/ process' = process
             \/ process' = [process EXCEPT ![i] = IF process[i] = "alive"
                                                  THEN "broken"
                                                  ELSE process[i]]
      BY <2>1
    <3>4. \E how \in Runtime : \/ process' = process
                               \/ process' = [process EXCEPT ![i] = how]
      <4>1. process[i] \in Runtime
        BY <3>1, <3>2
      <4>2. QED
        BY <3>1, <3>3, <4>1
    <3>5. process' \in [StageId -> Runtime]
      BY <3>1, <3>4
    <3>6. QED
      BY <3>5 DEF Runtime
  <2>4. QED
    BY <1>3, <2>1, <2>2, <2>3 DEF council, TypeOK
<1>20. CASE UNCHANGED vars
  BY <1>3, <1>20 DEF vars, council, broker, TypeOK
<1>21. QED
  BY <1>8, <1>9, <1>10, <1>11, <1>12, <1>13, <1>14, <1>15, <1>16, <1>17, <1>18,
     <1>19, <1>20 DEF Next, Works

-----------------------------------------------------------------------------
(* The checks before the first stage, and the place in the loops.          *)

LEMMA PlanStep ==
    ASSUME Assumed, TypeOK, PlanInv, [Next]_vars
    PROVE  PlanInv'
<1>1. /\ plan' = plan /\ (ValidPlan' <=> ValidPlan)
      /\ (Affordable' <=> Affordable)
  BY PlanKept
<1>2. Ids \subseteq StageId
  BY IdsFacts DEF TypeOK
<1> DEFINE Bare == /\ \A i \in StageId : task[i] = "absent"
                   /\ waves = <<>> /\ outcomes = <<>> /\ skipped = <<>>
<1>3. SUFFICES /\ answer' = "none" <=> point' # "done"
               /\ point' = "cost" => ValidPlan
               /\ Underway' => ValidPlan /\ (plan.cost = 0 \/ Affordable)
               /\ ~Underway' => Bare'
  BY <1>1 DEF PlanInv
<1>4. /\ answer = "none" <=> point # "done"
      /\ point = "cost" => ValidPlan
      /\ Underway => ValidPlan /\ (plan.cost = 0 \/ Affordable)
      /\ ~Underway => Bare
  BY DEF PlanInv
<1> HIDE DEF Bare
<1>5. CASE Validate
  <2>1. /\ point = "validate" /\ answer = "none" /\ ~Underway
        /\ Bare' = Bare
    BY <1>4, <1>5 DEF Validate, Underway, broker, Bare
  <2>2. QED
    BY <1>4, <1>5, <2>1 DEF Validate, Returns, Underway
<1>6. CASE BoundCost
  <2>1. point = "cost" /\ answer = "none" /\ ~Underway /\ ValidPlan
    BY <1>4, <1>6 DEF BoundCost, Underway
  <2>2. CASE /\ plan.cost = 0 \/ Affordable
             /\ point' = "wave" /\ answer' = answer
    BY <2>1, <2>2 DEF Underway
  <2>3. CASE Returns("rejected") /\ UNCHANGED waves
    <3>1. Bare' = Bare
      BY <1>6, <2>3 DEF BoundCost, broker, Bare
    <3>2. QED
      BY <1>4, <2>1, <2>3, <3>1 DEF Returns, Underway
  <2>4. QED
    BY <1>6, <2>2, <2>3 DEF BoundCost
<1>7. CASE NextWave \/ NextBatch \/ Skip \/ Start \/ Collect \/ EndBatch
  <2>1. /\ point \in {"wave", "batch", "run"}
        /\ point' \in {"wave", "batch", "run"}
        /\ answer' = answer
    BY <1>7 DEF NextWave, NextBatch, Skip, Start, Collect, EndBatch
  <2>2. QED
    BY <1>4, <2>1 DEF Underway
<1>8. CASE Report
  <2>1. /\ point = "wave" /\ point' = "done"
        /\ answer' \in {"completed", "with_skips"}
    BY <1>8 DEF Report, Returns
  <2>2. QED
    BY <1>4, <2>1 DEF Underway
<1>9. CASE UNCHANGED council
  <2>1. CASE Underway
    BY <1>4, <1>9, <2>1 DEF council, Underway
  <2>2. CASE ~Underway
    <3>1. task' = task
      <4>1. CASE \E i \in Ids : Others(i)
        <5>1. PICK i \in Ids : task[i] = "running"
          BY <4>1 DEF Others
        <5>2. QED
          BY <1>2, <1>4, <2>2, <5>1 DEF Bare
      <4>2. CASE \E i \in Ids : RuntimeEnds(i)
        BY <4>2 DEF RuntimeEnds
      <4>3. CASE UNCHANGED vars
        BY <4>3 DEF vars, broker
      <4>4. CASE Works \/ Tick
        <5>1. point' = point /\ clock' = clock /\ stage' = stage
              /\ answer' = answer /\ waves' = waves
          BY <1>9 DEF council
        <5>2. point \notin {"wave", "batch", "run"}
          BY <2>2 DEF Underway
        <5>3. QED
          BY <4>4, <5>1, <5>2 DEF Works, Tick, Validate, BoundCost, NextWave,
             NextBatch, Skip, Start, Collect, EndBatch, Report, Returns, broker
      <4>5. QED
        BY <4>1, <4>2, <4>3, <4>4 DEF Next
    <3>2. Bare' = Bare
      BY <1>9, <3>1 DEF council, Bare
    <3>3. QED
      BY <1>4, <1>9, <2>2, <3>2 DEF council, Underway
  <2>3. QED
    BY <2>1, <2>2
<1>10. CASE Tick
  <2>1. point \in {"wave", "batch", "run"}
    BY <1>10 DEF Tick, TypeOK
  <2>2. QED
    BY <1>4, <1>10, <2>1 DEF Tick, Underway
<1>11. QED
  <2>1. Works => \/ Validate \/ BoundCost \/ Report
                 \/ NextWave \/ NextBatch \/ Skip \/ Start \/ Collect
                 \/ EndBatch
    BY DEF Works
  <2>2. (\E i \in Ids : RuntimeEnds(i) \/ Others(i)) => UNCHANGED council
    BY DEF RuntimeEnds, Others
  <2>3. UNCHANGED vars => UNCHANGED council
    BY DEF vars
  <2>4. QED
    BY <1>5, <1>6, <1>7, <1>8, <1>9, <1>10, <2>1, <2>2, <2>3 DEF Next

LEMMA LoopStep ==
    ASSUME Assumed, TypeOK, PlanInv, LoopInv, [Next]_vars
    PROVE  LoopInv'
<1>1. plan' = plan
  BY PlanKept
<1>2. clock \in Nat /\ plan.time \in Nat
  BY DEF TypeOK, Assumed, Plan
<1>3. NoStage \notin Ids
  BY IdsFacts DEF TypeOK, NoStage
<1>4. CASE Validate \/ BoundCost
  <2>1. /\ point \in {"validate", "cost"} /\ point' \in {"cost", "wave", "done"}
        /\ point' = "done" => waves' = waves
        /\ UNCHANGED <<wave, batch, stage, skipped, clock>>
    BY <1>4 DEF Validate, BoundCost, Returns
  <2>2. /\ waves = <<>> /\ skipped = <<>> /\ wave = <<>> /\ batch = <<>>
        /\ stage = NoStage
    BY <2>1 DEF PlanInv, LoopInv, Underway
  <2>3. QED
    BY <2>1, <2>2 DEF LoopInv, Exhausted
<1>5. CASE NextWave
  <2>1. /\ point = "wave" /\ point' \in {"wave", "batch"}
        /\ point' = "wave" => wave' = wave /\ Exhausted
        /\ ~Exhausted => skipped' = skipped
        /\ UNCHANGED <<batch, stage, clock>>
    BY <1>5 DEF NextWave
  <2>2. QED
    BY <1>1, <2>1 DEF LoopInv, Exhausted
<1>6. CASE NextBatch
  <2>1. /\ point = "batch" /\ point' \in {"wave", "run"}
        /\ point' = "wave" => wave' = <<>> /\ batch' = batch
        /\ UNCHANGED <<stage, clock, skipped>>
    BY <1>6 DEF NextBatch
  <2>2. QED
    BY <1>1, <2>1 DEF LoopInv, Exhausted
<1>7. CASE EndBatch
  BY <1>1, <1>7 DEF EndBatch, LoopInv, Exhausted
<1>8. CASE Skip
  BY <1>1, <1>2, <1>8 DEF Skip, LoopInv, Exhausted
<1>9. CASE Start
  <2>1. /\ point = "run" /\ point' = "run" /\ stage = NoStage /\ batch # <<>>
        /\ ~(clock >= plan.time) /\ UNCHANGED <<clock, skipped>>
        /\ stage' = NoStage \/ (stage' = Head(batch) /\ batch' = batch)
    BY <1>2, <1>9 DEF Start
  <2>2. QED
    BY <1>1, <2>1 DEF LoopInv, Exhausted
<1>10. CASE Collect
  BY <1>1, <1>10 DEF Collect, LoopInv, Exhausted
<1>11. CASE Report
  BY <1>1, <1>11 DEF Report, Returns, LoopInv, Exhausted
<1>12. CASE Tick
  BY <1>1, <1>2, <1>12 DEF Tick, LoopInv, Exhausted
<1>13. CASE UNCHANGED council
  BY <1>1, <1>13 DEF council, LoopInv, Exhausted
<1>14. QED
  <2>1. (\E i \in Ids : RuntimeEnds(i) \/ Others(i)) => UNCHANGED council
    BY DEF RuntimeEnds, Others
  <2>2. UNCHANGED vars => UNCHANGED council
    BY DEF vars
  <2>3. QED
    BY <1>4, <1>5, <1>6, <1>7, <1>8, <1>9, <1>10, <1>11, <1>12, <1>13, <2>1,
       <2>2 DEF Next, Works

-----------------------------------------------------------------------------
(* What is reported, what is in hand, and what is still to come.           *)

Ahead == Planned(Handled \cup Line, waves)

Books == LineInv /\ HandledInv /\ (Underway => Ahead)

LEMMA HandledIs == Handled = RunIds \cup Range(skipped)
  BY DEF Handled, RunIds, Range

(* A step that leaves the three as they are.                               *)
LEMMA BooksKept ==
    ASSUME [Next]_vars, Books, Underway' => Underway,
           UNCHANGED <<waves, wave, batch, outcomes, skipped>>
    PROVE  Books'
<1>1. /\ Ids' = Ids /\ \A i : Of(i)' = Of(i)
      /\ \A T, ws : Planned(T, ws)' <=> Planned(T, ws)
  BY PlanKept
<1>2. /\ Handled' = Handled /\ Line' = Line /\ RunIds' = RunIds
      /\ Range(skipped') = Range(skipped)
  BY DEF Handled, Line, RunIds
<1>3. LineInv'
  BY <1>1, <1>2 DEF Books, LineInv, Distinct
<1>4. HandledInv'
  BY <1>1, <1>2 DEF Books, HandledInv, Distinct
<1>5. Underway' => Ahead'
  BY <1>1, <1>2 DEF Books, Ahead
<1>6. QED
  BY <1>3, <1>4, <1>5 DEF Books

(* The head of the batch is dealt with.                                    *)
LEMMA HeadLeaves ==
    ASSUME [Next]_vars, TypeOK, LineInv, Ahead,
           batch # <<>>, batch' = Tail(batch), UNCHANGED <<waves, wave>>,
           Handled' = Handled \cup {Head(batch)}
    PROVE  /\ LineInv' /\ Ahead'
           /\ Head(batch) \notin Handled /\ Head(batch) \in Ids
           /\ Of(Head(batch)).needs \subseteq Handled
<1> DEFINE h == Head(batch)
<1>1. \A i : Of(i)' = Of(i)
  BY PlanKept
<1>2. \A T, ws : Planned(T, ws)' <=> Planned(T, ws)
  BY PlanKept
<1>3. /\ h \in Ids /\ Distinct(batch') /\ h \notin Range(batch')
      /\ Range(batch) = {h} \cup Range(batch')
  BY TailTakes DEF TypeOK, LineInv
<1> HIDE DEF h
<1>4. /\ Distinct(wave) /\ Range(batch) \cap Range(wave) = {}
      /\ Line = Range(batch) \cup Range(wave) /\ Line \cap Handled = {}
      /\ \A i \in Line : Of(i).needs \subseteq Handled
  BY DEF LineInv, Line
<1>5. Line' = Range(batch') \cup Range(wave) /\ Handled' = Handled \cup {h}
  BY DEF Line, h
<1>6. h \notin Handled /\ Of(h).needs \subseteq Handled
  BY <1>3, <1>4
<1>7. /\ Distinct(wave') /\ Range(batch') \cap Range(wave') = {}
      /\ Line' \cap Handled' = {}
  BY <1>3, <1>4, <1>5
<1>8. \A i \in Line' : Of(i)'.needs \subseteq Handled'
  BY <1>1, <1>3, <1>4, <1>5
<1>9. LineInv'
  BY <1>1, <1>3, <1>7, <1>8 DEF LineInv, Distinct
<1>10. Handled' \cup Line' = Handled \cup Line
  BY <1>3, <1>4, <1>5
<1>11. Ahead'
  BY <1>2, <1>10 DEF Ahead
<1>12. QED
  BY <1>3, <1>6, <1>9, <1>11 DEF h

(* An outcome is recorded for it.                                          *)
LEMMA OutcomeStep ==
    ASSUME [Next]_vars, TypeOK, Books, Underway, NEW x,
           batch # <<>>, batch' = Tail(batch),
           UNCHANGED <<waves, wave, skipped>>, skipped = <<>>,
           Records(Head(batch), x)
    PROVE  Books'
<1> DEFINE h == Head(batch)  m == Len(outcomes)
<1>1. \A i : Of(i)' = Of(i)
  BY PlanKept
<1>2. m \in Nat /\ DOMAIN outcomes = 1..m
  BY DEF TypeOK
<1>3. /\ outcomes' = Append(outcomes, [id |-> h, state |-> x])
      /\ DOMAIN outcomes' = 1..(m + 1)
      /\ outcomes'[m + 1].id = h
      /\ \A k \in 1..m : outcomes'[k] = outcomes[k]
  <2>1. outcomes' = Append(outcomes, [id |-> h, state |-> x])
    BY DEF Records
  <2>2. /\ DOMAIN Append(outcomes, [id |-> h, state |-> x]) = 1..(m + 1)
        /\ Append(outcomes, [id |-> h, state |-> x])[m + 1]
              = [id |-> h, state |-> x]
        /\ \A k \in 1..m :
              Append(outcomes, [id |-> h, state |-> x])[k] = outcomes[k]
    BY <1>2 DEF TypeOK
  <2>3. QED
    BY <2>1, <2>2
<1>4. /\ \A k \in 1..(m + 1) : k \in 1..m \/ k = m + 1
      /\ \A k \in 1..m : k \in 1..(m + 1) /\ k # m + 1
      /\ m + 1 \in 1..(m + 1) /\ (m + 1) - 1 = m
      /\ \A k \in 1..m : \A l \in 1..(k - 1) : l \in 1..m
  BY <1>2
<1> HIDE DEF m, h
<1>5. RunIds' = RunIds \cup {h}
  BY <1>2, <1>3, <1>4 DEF RunIds
<1>6. /\ Range(skipped) = {} /\ Range(skipped') = {} /\ Handled = RunIds
      /\ Handled' = Handled \cup {h}
  <2>1. Range(skipped) = {} /\ Range(skipped') = {}
    BY DEF Range
  <2>2. Handled = RunIds \cup Range(skipped)
    BY HandledIs
  <2>3. Handled' = RunIds' \cup Range(skipped')
    BY DEF Handled, RunIds, Range
  <2>4. QED
    BY <1>5, <2>1, <2>2, <2>3
<1>7. LineInv' /\ Ahead' /\ h \notin Handled /\ Of(h).needs \subseteq Handled
  BY <1>6, HeadLeaves DEF Books, h
<1>8. /\ \A j, k \in DOMAIN outcomes : j # k => outcomes[j].id # outcomes[k].id
      /\ \A k \in DOMAIN outcomes : Of(outcomes[k].id).needs
            \subseteq {outcomes[l].id : l \in 1..(k - 1)}
  BY DEF Books, HandledInv
<1>9. \A k \in 1..m : outcomes[k].id # h
  BY <1>2, <1>6, <1>7 DEF RunIds
<1>10. \A j, k \in DOMAIN outcomes' : j # k => outcomes'[j].id # outcomes'[k].id
  BY <1>2, <1>3, <1>4, <1>8, <1>9
<1>11. ASSUME NEW k \in DOMAIN outcomes'
       PROVE  Of(outcomes'[k].id).needs
                 \subseteq {outcomes'[l].id : l \in 1..(k - 1)}
  <2>1. CASE k = m + 1
    <3>1. {outcomes'[l].id : l \in 1..(k - 1)} = RunIds
      BY <1>2, <1>3, <1>4, <2>1 DEF RunIds
    <3>2. outcomes'[k].id = h
      BY <1>3, <2>1
    <3>3. QED
      BY <1>6, <1>7, <3>1, <3>2
  <2>2. CASE k \in 1..m
    <3>1. {outcomes'[l].id : l \in 1..(k - 1)}
             = {outcomes[l].id : l \in 1..(k - 1)}
      BY <1>3, <1>4, <2>2
    <3>2. outcomes'[k].id = outcomes[k].id
      BY <1>3, <2>2
    <3>3. QED
      BY <1>2, <1>8, <2>2, <3>1, <3>2
  <2>3. QED
    BY <1>3, <1>4, <2>1, <2>2
<1>12. Distinct(skipped)' /\ (RunIds \cap Range(skipped))' = {}
  <2>1. Distinct(skipped')
    BY DEF Distinct
  <2>2. QED
    BY <1>6, <2>1 DEF Distinct
<1>13. HandledInv'
  <2>1. ASSUME NEW k \in DOMAIN outcomes'
        PROVE  (Of(outcomes[k].id).needs
                   \subseteq {outcomes[l].id : l \in 1..(k - 1)})'
    <3>1. Of(outcomes[k].id)' = Of(outcomes'[k].id)
      BY <1>1
    <3>2. QED
      BY <1>11, <3>1
  <2>2. QED
    BY <1>10, <1>12, <2>1 DEF HandledInv
<1>14. QED
  BY <1>7, <1>13 DEF Books

(* It is skipped.                                                          *)
LEMMA SkipStep ==
    ASSUME [Next]_vars, TypeOK, Books, Skip
    PROVE  Books'
<1> DEFINE h == Head(batch)
<1>1. \A i : Of(i)' = Of(i)
  BY PlanKept
<1>2. /\ batch # <<>> /\ batch' = Tail(batch)
      /\ UNCHANGED <<waves, wave, outcomes>>
      /\ skipped' = Append(skipped, h) /\ Underway
  BY DEF Skip, Underway
<1>3. h \in Ids /\ h \in Range(batch)
  BY <1>2, TailTakes DEF TypeOK, Books, LineInv
<1> HIDE DEF h
<1>4. h \notin Handled /\ Handled = RunIds \cup Range(skipped)
  BY <1>3, HandledIs DEF Books, LineInv, Line
<1>5. Distinct(skipped') /\ Range(skipped') = Range(skipped) \cup {h}
  BY <1>2, <1>3, <1>4, AppendAdds DEF TypeOK, Books, HandledInv
<1>6. RunIds' = RunIds
  BY <1>2 DEF RunIds
<1>7. Handled' = RunIds' \cup Range(skipped')
  BY DEF Handled, RunIds, Range
<1>8. Handled' = Handled \cup {h}
  BY <1>4, <1>5, <1>6, <1>7
<1>9. LineInv' /\ Ahead'
  BY <1>2, <1>8, HeadLeaves DEF Books, h
<1>10. /\ \A j, k \in DOMAIN outcomes : j # k => outcomes[j].id # outcomes[k].id
       /\ RunIds \cap Range(skipped) = {}
       /\ \A k \in DOMAIN outcomes : Of(outcomes[k].id).needs
             \subseteq {outcomes[l].id : l \in 1..(k - 1)}
  BY DEF Books, HandledInv
<1>11. RunIds' \cap Range(skipped') = {}
  BY <1>4, <1>5, <1>6, <1>10
<1>12. HandledInv'
  <2>1. ASSUME NEW k \in DOMAIN outcomes'
        PROVE  (Of(outcomes[k].id).needs
                   \subseteq {outcomes[l].id : l \in 1..(k - 1)})'
    <3>1. Of(outcomes[k].id)' = Of(outcomes[k].id)
      BY <1>1, <1>2
    <3>2. Of(outcomes[k].id).needs \subseteq {outcomes[l].id : l \in 1..(k - 1)}
      BY <1>2, <1>10, <2>1
    <3>3. outcomes' = outcomes
      BY <1>2
    <3>4. QED
      BY <3>1, <3>2, <3>3
  <2>2. Distinct(skipped)'
    BY <1>5 DEF Distinct
  <2>3. QED
    BY <1>2, <1>10, <1>11, <2>1, <2>2 DEF HandledInv
<1>13. QED
  BY <1>9, <1>12 DEF Books

(* The next wave is taken up, or skipped.                                  *)
LEMMA WaveStep ==
    ASSUME [Next]_vars, TypeOK, LoopInv, Books, NextWave
    PROVE  Books'
<1> DEFINE h == Head(waves)
<1>1. /\ \A i : Of(i)' = Of(i)
      /\ \A T, ws : Planned(T, ws)' <=> Planned(T, ws)
  BY PlanKept
<1>2. /\ wave = <<>> /\ batch = <<>> /\ Line = {} /\ Underway
      /\ waves # <<>> /\ waves' = Tail(waves) /\ batch' = batch
      /\ outcomes' = outcomes
  BY DEF NextWave, LoopInv, Line, Range, Underway
<1>3. Planned(Handled, waves)
  BY <1>2 DEF Books, Ahead
<1>4. /\ h \in Seq(Ids) /\ Distinct(h) /\ Range(h) \cap Handled = {}
      /\ \A i \in Range(h) : Of(i).needs \subseteq Handled
      /\ Planned(Handled \cup Range(h), waves')
  BY <1>2, <1>3, WaveTakes DEF TypeOK
<1> HIDE DEF h
<1>5. Distinct(batch') /\ Range(batch') = {} /\ RunIds' = RunIds
  BY <1>2 DEF Distinct, Range, RunIds
<1>6. /\ Handled = RunIds \cup Range(skipped)
      /\ Handled' = RunIds' \cup Range(skipped')
  BY HandledIs DEF Handled, RunIds, Range
<1>7. /\ \A j, k \in DOMAIN outcomes : j # k => outcomes[j].id # outcomes[k].id
      /\ RunIds \cap Range(skipped) = {} /\ Distinct(skipped)
  BY DEF Books, HandledInv
<1>8. ASSUME NEW k \in DOMAIN outcomes'
      PROVE  (Of(outcomes[k].id).needs
                 \subseteq {outcomes[l].id : l \in 1..(k - 1)})'
  <2>1. Of(outcomes[k].id)' = Of(outcomes[k].id)
    BY <1>1, <1>2
  <2>2. Of(outcomes[k].id).needs \subseteq {outcomes[l].id : l \in 1..(k - 1)}
    BY <1>2, <1>8 DEF Books, HandledInv
  <2>3. QED
    BY <1>2, <2>1, <2>2
<1>9. CASE wave' = h /\ skipped' = skipped
  <2>1. Handled' = Handled /\ Line' = Range(h)
    BY <1>5, <1>6, <1>9 DEF Line
  <2>2. \A i \in Line' : Of(i)'.needs \subseteq Handled'
    BY <1>1, <1>4, <2>1
  <2>3. LineInv'
    BY <1>4, <1>5, <1>9, <2>1, <2>2 DEF LineInv, Distinct
  <2>4. HandledInv'
    <3>1. Distinct(skipped)'
      BY <1>7, <1>9 DEF Distinct
    <3>2. QED
      BY <1>2, <1>5, <1>7, <1>8, <1>9, <3>1 DEF HandledInv
  <2>5. Ahead'
    BY <1>1, <1>4, <2>1 DEF Ahead
  <2>6. QED
    BY <2>3, <2>4, <2>5 DEF Books
<1>10. CASE wave' = wave /\ skipped' = skipped \o h
  <2>1. /\ Distinct(skipped') /\ Range(skipped') = Range(skipped) \cup Range(h)
    BY <1>4, <1>6, <1>7, <1>10, ConcatAdds DEF TypeOK
  <2>2. Handled' = Handled \cup Range(h)
    BY <1>5, <1>6, <2>1
  <2>3. Line' = {} /\ Range(wave') = {} /\ Distinct(wave')
    BY <1>2, <1>10 DEF Line, Range, Distinct
  <2>4. LineInv'
    BY <1>5, <2>3 DEF LineInv, Distinct
  <2>5. HandledInv'
    <3>1. Distinct(skipped)'
      BY <2>1 DEF Distinct
    <3>2. RunIds' \cap Range(skipped') = {}
      BY <1>4, <1>5, <1>6, <1>7, <2>1
    <3>3. QED
      BY <1>2, <1>7, <1>8, <3>1, <3>2 DEF HandledInv
  <2>6. Ahead'
    <3>1. Planned(Handled', waves')
      BY <1>4, <2>2
    <3>2. Handled' \cup Line' = Handled'
      BY <2>3
    <3>3. QED
      BY <1>1, <3>1, <3>2 DEF Ahead
  <2>7. QED
    BY <2>4, <2>5, <2>6 DEF Books
<1>11. QED
  BY <1>9, <1>10 DEF NextWave, h

(* A batch is taken from the wave.                                         *)
LEMMA BatchStep ==
    ASSUME [Next]_vars, Assumed, TypeOK, LoopInv, Books, NextBatch
    PROVE  Books'
<1>1. CASE wave = <<>>
  <2>1. /\ UNCHANGED <<waves, wave, batch, outcomes, skipped>>
        /\ point = "batch"
    BY <1>1 DEF NextBatch
  <2>2. QED
    BY <2>1, BooksKept DEF Underway
<1>2. CASE wave # <<>>
  <2> DEFINE size == Least(plan.concurrency, Len(wave))
  <2>1. /\ \A i : Of(i)' = Of(i)
        /\ \A T, ws : Planned(T, ws)' <=> Planned(T, ws)
    BY PlanKept
  <2>2. /\ batch = <<>> /\ Range(batch) = {} /\ Underway
        /\ UNCHANGED <<waves, outcomes, skipped>>
        /\ batch' = SubSeq(wave, 1, size)
        /\ wave' = SubSeq(wave, size + 1, Len(wave))
    BY <1>2 DEF NextBatch, LoopInv, Range, Underway, Rest
  <2>3. size \in 0..Len(wave)
    <3>1. plan.concurrency \in Nat /\ Len(wave) \in Nat
      BY DEF TypeOK, Assumed, Plan
    <3>2. QED
      BY <3>1 DEF Least
  <2> HIDE DEF size
  <2>4. /\ Distinct(batch') /\ Distinct(wave')
        /\ Range(batch') \cap Range(wave') = {}
        /\ Range(wave) = Range(batch') \cup Range(wave')
    <3>1. wave \in Seq(Ids) /\ Distinct(wave)
      BY DEF TypeOK, Books, LineInv
    <3> DEFINE a == SubSeq(wave, 1, size)
               b == SubSeq(wave, size + 1, Len(wave))
    <3>2. /\ Distinct(a) /\ Distinct(b) /\ Range(a) \cap Range(b) = {}
          /\ Range(wave) = Range(a) \cup Range(b)
      BY <2>3, <3>1, SplitTakes
    <3> HIDE DEF a, b
    <3>3. batch' = a /\ wave' = b
      BY <2>2 DEF a, b
    <3>4. QED
      BY <3>2, <3>3
  <2>5. Line' = Line /\ Handled' = Handled /\ RunIds' = RunIds
    BY <2>2, <2>4 DEF Line, Handled, RunIds
  <2>6. \A i \in Line' : Of(i)'.needs \subseteq Handled'
    BY <2>1, <2>5 DEF Books, LineInv
  <2>7. LineInv'
    BY <2>4, <2>5, <2>6 DEF Books, LineInv, Distinct
  <2>8. HandledInv'
    BY <2>1, <2>2, <2>5 DEF Books, HandledInv, Distinct
  <2>9. Ahead'
    BY <2>1, <2>2, <2>5 DEF Books, Ahead
  <2>10. QED
    BY <2>7, <2>8, <2>9 DEF Books
<1>3. QED
  BY <1>1, <1>2

LEMMA BooksStep ==
    ASSUME Assumed, TypeOK, PlanInv, LoopInv, Books, [Next]_vars
    PROVE  Books'
<1>1. CASE Validate
  <2>1. /\ UNCHANGED <<waves, wave, batch, outcomes, skipped>>
        /\ ~Underway'
    BY <1>1 DEF Validate, Returns, Underway, PlanInv
  <2>2. QED
    BY <2>1, BooksKept
<1>2. CASE BoundCost
  <2>1. /\ UNCHANGED <<wave, batch, outcomes, skipped>>
        /\ point = "cost" /\ ~Underway
    BY <1>2 DEF BoundCost, Underway, PlanInv
  <2>2. CASE Returns("rejected") /\ UNCHANGED waves
    BY <2>1, <2>2, BooksKept DEF Returns, Underway
  <2>3. CASE waves' = Waves
    <3>1. Planned({}, waves')
      BY <2>1, <2>3, WavesFacts DEF PlanInv, TypeOK
    <3>2. /\ wave = <<>> /\ batch = <<>> /\ outcomes = <<>> /\ skipped = <<>>
      BY <2>1 DEF PlanInv, LoopInv
    <3>3. Handled' \cup Line' = {}
      BY <2>1, <3>2 DEF Handled, Line, Range
    <3>4. Ahead'
      BY <3>1, <3>3, PlanKept DEF Ahead
    <3>5. Handled' = Handled /\ Line' = Line /\ RunIds' = RunIds
      BY <2>1 DEF Handled, Line, RunIds
    <3>6. \A i : Of(i)' = Of(i)
      BY PlanKept
    <3>7. LineInv' /\ HandledInv'
      BY <2>1, <3>5, <3>6 DEF Books, LineInv, HandledInv, Distinct
    <3>8. QED
      BY <3>4, <3>7 DEF Books
  <2>4. QED
    BY <1>2, <2>2, <2>3 DEF BoundCost
<1>3. CASE Start \/ Collect
  <2>1. UNCHANGED <<waves, wave, skipped>> /\ batch # <<>> /\ Underway
    BY <1>3 DEF Start, Collect, LoopInv, Underway
  <2>2. skipped = <<>>
    <3>1. CASE Start
      <4>1. clock < plan.time /\ clock \in Nat /\ plan.time \in Nat
        BY <3>1 DEF Start, TypeOK, Assumed, Plan
      <4>2. QED
        BY <4>1 DEF LoopInv, Exhausted
    <3>2. CASE Collect
      BY <3>2 DEF Collect, LoopInv
    <3>3. QED
      BY <1>3, <3>1, <3>2
  <2>3. CASE UNCHANGED <<batch, outcomes>>
    BY <2>1, <2>3, BooksKept
  <2>4. CASE batch' = Tail(batch) /\ \E to : Records(Head(batch), to)
    BY <2>1, <2>2, <2>4, OutcomeStep
  <2>5. Start => \/ UNCHANGED <<batch, outcomes>>
                 \/ batch' = Tail(batch) /\ Records(Head(batch), "error")
    BY DEF Start
  <2>6. Collect => /\ batch' = Tail(batch)
                   /\ \/ Records(stage, Evidence(stage))
                      \/ Records(stage, "error")
    BY DEF Collect
  <2>7. Collect => stage = Head(batch)
    BY DEF Collect, LoopInv
  <2>8. QED
    BY <1>3, <2>3, <2>4, <2>5, <2>6, <2>7
<1>4. CASE EndBatch \/ Report \/ Tick \/ UNCHANGED council
  <2>1. UNCHANGED <<waves, wave, batch, outcomes, skipped>>
    BY <1>4 DEF EndBatch, Report, Tick, council
  <2>2. Underway' => Underway
    BY <1>4 DEF EndBatch, Report, Returns, Tick, council, Underway, TypeOK
  <2>3. QED
    BY <2>1, <2>2, BooksKept
<1>5. QED
  <2>1. (\E i \in Ids : RuntimeEnds(i) \/ Others(i)) => UNCHANGED council
    BY DEF RuntimeEnds, Others
  <2>2. UNCHANGED vars => UNCHANGED council
    BY DEF vars
  <2>3. QED
    BY <1>1, <1>2, <1>3, <1>4, <2>1, <2>2, WaveStep, BatchStep, SkipStep
       DEF Next, Works

(* Evidence of an ended task stays true: nothing moves such a task, and    *)
(* the stage at work is none of those reported.                            *)
LEMMA EvidenceStep ==
    ASSUME Assumed, TypeOK, PlanInv, LoopInv, Books, EvidenceIsObserved,
           [Next]_vars
    PROVE  EvidenceIsObserved'
<1>1. Ids \subseteq StageId /\ task \in [StageId -> TaskState \cup {"absent"}]
  BY IdsFacts DEF TypeOK
<1>2. batch # <<>> => Head(batch) \in Ids /\ Head(batch) \notin Handled
  <2>1. batch # <<>> => Head(batch) \in Ids /\ Head(batch) \in Line
    BY TailTakes DEF TypeOK, Books, LineInv, Line
  <2>2. QED
    BY <2>1 DEF Books, LineInv
<1>3. \A k \in DOMAIN outcomes :
         outcomes[k].id \in Handled /\ outcomes[k].id \in Ids
  <2>1. \A k \in DOMAIN outcomes :
           outcomes[k].id \in Ids
    <3> DEFINE Outcome == [id : Ids, state : TaskState \cup {"error"}]
    <3>1. outcomes \in Seq(Outcome) /\ \A o \in Outcome : o.id \in Ids
      BY DEF TypeOK
    <3> HIDE DEF Outcome
    <3>2. QED
      BY <3>1
  <2>2. QED
    BY <2>1 DEF Handled
<1>4. \A j \in Handled :
         task[j] \in TerminalState /\ j \in Ids => task'[j] = task[j]
  <2> SUFFICES ASSUME NEW j \in Handled, j \in Ids, task[j] \in TerminalState
               PROVE  task'[j] = task[j]
    OBVIOUS
  <2>1. CASE Start \/ Collect
    <3>1. /\ batch # <<>>
          /\ \/ task' = task
             \/ \E to : task' = [task EXCEPT ![Head(batch)] = to]
      BY <2>1 DEF Start, Collect, LoopInv, broker
    <3>2. QED
      BY <1>1, <1>2, <3>1
  <2>2. CASE \E i \in Ids : Others(i)
    <3>1. PICK i \in Ids : /\ task[i] = "running"
                           /\ \E to : task' = [task EXCEPT ![i] = to]
      BY <2>2 DEF Others
    <3>2. i # j
      BY <3>1 DEF TerminalState
    <3>3. QED
      BY <1>1, <3>1, <3>2
  <2>3. CASE task' = task
    BY <2>3
  <2>4. QED
    <3>1. Validate \/ BoundCost \/ NextWave \/ NextBatch \/ Skip \/ EndBatch
          \/ Report \/ Tick \/ UNCHANGED vars => task' = task
      BY DEF Validate, BoundCost, NextWave, NextBatch, Skip, EndBatch, Report,
             Tick, vars, broker
    <3>2. (\E i \in Ids : RuntimeEnds(i)) => task' = task
      BY DEF RuntimeEnds
    <3>3. QED
      BY <2>1, <2>2, <2>3, <3>1, <3>2 DEF Next, Works
<1>5. CASE outcomes' = outcomes
  BY <1>3, <1>4, <1>5 DEF EvidenceIsObserved
<1>6. ASSUME NEW i \in Ids, NEW to, Records(i, to),
             to \in TerminalState => task'[i] = to
      PROVE  EvidenceIsObserved'
  <2> DEFINE m == Len(outcomes)
  <2>1. m \in Nat /\ DOMAIN outcomes = 1..m
    BY DEF TypeOK
  <2>2. /\ outcomes' = Append(outcomes, [id |-> i, state |-> to])
        /\ outcomes \in Seq([id : Ids, state : TaskState \cup {"error"}])
    BY <1>6 DEF Records, TypeOK
  <2>3. /\ DOMAIN outcomes' = 1..(m + 1)
        /\ outcomes'[m + 1] = [id |-> i, state |-> to]
        /\ \A k \in 1..m : outcomes'[k] = outcomes[k]
    BY <2>1, <2>2
  <2>4. \A k \in 1..(m + 1) : k \in 1..m \/ k = m + 1
    BY <2>1
  <2> HIDE DEF m
  <2>5. ASSUME NEW k \in DOMAIN outcomes', outcomes'[k].state \in TerminalState
        PROVE  task'[outcomes'[k].id] = outcomes'[k].state
    <3>1. CASE k = m + 1
      BY <1>6, <2>3, <2>5, <3>1
    <3>2. CASE k \in 1..m
      <4>1. outcomes'[k] = outcomes[k] /\ k \in DOMAIN outcomes
        BY <2>1, <2>3, <3>2
      <4>2. task[outcomes[k].id] = outcomes[k].state
        BY <2>5, <4>1 DEF EvidenceIsObserved
      <4>3. QED
        BY <1>3, <1>4, <2>5, <4>1, <4>2
    <3>3. QED
      BY <2>3, <2>4, <3>1, <3>2
  <2>6. QED
    BY <2>5 DEF EvidenceIsObserved
<1>7. CASE Start
  <2>1. "error" \notin TerminalState
    BY DEF TerminalState
  <2>2. CASE Records(Head(batch), "error")
    BY <1>2, <1>6, <1>7, <2>1, <2>2 DEF Start
  <2>3. QED
    BY <1>5, <1>7, <2>2 DEF Start
<1>8. CASE Collect
  <2>1. /\ stage \in Ids
        /\ Records(stage, Evidence(stage)) \/ Records(stage, "error")
    BY <1>8 DEF Collect, TypeOK
  <2>2. "error" \notin TerminalState
    BY DEF TerminalState
  <2>3. CASE Records(stage, Evidence(stage))
    BY <1>6, <2>1, <2>3 DEF Evidence
  <2>4. CASE Records(stage, "error")
    BY <1>6, <2>1, <2>2, <2>4
  <2>5. QED
    BY <2>1, <2>3, <2>4
<1>9. QED
  <2>1. Validate \/ BoundCost \/ NextWave \/ NextBatch \/ Skip \/ EndBatch
        \/ Report \/ Tick \/ UNCHANGED vars => outcomes' = outcomes
    BY DEF Validate, BoundCost, NextWave, NextBatch, Skip, EndBatch, Report,
           Tick, vars, council
  <2>2. (\E i \in Ids : RuntimeEnds(i) \/ Others(i)) => outcomes' = outcomes
    BY DEF RuntimeEnds, Others, council
  <2>3. QED
    BY <1>5, <1>7, <1>8, <2>1, <2>2 DEF Next, Works

-----------------------------------------------------------------------------
(* The inductive invariant, and what follows from it.                      *)

CouncilInv == TypeOK /\ PlanInv /\ LoopInv /\ Books /\ EvidenceIsObserved

LEMMA InitInv ==
    ASSUME Assumed, Init
    PROVE  CouncilInv
<1>1. TypeOK
  BY InitTyped
<1>2. /\ point = "validate" /\ waves = <<>> /\ wave = <<>> /\ batch = <<>>
      /\ stage = NoStage /\ outcomes = <<>> /\ skipped = <<>> /\ answer = "none"
      /\ \A i \in StageId : task[i] = "absent"
  BY DEF Init
<1>3. PlanInv /\ LoopInv
  BY <1>2 DEF PlanInv, LoopInv, Underway, Exhausted
<1>4. /\ Range(batch) = {} /\ Range(wave) = {}
      /\ Range(skipped) = {} /\ RunIds = {}
  BY <1>2 DEF Range, RunIds
<1>5. LineInv
  BY <1>2, <1>4 DEF LineInv, Line, Distinct
<1>6. HandledInv
  BY <1>2, <1>4 DEF HandledInv, Distinct
<1>7. ~Underway
  BY <1>2 DEF Underway
<1>8. EvidenceIsObserved
  BY <1>2 DEF EvidenceIsObserved
<1>9. QED
  BY <1>1, <1>3, <1>5, <1>6, <1>7, <1>8 DEF CouncilInv, Books

(* Everything was taken up when there is nothing left.                     *)
LEMMA Accounted ==
    ASSUME Assumed, CouncilInv
    PROVE  EveryStageAccounted
<1> SUFFICES ASSUME answer \in {"completed", "with_skips"}
             PROVE  Handled = Ids /\ Len(outcomes) + Len(skipped) = N
  BY DEF EveryStageAccounted, N
<1>1. /\ point = "done" /\ Underway /\ waves = <<>> /\ Line = {}
  BY DEF CouncilInv, PlanInv, LoopInv, Underway, Line, Range
<1>2. Handled = Ids
  <2>1. Planned(Handled, <<>>)
    BY <1>1 DEF CouncilInv, Books, Ahead
  <2>2. Ids = Handled \cup UNION {Range(<<>>[n]) : n \in {}}
    BY <2>1 DEF Planned
  <2>3. QED
    BY <2>2
<1>3. /\ outcomes \in Seq([id : Ids, state : TaskState \cup {"error"}])
      /\ skipped \in Seq(Ids) /\ Distinct(skipped)
      /\ RunIds \cap Range(skipped) = {}
      /\ \A j, k \in DOMAIN outcomes : j # k => outcomes[j].id # outcomes[k].id
  BY DEF CouncilInv, TypeOK, Books, HandledInv
<1> DEFINE ran == [k \in 1..Len(outcomes) |-> outcomes[k].id]
<1>4. /\ ran \in Seq(Ids) /\ Len(ran) = Len(outcomes) /\ Distinct(ran)
      /\ Range(ran) = RunIds
  <2>1. /\ Len(outcomes) \in Nat /\ DOMAIN outcomes = 1..Len(outcomes)
        /\ \A k \in 1..Len(outcomes) : outcomes[k].id \in Ids
    <3> DEFINE Outcome == [id : Ids, state : TaskState \cup {"error"}]
    <3>1. outcomes \in Seq(Outcome) /\ \A o \in Outcome : o.id \in Ids
      BY <1>3
    <3> HIDE DEF Outcome
    <3>2. QED
      BY <3>1
  <2>2. ran \in Seq(Ids) /\ Len(ran) = Len(outcomes)
    BY <2>1
  <2>3. DOMAIN ran = DOMAIN outcomes
    BY <2>1
  <2>4. QED
    BY <1>3, <2>1, <2>2, <2>3 DEF Distinct, Range, RunIds
<1> HIDE DEF ran
<1>5. /\ IsFiniteSet(RunIds) /\ Cardinality(RunIds) = Len(outcomes)
      /\ IsFiniteSet(Range(skipped))
      /\ Cardinality(Range(skipped)) = Len(skipped)
  BY <1>3, <1>4, DistinctLength
<1>6. Cardinality(RunIds \cap Range(skipped)) = 0
  BY <1>3, FS_EmptySet
<1>7. Cardinality(RunIds \cup Range(skipped))
         = Cardinality(RunIds) + Cardinality(Range(skipped))
              - Cardinality(RunIds \cap Range(skipped))
  BY <1>5, FS_Union
<1>8. RunIds \cup Range(skipped) = Ids
  BY <1>2, HandledIs
<1>9. Len(outcomes) \in Nat /\ Len(skipped) \in Nat
  BY <1>3
<1>10. N = Len(outcomes) + Len(skipped)
  <2>1. N = Len(outcomes) + Len(skipped) - 0
    BY <1>5, <1>6, <1>7, <1>8 DEF N
  <2>2. QED
    BY <1>9, <2>1
<1>11. QED
  BY <1>2, <1>10

LEMMA Ordered ==
    ASSUME Assumed, CouncilInv
    PROVE  OrderIsRespected
<1>1. stage # NoStage => Of(stage).needs \subseteq Handled
  <2> SUFFICES ASSUME stage # NoStage
               PROVE  Of(stage).needs \subseteq Handled
    OBVIOUS
  <2>1. batch # <<>> /\ stage = Head(batch)
    BY DEF CouncilInv, LoopInv
  <2>2. batch \in Seq(Ids) /\ Distinct(batch)
    BY DEF CouncilInv, TypeOK, Books, LineInv
  <2>3. stage \in Line
    BY <2>1, <2>2, TailTakes DEF Line
  <2>4. QED
    BY <2>3 DEF CouncilInv, Books, LineInv
<1>2. \A k \in DOMAIN outcomes :
         Of(outcomes[k].id).needs \subseteq {outcomes[l].id : l \in 1..(k - 1)}
  BY DEF CouncilInv, Books, HandledInv
<1>3. Exhausted => stage = NoStage
  BY DEF CouncilInv, LoopInv, Exhausted
<1>4. QED
  BY <1>1, <1>2, <1>3 DEF OrderIsRespected

LEMMA Sound ==
    ASSUME Assumed, CouncilInv
    PROVE  OnlySoundPlansRun
<1> SUFFICES ASSUME NEW i \in Ids, task[i] # "absent"
             PROVE  /\ ~plan.selfCritique =>
                         \A k \in Ids : \A j \in Of(k).needs :
                            Of(k).role = "critique" => Of(k).who # Of(j).who
                    /\ plan.cost # 0 =>
                         /\ \A k \in Ids :
                               Of(k).kind = "direct" /\ Of(k).cost # 0
                         /\ SumFunction([k \in DOMAIN plan.stages |->
                                            plan.stages[k].cost]) <= plan.cost
  BY DEF OnlySoundPlansRun
<1>1. ValidPlan /\ (plan.cost = 0 \/ Affordable)
  <2>1. i \in StageId
    BY IdsFacts DEF CouncilInv, TypeOK
  <2>2. QED
    BY <2>1 DEF CouncilInv, PlanInv
<1>2. ~plan.selfCritique =>
         \A k \in Ids : \A j \in Of(k).needs :
            Of(k).role = "critique" => Of(k).who # Of(j).who
  BY <1>1 DEF ValidPlan, SelfCritique
<1>3. ASSUME plan.cost # 0
      PROVE  /\ \A k \in Ids : Of(k).kind = "direct" /\ Of(k).cost # 0
             /\ SumFunction([k \in DOMAIN plan.stages |-> plan.stages[k].cost])
                   <= plan.cost
  <2>1. \A k \in DOMAIN plan.stages :
           plan.stages[k].kind = "direct" /\ plan.stages[k].cost # 0
    BY <1>1, <1>3 DEF Affordable, Costs, Bound
  <2>2. Costs = [k \in DOMAIN plan.stages |-> plan.stages[k].cost]
    BY <2>1 DEF Costs, Bound
  <2>3. \A k \in Ids : Of(k) \in {plan.stages[n] : n \in DOMAIN plan.stages}
    BY DEF Ids, Of
  <2>4. QED
    BY <1>1, <1>3, <2>1, <2>2, <2>3 DEF Affordable
<1>4. QED
  BY <1>2, <1>3

(* The invariant holds throughout.                                         *)
THEOREM CouncilInvariant == Assumed => (Spec => []CouncilInv)
<1> SUFFICES ASSUME Assumed
             PROVE  Spec => []CouncilInv
  OBVIOUS
<1>1. Init => CouncilInv
  BY InitInv
<1>2. CouncilInv /\ [Next]_vars => CouncilInv'
  BY TypeStep, PlanStep, LoopStep, BooksStep, EvidenceStep DEF CouncilInv
<1>3. QED
  BY <1>1, <1>2, PTL DEF Spec

(* Of every council, whatever its plan, its numbers of stages and of       *)
(* batches and its budgets: the report accounts for every stage once, in   *)
(* the order of depends_on and none after one that was skipped; no task of *)
(* an unsound or unaffordable plan exists; and the evidence of an ended    *)
(* task is what the broker has for good (execute_council).                 *)
THEOREM CouncilSafe == Assumed => (Spec => []CouncilHolds)
<1> SUFFICES ASSUME Assumed
             PROVE  Spec => []CouncilHolds
  OBVIOUS
<1>1. CouncilInv => CouncilHolds
  BY Accounted, Ordered, Sound DEF CouncilHolds, CouncilInv
<1>2. QED
  BY <1>1, CouncilInvariant, PTL

(* Its waves, batches, outcomes and tasks keep their types, and no batch   *)
(* is larger than max_concurrency.                                         *)
THEOREM CouncilTyped == Assumed => (Spec => []TypeOK)
<1>1. CouncilInv => TypeOK
  BY DEF CouncilInv
<1>2. QED
  BY <1>1, CouncilInvariant, PTL
=============================================================================
