-------------------------- MODULE AirBalanceProofs --------------------------
(* Proofs about BudgetAllocator and AirBalance, for every set of nodes,    *)
(* every house and every percentage that the constants may have.           *)
EXTENDS AirBalance, FiniteSetTheorems, WellFoundedInduction, TLAPS

-----------------------------------------------------------------------------
(* Counting up.                                                            *)

(* A nonempty set of numbers has a least one.                              *)
LEMMA LeastNatural ==
    ASSUME NEW T, T \subseteq Nat, T # {}
    PROVE  \E x \in T : \A y \in T : x <= y
<1>1. PICK x \in T : \A y \in T : <<y, x>> \notin OpToRel(<, Nat)
    BY NatLessThanWellFounded, WFMin
<1>2. \A y \in T : x \in Nat /\ y \in Nat /\ ~(y < x)
    BY <1>1 DEF OpToRel
<1>. QED
    BY <1>2

(* What holds at 0, and at every number after one where it holds.          *)
LEMMA Upto ==
    ASSUME NEW L \in Nat, NEW T, 0 \in T,
           \A l \in 1..L : l - 1 \in T => l \in T
    PROVE  0..L \subseteq T
<1>. DEFINE Missed == {l \in 0..L : l \notin T}
<1>. SUFFICES ASSUME Missed # {}
              PROVE  FALSE
    OBVIOUS
<1>1. PICK l \in Missed : \A k \in Missed : l <= k
  <2>1. Missed \subseteq Nat
    OBVIOUS
  <2>. HIDE DEF Missed
  <2>. QED
    BY <2>1, LeastNatural
<1>2. l \in 1..L /\ l - 1 \in 0..L /\ ~(l <= l - 1)
    BY <1>1
<1>3. l - 1 \in T
    BY <1>1, <1>2
<1>4. l \in T
    BY <1>2, <1>3
<1>. QED
    BY <1>1, <1>4

(* What holds of no rooms, and still with one room more.                   *)
LEMMA SetInduction ==
    ASSUME NEW S, IsFiniteSet(S), NEW G, {} \in G,
           \A T \in SUBSET S, x \in S : T \in G /\ x \notin T => T \cup {x} \in G
    PROVE  S \in G
<1>. DEFINE L == Cardinality(S)
            Sizes == {k \in 0..L : \A T \in SUBSET S : Cardinality(T) = k => T \in G}
<1>1. L \in Nat
    BY FS_CardinalityType
<1>2. 0 \in Sizes
    BY <1>1, FS_EmptySet, FS_Subset
<1>3. ASSUME NEW l \in 1..L, l - 1 \in Sizes
      PROVE  l \in Sizes
  <2>. SUFFICES ASSUME NEW T \in SUBSET S, Cardinality(T) = l
                PROVE  T \in G
    OBVIOUS
  <2>1. IsFiniteSet(T) /\ T # {}
    BY FS_Subset, FS_EmptySet
  <2>2. PICK x \in T : TRUE
    BY <2>1
  <2>3. Cardinality(T \ {x}) = l - 1
    BY <2>1, FS_RemoveElement
  <2>4. T \ {x} \in SUBSET S /\ x \in S /\ x \notin T \ {x}
        /\ (T \ {x}) \cup {x} = T
    OBVIOUS
  <2>5. T \ {x} \in G
    BY <1>3, <2>3, <2>4
  <2>. QED
    BY <2>4, <2>5
<1>. HIDE DEF Sizes
<1>4. 0..L \subseteq Sizes
    BY ONLY <1>1, <1>2, <1>3, Upto
<1>5. L \in Sizes
    BY <1>1, <1>4
<1>. QED
    BY <1>5 DEF Sizes

(* g is what L steps of F make of s0.                                      *)
Iterates(g, L, s0, F) ==
    \A k \in 0..L : g[k] = IF k = 0 THEN s0 ELSE F[g[k - 1]]

(* A function that is defined step by step does exist.                     *)
LEMMA Iteration ==
    ASSUME NEW L \in Nat, NEW S, NEW s0 \in S, NEW F \in [S -> S]
    PROVE  \E g \in [0..L -> S] : Iterates(g, L, s0, F)
<1>. DEFINE Good(g, l) == \A k \in 0..l : g[k] = IF k = 0 THEN s0 ELSE F[g[k - 1]]
            T == {l \in 0..L : \E g \in [0..L -> S] : Good(g, l)}
<1>1. 0 \in T
  <2>. DEFINE h == [k \in 0..L |-> s0]
  <2>1. h \in [0..L -> S] /\ Good(h, 0)
    OBVIOUS
  <2>. HIDE DEF h, Good
  <2>. QED
    BY <2>1
<1>2. ASSUME NEW l \in 1..L, l - 1 \in T
      PROVE  l \in T
  <2>1. PICK g \in [0..L -> S] : Good(g, l - 1)
    BY <1>2
  <2>. DEFINE h == [g EXCEPT ![l] = F[g[l - 1]]]
  <2>2. l - 1 \in 0..L /\ l \in 0..L /\ l - 1 # l
    OBVIOUS
  <2>3. h \in [0..L -> S]
    BY <2>2
  <2>4. h[l] = F[h[l - 1]] /\ \A k \in 0..(l - 1) : h[k] = g[k]
    BY <2>2
  <2>5. ASSUME NEW k \in 0..l
        PROVE  h[k] = IF k = 0 THEN s0 ELSE F[h[k - 1]]
    <3>1. CASE k = l
      BY <2>4, <3>1
    <3>2. CASE k # l
      <4>1. k \in 0..(l - 1) /\ (k # 0 => k - 1 \in 0..(l - 1))
        BY <3>2
      <4>. QED
        BY <2>1, <2>4, <4>1
    <3>. QED
      BY <3>1, <3>2
  <2>. HIDE DEF h
  <2>6. Good(h, l)
    BY <2>5
  <2>. HIDE DEF Good
  <2>. QED
    BY <2>2, <2>3, <2>6
<1>3. 0..L \subseteq T
  <2>. HIDE DEF T
  <2>. QED
    BY ONLY <1>1, <1>2, L \in Nat, Upto
<1>4. PICK g \in [0..L -> S] : Good(g, L)
    BY <1>3
<1>5. Iterates(g, L, s0, F)
    BY <1>4 DEF Iterates
<1>. QED
    BY <1>5

-----------------------------------------------------------------------------
(* Sums.                                                                   *)

(* The recursion by which SumFunctionOnSet is defined.                     *)
Pick(s) == CHOOSE x \in s : TRUE

SumsUp(f, S, g) ==
    g = [s \in SUBSET S |-> IF s = {} THEN 0 ELSE f[Pick(s)] + g[s \ {Pick(s)}]]

(* There is a function that sums up all the subsets of a finite set.       *)
LEMMA SumExists ==
    ASSUME NEW f, NEW S, IsFiniteSet(S)
    PROVE  \E g : SumsUp(f, S, g)
<1>. DEFINE L == Cardinality(S)
            Step(g) == [s \in SUBSET S |-> IF s = {} THEN 0
                                           ELSE f[Pick(s)] + g[s \ {Pick(s)}]]
            Good(g, l) == \A s \in SUBSET S : Cardinality(s) <= l => g[s] = Step(g)[s]
            T == {l \in 0..L : \E g : Good(g, l)}
<1>1. L \in Nat /\ \A s \in SUBSET S : IsFiniteSet(s) /\ Cardinality(s) \in 0..L
    BY FS_CardinalityType, FS_Subset
<1>2. \A s \in SUBSET S : s # {} => /\ s \ {Pick(s)} \in SUBSET S
                                    /\ Cardinality(s \ {Pick(s)}) = Cardinality(s) - 1
  <2>. SUFFICES ASSUME NEW s \in SUBSET S, s # {}
                PROVE  Cardinality(s \ {Pick(s)}) = Cardinality(s) - 1
    OBVIOUS
  <2>1. Pick(s) \in s
    BY DEF Pick
  <2>. QED
    BY <1>1, <2>1, FS_RemoveElement
<1>3. 0 \in T
  <2>. DEFINE h == [s \in SUBSET S |-> 0]
  <2>1. Good(h, 0)
    <3>. SUFFICES ASSUME NEW s \in SUBSET S, Cardinality(s) <= 0
                  PROVE  h[s] = Step(h)[s]
      OBVIOUS
    <3>1. s = {}
      BY <1>1, FS_EmptySet
    <3>. QED
      BY <3>1
  <2>. HIDE DEF h, Good
  <2>. QED
    BY <1>1, <2>1
<1>4. ASSUME NEW l \in 1..L, l - 1 \in T
      PROVE  l \in T
  <2>1. PICK g : Good(g, l - 1)
    BY <1>4
  <2>. DEFINE h == Step(g)
  <2>2. Good(h, l)
    <3>. SUFFICES ASSUME NEW s \in SUBSET S, Cardinality(s) <= l
                  PROVE  h[s] = Step(h)[s]
      OBVIOUS
    <3>1. CASE s = {}
      BY <3>1
    <3>2. CASE s # {}
      <4>. DEFINE r == s \ {Pick(s)}
      <4>1. r \in SUBSET S /\ Cardinality(r) <= l - 1
        BY <1>1, <1>2, <3>2
      <4>. HIDE DEF r
      <4>2. g[r] = h[r]
        BY <2>1, <4>1
      <4>3. h[s] = f[Pick(s)] + g[r]
        BY <3>2 DEF r
      <4>4. Step(h)[s] = f[Pick(s)] + h[r]
        BY <3>2 DEF r
      <4>. QED
        BY <4>2, <4>3, <4>4
    <3>. QED
      BY <3>1, <3>2
  <2>. HIDE DEF h, Good
  <2>. QED
    BY <2>2
<1>5. L \in T
  <2>. HIDE DEF T
  <2>1. 0..L \subseteq T
    BY ONLY <1>1, <1>3, <1>4, Upto
  <2>. QED
    BY <1>1, <2>1
<1>6. PICK g : Good(g, L)
    BY <1>5
<1>. DEFINE h == Step(g)
<1>7. \A s \in SUBSET S : g[s] = h[s]
  <2>. SUFFICES ASSUME NEW s \in SUBSET S
                PROVE  g[s] = h[s]
    OBVIOUS
  <2>1. Cardinality(s) <= L
    BY <1>1
  <2>. QED
    BY <1>6, <2>1
<1>8. Step(h) = h
  <2>. SUFFICES ASSUME NEW s \in SUBSET S
                PROVE  Step(h)[s] = h[s]
    OBVIOUS
  <2>1. CASE s = {}
    BY <2>1
  <2>2. CASE s # {}
    BY <1>2, <1>7, <2>2
  <2>. QED
    BY <2>1, <2>2
<1>. HIDE DEF h
<1>. QED
    BY <1>8 DEF SumsUp

(* And they agree on the subsets of both.                                  *)
LEMMA SumsAgree ==
    ASSUME NEW f, NEW S, IsFiniteSet(S), NEW R \in SUBSET S,
           NEW g, SumsUp(f, S, g), NEW h, SumsUp(f, R, h)
    PROVE  g[R] = h[R]
<1>. DEFINE Differ == {s \in SUBSET R : g[s] # h[s]}
            Sizes == {Cardinality(s) : s \in Differ}
<1>1. \A s \in SUBSET R : IsFiniteSet(s) /\ Cardinality(s) \in Nat
    BY FS_CardinalityType, FS_Subset
<1>2. ASSUME Differ # {}
      PROVE  FALSE
  <2>1. Sizes \subseteq Nat /\ Sizes # {}
    BY <1>1, <1>2
  <2>2. PICK k \in Sizes : \A j \in Sizes : k <= j
    <3>. HIDE DEF Sizes
    <3>. QED
      BY ONLY <2>1, LeastNatural
  <2>3. PICK s \in Differ : k = Cardinality(s)
    BY <2>2
  <2>4. \A r \in Differ : Cardinality(s) <= Cardinality(r)
    BY <2>2, <2>3
  <2>5. s \in SUBSET R /\ s \in SUBSET S
    BY <2>3
  <2>6. s # {}
    BY <2>3, <2>5 DEF SumsUp
  <2>7. Pick(s) \in s
    BY <2>6 DEF Pick
  <2>8. s \ {Pick(s)} \in SUBSET R /\ s \ {Pick(s)} \in SUBSET S
    BY <2>5
  <2>9. Cardinality(s \ {Pick(s)}) = Cardinality(s) - 1
    BY <1>1, <2>5, <2>7, FS_RemoveElement
  <2>10. s \ {Pick(s)} \notin Differ
    BY <1>1, <2>4, <2>5, <2>9
  <2>11. g[s \ {Pick(s)}] = h[s \ {Pick(s)}]
    BY <2>8, <2>10
  <2>12. g[s] = f[Pick(s)] + g[s \ {Pick(s)}]
    BY <2>5, <2>6 DEF SumsUp
  <2>13. h[s] = f[Pick(s)] + h[s \ {Pick(s)}]
    BY <2>5, <2>6 DEF SumsUp
  <2>. QED
    BY <2>3, <2>11, <2>12, <2>13
<1>. QED
    BY <1>2

(* The equation of SumFunctionOnSet.                                       *)
LEMMA SumEquation ==
    ASSUME NEW f, NEW S, IsFiniteSet(S)
    PROVE  SumFunctionOnSet(f, S) =
               IF S = {} THEN 0
               ELSE f[Pick(S)] + SumFunctionOnSet(f, S \ {Pick(S)})
<1>. DEFINE iter(R) == CHOOSE g : SumsUp(f, R, g)
<1>1. \A R \in SUBSET S : SumFunctionOnSet(f, R) = iter(R)[R]
    BY DEF SumFunctionOnSet, FoldFunctionOnSet, MapThenFoldSet, SumsUp, Pick
<1>2. \A R \in SUBSET S : SumsUp(f, R, iter(R))
  <2>. TAKE R \in SUBSET S
  <2>1. \E g : SumsUp(f, R, g)
    BY SumExists, FS_Subset
  <2>. QED
    BY <2>1
<1>. HIDE DEF iter
<1>3. CASE S = {}
    BY <1>1, <1>2, <1>3 DEF SumsUp
<1>4. CASE S # {}
  <2>. DEFINE R == S \ {Pick(S)}
  <2>1. R \in SUBSET S /\ S \in SUBSET S
    OBVIOUS
  <2>2. iter(S)[S] = f[Pick(S)] + iter(S)[R]
    BY <1>2, <1>4 DEF SumsUp
  <2>. HIDE DEF R
  <2>3. SumsUp(f, S, iter(S)) /\ SumsUp(f, R, iter(R))
    BY <1>2, <2>1
  <2>4. iter(S)[R] = iter(R)[R]
    BY ONLY <2>1, <2>3, SumsAgree, IsFiniteSet(S)
  <2>. QED
    BY <1>1, <1>4, <2>1, <2>2, <2>4 DEF R
<1>. QED
    BY <1>3, <1>4

(* Nothing sums up to nothing.                                             *)
LEMMA SumOfNothing == \A f : SumFunctionOnSet(f, {}) = 0
BY SumEquation, FS_EmptySet

(* A sum of integers is one, and any of them can be taken out of it.       *)
LEMMA SumRemoves ==
    ASSUME NEW f, NEW S, IsFiniteSet(S), \A x \in S : f[x] \in Int
    PROVE  /\ SumFunctionOnSet(f, S) \in Int
           /\ \A x \in S : SumFunctionOnSet(f, S)
                               = f[x] + SumFunctionOnSet(f, S \ {x})
<1>. DEFINE L == Cardinality(S)
            Sum(T) == SumFunctionOnSet(f, T)
            Good(T) == Sum(T) \in Int /\ \A x \in T : Sum(T) = f[x] + Sum(T \ {x})
            Sizes == {k \in 0..L : \A T \in SUBSET S : Cardinality(T) <= k => Good(T)}
<1>1. L \in Nat /\ \A T \in SUBSET S : IsFiniteSet(T) /\ Cardinality(T) \in 0..L
    BY FS_CardinalityType, FS_Subset
<1>2. \A T \in SUBSET S : Sum(T) = IF T = {} THEN 0 ELSE f[Pick(T)] + Sum(T \ {Pick(T)})
    BY <1>1, SumEquation
<1>. HIDE DEF Sum
<1>3. 0 \in Sizes
  <2>. SUFFICES ASSUME NEW T \in SUBSET S, Cardinality(T) <= 0
                PROVE  Good(T)
    BY <1>1
  <2>1. T = {}
    BY <1>1, FS_EmptySet
  <2>2. Sum(T) = 0
    BY <1>2, <2>1
  <2>. QED
    BY <2>1, <2>2
<1>4. ASSUME NEW l \in 1..L, l - 1 \in Sizes
      PROVE  l \in Sizes
  <2>. SUFFICES ASSUME NEW T \in SUBSET S, Cardinality(T) <= l
                PROVE  Good(T)
    OBVIOUS
  <2>1. \A R \in SUBSET S : Cardinality(R) <= l - 1 => Good(R)
    BY <1>4
  <2>2. CASE Cardinality(T) <= l - 1
    BY <2>1, <2>2
  <2>3. CASE Cardinality(T) = l
    <3>. DEFINE p == Pick(T)
    <3>1. T # {}
      BY <2>3, FS_EmptySet
    <3>2. p \in T
      BY <3>1 DEF Pick
    <3>3. Sum(T) = f[p] + Sum(T \ {p})
      BY <1>2, <3>1
    <3>. HIDE DEF p, Good
    <3>4. ASSUME NEW x \in T
          PROVE  T \ {x} \in SUBSET S /\ Good(T \ {x})
      <4>1. T \ {x} \in SUBSET S /\ Cardinality(T \ {x}) = l - 1
        BY <1>1, <2>3, FS_RemoveElement
      <4>. QED
        BY <2>1, <4>1
    <3>5. f[p] \in Int /\ Sum(T \ {p}) \in Int /\ Sum(T) \in Int
      BY <3>2, <3>3, <3>4 DEF Good
    <3>6. ASSUME NEW x \in T
          PROVE  Sum(T) = f[x] + Sum(T \ {x})
      <4>1. CASE x = p
        BY <3>3, <4>1
      <4>2. CASE x # p
        <5>. DEFINE R == (T \ {p}) \ {x}
        <5>1. R = (T \ {x}) \ {p} /\ R \in SUBSET S
          OBVIOUS
        <5>2. x \in T \ {p} /\ p \in T \ {x}
          BY <3>2, <4>2
        <5>3. Cardinality(R) <= l - 1
          <6>1. IsFiniteSet(T \ {p}) /\ Cardinality(T \ {p}) = l - 1
            BY <1>1, <2>3, <3>2, FS_RemoveElement
          <6>. QED
            BY <6>1, FS_Subset
        <5>4. Sum(R) \in Int
          BY <2>1, <5>1, <5>3 DEF Good
        <5>5. Sum(T \ {p}) = f[x] + Sum(R)
          BY <3>2, <3>4, <5>2 DEF Good
        <5>6. Sum(T \ {x}) = f[p] + Sum(R)
          BY <3>4, <5>1, <5>2 DEF Good
        <5>7. f[x] \in Int
          OBVIOUS
        <5>. QED
          BY <3>3, <3>5, <5>4, <5>5, <5>6, <5>7
      <4>. QED
        BY <4>1, <4>2
    <3>. QED
      BY <3>5, <3>6 DEF Good
  <2>. QED
    BY <1>1, <2>2, <2>3
<1>5. L \in Sizes
  <2>. HIDE DEF Sizes
  <2>1. 0..L \subseteq Sizes
    BY ONLY <1>1, <1>3, <1>4, Upto
  <2>. QED
    BY <1>1, <2>1
<1>6. Good(S)
    BY <1>1, <1>5
<1>. QED
    BY <1>6 DEF Sum

(* The sum over nothing, and over one room more.                           *)
LEMMA SumAdds ==
    ASSUME NEW f, NEW S, IsFiniteSet(S), \A x \in S : f[x] \in Int
    PROVE  /\ SumFunctionOnSet(f, {}) = 0
           /\ \A T \in SUBSET S : SumFunctionOnSet(f, T) \in Int
           /\ \A T \in SUBSET S, x \in S : x \notin T =>
                  SumFunctionOnSet(f, T \cup {x}) = f[x] + SumFunctionOnSet(f, T)
<1>1. SumFunctionOnSet(f, {}) = 0
    BY SumOfNothing
<1>2. \A T \in SUBSET S : IsFiniteSet(T)
    BY FS_Subset
<1>3. ASSUME NEW T \in SUBSET S
      PROVE  SumFunctionOnSet(f, T) \in Int
    BY <1>2, SumRemoves
<1>4. ASSUME NEW T \in SUBSET S, NEW x \in S, x \notin T
      PROVE  SumFunctionOnSet(f, T \cup {x}) = f[x] + SumFunctionOnSet(f, T)
  <2>. DEFINE R == T \cup {x}
  <2>1. R \in SUBSET S /\ x \in R /\ R \ {x} = T
    BY <1>4
  <2>. HIDE DEF R
  <2>2. IsFiniteSet(R) /\ \A y \in R : f[y] \in Int
    BY <1>2, <2>1
  <2>3. SumFunctionOnSet(f, R) = f[x] + SumFunctionOnSet(f, R \ {x})
    BY <2>1, <2>2, SumRemoves
  <2>. QED
    BY <2>1, <2>3 DEF R
<1>. QED
    BY <1>1, <1>3, <1>4

(* The same numbers have the same sum.                                     *)
LEMMA SumSame ==
    ASSUME NEW f, NEW g, NEW S, IsFiniteSet(S),
           \A x \in S : f[x] \in Int /\ f[x] = g[x]
    PROVE  SumFunctionOnSet(f, S) = SumFunctionOnSet(g, S)
<1>. DEFINE G == {T \in SUBSET S : SumFunctionOnSet(f, T) = SumFunctionOnSet(g, T)}
<1>1. {} \in G
    BY SumAdds
<1>2. ASSUME NEW T \in SUBSET S, NEW x \in S, T \in G, x \notin T
      PROVE  T \cup {x} \in G
  <2>1. SumFunctionOnSet(f, T \cup {x}) = f[x] + SumFunctionOnSet(f, T)
    BY <1>2, SumAdds
  <2>2. SumFunctionOnSet(g, T \cup {x}) = g[x] + SumFunctionOnSet(g, T)
    <3>1. \A y \in S : g[y] \in Int
      OBVIOUS
    <3>. QED
      BY <1>2, <3>1, SumAdds
  <2>3. f[x] = g[x] /\ SumFunctionOnSet(f, T) = SumFunctionOnSet(g, T)
    BY <1>2
  <2>. QED
    BY <2>1, <2>2, <2>3
<1>. HIDE DEF G
<1>3. S \in G
    BY <1>1, <1>2, SetInduction
<1>. QED
    BY <1>3 DEF G

(* A sum splits where its set does.                                        *)
LEMMA SumSplits ==
    ASSUME NEW f, NEW A, NEW B, IsFiniteSet(A \cup B), A \cap B = {},
           \A x \in A \cup B : f[x] \in Int
    PROVE  SumFunctionOnSet(f, A \cup B)
               = SumFunctionOnSet(f, A) + SumFunctionOnSet(f, B)
<1>. DEFINE S == A \cup B
            Sum(T) == SumFunctionOnSet(f, T)
            G == {T \in SUBSET B : Sum(A \cup T) = Sum(A) + Sum(T)}
<1>1. A \in SUBSET S /\ B \in SUBSET S
    OBVIOUS
<1>2. /\ Sum({}) = 0
      /\ \A T \in SUBSET S : Sum(T) \in Int
      /\ \A T \in SUBSET S, x \in S : x \notin T => Sum(T \cup {x}) = f[x] + Sum(T)
    BY SumAdds
<1>. HIDE DEF S, Sum
<1>3. {} \in G
  <2>1. A \cup {} = A
    OBVIOUS
  <2>. QED
    BY <1>1, <1>2, <2>1
<1>4. ASSUME NEW T \in SUBSET B, NEW x \in B, T \in G, x \notin T
      PROVE  T \cup {x} \in G
  <2>1. /\ T \in SUBSET S /\ A \cup T \in SUBSET S /\ x \in S
        /\ x \notin A \cup T /\ A \cup (T \cup {x}) = (A \cup T) \cup {x}
    BY <1>1, <1>4
  <2>2. Sum((A \cup T) \cup {x}) = f[x] + Sum(A \cup T)
    BY <1>2, <2>1
  <2>3. Sum(T \cup {x}) = f[x] + Sum(T)
    BY <1>2, <1>4, <2>1
  <2>4. Sum(A \cup T) = Sum(A) + Sum(T)
    BY <1>4
  <2>5. Sum(A) \in Int /\ Sum(T) \in Int /\ f[x] \in Int
    BY <1>1, <1>2, <2>1 DEF S
  <2>6. Sum((A \cup T) \cup {x}) = Sum(A) + Sum(T \cup {x})
    BY <2>2, <2>3, <2>4, <2>5
  <2>. QED
    BY <2>1, <2>6
<1>5. IsFiniteSet(B)
    BY FS_Subset
<1>. HIDE DEF G
<1>6. B \in G
    BY <1>3, <1>4, <1>5, SetInduction
<1>. QED
    BY <1>6 DEF G, Sum

(* Equal numbers sum up to a multiple.                                     *)
LEMMA SumConstant ==
    ASSUME NEW f, NEW S, IsFiniteSet(S), NEW c \in Int, \A x \in S : f[x] = c
    PROVE  SumFunctionOnSet(f, S) = c * Cardinality(S)
<1>. DEFINE G == {T \in SUBSET S : SumFunctionOnSet(f, T) = c * Cardinality(T)}
<1>1. {} \in G
    BY SumAdds, FS_EmptySet
<1>2. ASSUME NEW T \in SUBSET S, NEW x \in S, T \in G, x \notin T
      PROVE  T \cup {x} \in G
  <2>1. SumFunctionOnSet(f, T \cup {x}) = c + c * Cardinality(T)
    BY <1>2, SumAdds
  <2>2. Cardinality(T \cup {x}) = Cardinality(T) + 1 /\ Cardinality(T) \in Nat
    BY <1>2, FS_Subset, FS_AddElement, FS_CardinalityType
  <2>3. c * (Cardinality(T) + 1) = c + c * Cardinality(T)
    BY <2>2
  <2>. QED
    BY <2>1, <2>2, <2>3
<1>. HIDE DEF G
<1>3. S \in G
    BY <1>1, <1>2, SetInduction
<1>. QED
    BY <1>3 DEF G

(* Numbers of at least c sum up to at least as many times c.               *)
LEMMA SumAtLeast ==
    ASSUME NEW f, NEW S, IsFiniteSet(S), NEW c \in Int,
           \A x \in S : f[x] \in Int /\ f[x] >= c
    PROVE  SumFunctionOnSet(f, S) >= c * Cardinality(S)
<1>. DEFINE G == {T \in SUBSET S : SumFunctionOnSet(f, T) >= c * Cardinality(T)}
<1>1. {} \in G
    BY SumAdds, FS_EmptySet
<1>2. ASSUME NEW T \in SUBSET S, NEW x \in S, T \in G, x \notin T
      PROVE  T \cup {x} \in G
  <2>1. /\ SumFunctionOnSet(f, T \cup {x}) = f[x] + SumFunctionOnSet(f, T)
        /\ SumFunctionOnSet(f, T) \in Int
    BY <1>2, SumAdds
  <2>2. Cardinality(T \cup {x}) = Cardinality(T) + 1 /\ Cardinality(T) \in Nat
    BY <1>2, FS_Subset, FS_AddElement, FS_CardinalityType
  <2>3. c * (Cardinality(T) + 1) = c + c * Cardinality(T) /\ c * Cardinality(T) \in Int
    <3>1. \A k \in Nat : c * (k + 1) = c + c * k /\ c * k \in Int
      OBVIOUS
    <3>. QED
      BY <2>2, <3>1
  <2>4. SumFunctionOnSet(f, T) >= c * Cardinality(T)
    BY <1>2
  <2>5. f[x] \in Int /\ f[x] >= c
    OBVIOUS
  <2>6. SumFunctionOnSet(f, T \cup {x}) >= c * Cardinality(T \cup {x})
    BY <2>1, <2>2, <2>3, <2>4, <2>5
  <2>. QED
    BY <2>6
<1>. HIDE DEF G
<1>3. S \in G
    BY <1>1, <1>2, SetInduction
<1>. QED
    BY <1>3 DEF G

-----------------------------------------------------------------------------
(* Rounding.                                                               *)

Within(x, m) == -m <= x /\ x <= m

(* DivRoundNearest() is off by half the divisor at most.                   *)
LEMMA RoundsToNearest ==
    ASSUME NEW a \in Int, NEW b \in Nat \ {0}
    PROVE  /\ DivRoundNearest(a, b) \in Int
           /\ Within(2 * (b * DivRoundNearest(a, b) - a), b)
           /\ a >= 0 => DivRoundNearest(a, b) \in Nat
<1>. DEFINE h == b \div 2
            q == (a + h) \div b
<1>1. h \in Nat /\ 2 * h <= b /\ b <= 2 * h + 1
    OBVIOUS
<1>. HIDE DEF h
<1>2. q \in Int /\ b * q <= a + h /\ a + h < b * q + b
    BY <1>1
<1>3. a >= 0 => q >= 0
    BY <1>1
<1>. HIDE DEF q
<1>4. DivRoundNearest(a, b) = q
    BY DEF DivRoundNearest, q, h
<1>5. b * q \in Int
    BY <1>2
<1>6. Within(2 * (b * q - a), b)
    BY <1>1, <1>2, <1>5 DEF Within
<1>. QED
    BY <1>2, <1>3, <1>4, <1>6

(* Two deviations add up.                                                  *)
LEMMA WithinAdds ==
    ASSUME NEW W \in Int, NEW E \in Int, NEW k \in Int,
           NEW a \in Int, NEW b \in Int, NEW v \in Int,
           NEW A \in Int, NEW B \in Int, NEW V \in Int,
           Within(2 * (W * (b - a) - E * v), W),
           Within(2 * (W * (B - A) - E * V), W * k)
    PROVE  Within(2 * (W * ((b + B) - (a + A)) - E * (v + V)), W * (k + 1))
<1>1. /\ W * ((b + B) - (a + A)) = W * (b - a) + W * (B - A)
      /\ E * (v + V) = E * v + E * V
      /\ W * (k + 1) = W * k + W
    OBVIOUS
<1>2. /\ W * (b - a) \in Int /\ W * (B - A) \in Int /\ W * k \in Int
      /\ E * v \in Int /\ E * V \in Int
    OBVIOUS
<1>. QED
    BY <1>1, <1>2 DEF Within

(* What every share is off by rounding adds up to no more than half a      *)
(* percent for each of them.                                               *)
LEMMA RoundingAddsUp ==
    ASSUME NEW f, NEW g, NEW w, NEW S, IsFiniteSet(S), NEW E \in Int, NEW W \in Int,
           \A n \in S : f[n] \in Int /\ g[n] \in Int /\ w[n] \in Int,
           \A n \in S : Within(2 * (W * (g[n] - f[n]) - E * w[n]), W)
    PROVE  Within(2 * (W * (SumFunctionOnSet(g, S) - SumFunctionOnSet(f, S))
                          - E * SumFunctionOnSet(w, S)),
                  W * Cardinality(S))
<1>. DEFINE Sum(h, T) == SumFunctionOnSet(h, T)
            Good(T) == Within(2 * (W * (Sum(g, T) - Sum(f, T)) - E * Sum(w, T)),
                              W * Cardinality(T))
            G == {T \in SUBSET S : Good(T)}
<1>1. \A T \in SUBSET S : IsFiniteSet(T) /\ Cardinality(T) \in Nat
    BY FS_Subset, FS_CardinalityType
<1>2. /\ Sum(f, {}) = 0 /\ Sum(g, {}) = 0 /\ Sum(w, {}) = 0
      /\ \A T \in SUBSET S : Sum(f, T) \in Int /\ Sum(g, T) \in Int /\ Sum(w, T) \in Int
      /\ \A T \in SUBSET S, x \in S : x \notin T =>
             /\ Sum(f, T \cup {x}) = f[x] + Sum(f, T)
             /\ Sum(g, T \cup {x}) = g[x] + Sum(g, T)
             /\ Sum(w, T \cup {x}) = w[x] + Sum(w, T)
  <2>. DEFINE Adds(h) ==
                /\ Sum(h, {}) = 0
                /\ \A T \in SUBSET S : Sum(h, T) \in Int
                /\ \A T \in SUBSET S, x \in S : x \notin T =>
                       Sum(h, T \cup {x}) = h[x] + Sum(h, T)
  <2>1. Adds(f)
    BY SumAdds
  <2>2. Adds(g)
    BY SumAdds
  <2>3. Adds(w)
    BY SumAdds
  <2>. HIDE DEF Sum
  <2>. QED
    BY ONLY <2>1, <2>2, <2>3
<1>. HIDE DEF Sum
<1>3. {} \in G
  <2>1. Good({})
    BY <1>2, FS_EmptySet DEF Within
  <2>. QED
    BY <2>1
<1>4. ASSUME NEW T \in SUBSET S, NEW x \in S, T \in G, x \notin T
      PROVE  T \cup {x} \in G
  <2>1. Cardinality(T \cup {x}) = Cardinality(T) + 1
    BY <1>1, <1>4, FS_AddElement
  <2>2. Good(T)
    BY <1>4
  <2>3. /\ f[x] \in Int /\ g[x] \in Int /\ w[x] \in Int
        /\ Sum(f, T) \in Int /\ Sum(g, T) \in Int /\ Sum(w, T) \in Int
        /\ Cardinality(T) \in Int
    BY <1>1, <1>2
  <2>4. Within(2 * (W * ((g[x] + Sum(g, T)) - (f[x] + Sum(f, T)))
                       - E * (w[x] + Sum(w, T))),
               W * (Cardinality(T) + 1))
    BY <2>2, <2>3, WithinAdds
  <2>5. /\ Sum(f, T \cup {x}) = f[x] + Sum(f, T)
        /\ Sum(g, T \cup {x}) = g[x] + Sum(g, T)
        /\ Sum(w, T \cup {x}) = w[x] + Sum(w, T)
    BY <1>2, <1>4
  <2>6. Good(T \cup {x})
    BY <2>1, <2>4, <2>5
  <2>. QED
    BY <2>6
<1>. HIDE DEF G
<1>5. S \in G
    BY <1>3, <1>4, SetInduction
<1>. QED
    BY <1>5 DEF G, Sum

(* An amount E that is split by weight, or into equal parts, comes out     *)
(* within half a percent for every part.                                   *)
LEMMA SplitAddsUp ==
    ASSUME NEW f, NEW g, NEW w, NEW S, IsFiniteSet(S), NEW E \in Int, NEW W \in Nat \ {0},
           \A n \in S : f[n] \in Int /\ w[n] \in Int,
           \A n \in S : g[n] = f[n] + DivRoundNearest(E * w[n], W),
           SumFunctionOnSet(w, S) = W
    PROVE  /\ \A n \in S : g[n] \in Int
           /\ Within(2 * (SumFunctionOnSet(g, S) - SumFunctionOnSet(f, S) - E),
                     Cardinality(S))
<1>1. ASSUME NEW n \in S
      PROVE  g[n] \in Int /\ Within(2 * (W * (g[n] - f[n]) - E * w[n]), W)
  <2>1. E * w[n] \in Int
    OBVIOUS
  <2>2. /\ DivRoundNearest(E * w[n], W) \in Int
        /\ Within(2 * (W * DivRoundNearest(E * w[n], W) - E * w[n]), W)
    BY <2>1, RoundsToNearest
  <2>3. g[n] - f[n] = DivRoundNearest(E * w[n], W)
    BY <2>2
  <2>. QED
    BY <2>2, <2>3
<1>. DEFINE x == SumFunctionOnSet(g, S) - SumFunctionOnSet(f, S)
            k == Cardinality(S)
<1>2. Within(2 * (W * x - E * W), W * k)
  <2>1. /\ \A n \in S : f[n] \in Int /\ g[n] \in Int /\ w[n] \in Int
        /\ \A n \in S : Within(2 * (W * (g[n] - f[n]) - E * w[n]), W)
        /\ W \in Int
    BY <1>1
  <2>2. Within(2 * (W * (SumFunctionOnSet(g, S) - SumFunctionOnSet(f, S))
                      - E * SumFunctionOnSet(w, S)),
               W * Cardinality(S))
    BY ONLY <2>1, IsFiniteSet(S), E \in Int, RoundingAddsUp
  <2>. QED
    BY <2>2
<1>3. x \in Int /\ k \in Nat
    BY <1>1, SumRemoves, FS_CardinalityType
<1>. HIDE DEF x, k
<1>. DEFINE y == 2 * (x - E)
<1>4. y \in Int /\ 2 * (W * x - E * W) = W * y
    BY <1>3
<1>. HIDE DEF y
<1>5. W * y <= W * k /\ W * (-k) <= W * y
  <2>1. W * (-k) = -(W * k)
    BY <1>3
  <2>. QED
    BY <1>2, <1>4, <2>1 DEF Within
<1>6. y <= k /\ -k <= y
  <2>1. ASSUME NEW p \in Int, NEW q \in Int, W * p <= W * q
        PROVE  p <= q
    <3>. SUFFICES ASSUME p >= q + 1
                  PROVE  FALSE
      OBVIOUS
    <3>1. W * p >= W * (q + 1)
      BY <2>1
    <3>2. W * (q + 1) = W * q + W /\ W * q \in Int
      OBVIOUS
    <3>. QED
      BY <2>1, <3>1, <3>2
  <2>2. -k \in Int
    BY <1>3
  <2>. QED
    BY <1>3, <1>4, <1>5, <2>1, <2>2
<1>. QED
    BY <1>1, <1>6 DEF Within, x, k, y

-----------------------------------------------------------------------------
(* The demand of a room, and where it would be.                            *)

(* What the allocator may remember of a room.                              *)
Reported(r) ==
    /\ r["RoomTemp"] \in Int \cup {None}
    /\ r["DamperBudget"] \in Positions \cup {None}
    /\ r["DamperMode"] \in NodeModes \cup {"Stalled", None}
    /\ r["DamperTarget"] \in Positions \cup {None}

(* What it may remember of all of them.                                    *)
AllReported(online, reports) == \A n \in online : Reported(reports[n])

(* A room asks for a percentage of the damper.                             *)
LEMMA RoomDemandType ==
    ASSUME NEW air \in Int, NEW temp \in Int
    PROVE  RoomDemand(air, temp) \in Positions
<1>. DEFINE want == Magnitude(temp) - Deadband
            span == Authority - Deadband
            q == DivRoundNearest(want * Full, span)
<1>1. /\ Full \in Nat \ {0} /\ Deadband \in Nat /\ Authority \in Nat
      /\ want \in Int /\ span \in Int
    BY AllocatorConstants DEF Magnitude
<1>2. SupplyHelpsRoom(air, temp) => want > 0
    BY <1>1 DEF SupplyHelpsRoom, Magnitude
<1>3. ASSUME want > 0, want < span
      PROVE  q \in Positions
  <2>. HIDE DEF want, span
  <2>1. want \in Nat /\ span \in Nat \ {0} /\ want * Full \in Nat
    BY <1>1, <1>3
  <2>2. want * Full <= (span - 1) * Full
    BY <1>1, <1>3
  <2>3. (span - 1) * Full = span * Full - Full /\ span * Full \in Int
    BY <1>1
  <2>4. /\ q \in Nat
        /\ 2 * (span * q - want * Full) <= span
    BY <2>1, RoundsToNearest DEF Within
  <2>. HIDE DEF q
  <2>5. CASE q >= Full + 1
    <3>1. span * q >= span * (Full + 1)
      BY <1>1, <2>1, <2>4, <2>5
    <3>2. span * (Full + 1) = span * Full + span
      BY <1>1
    <3>3. span * q \in Int
      BY <2>1, <2>4
    <3>. QED
      BY <1>1, <2>1, <2>2, <2>3, <2>4, <3>1, <3>2, <3>3
  <2>6. CASE q <= Full
    BY <1>1, <2>4, <2>6 DEF Positions
  <2>. QED
    BY <1>1, <2>4, <2>5, <2>6
<1>4. RoomDemand(air, temp) = IF ~SupplyHelpsRoom(air, temp) THEN 0
                              ELSE IF want >= span THEN Full ELSE q
    BY DEF RoomDemand
<1>. HIDE DEF want, span, q
<1>5. 0 \in Positions /\ Full \in Positions
    BY <1>1 DEF Positions
<1>. QED
    BY <1>1, <1>2, <1>3, <1>4, <1>5

(* So it does where there is the data to judge it by.                      *)
LEMMA JudgedDemand ==
    ASSUME NEW r, Reported(r), NEW air \in Int \cup {None}, Judged(r, air)
    PROVE  /\ air \in Int /\ r["RoomTemp"] \in Int
           /\ RoomDemand(air, r["RoomTemp"]) \in Positions
BY RoomDemandType DEF Judged, Reported

(* A mode is one of the three.                                             *)
LEMMA SeenModeType ==
    ASSUME NEW r, Reported(r)
    PROVE  SeenMode(r) \in {"Auto", "Manual", "Stalled"}
BY DEF Reported, SeenMode, NodeModes

(* Without a minimum a damper is inside its range, too.                    *)
LEMMA UnflooredType ==
    ASSUME NEW r, Reported(r), NEW air \in Int \cup {None}, NEW max \in Positions
    PROVE  Unfloored(r, air, max) \in Positions
<1>. DEFINE wish == IF Judged(r, air) THEN RoomDemand(air, r["RoomTemp"]) ELSE Neutral
            hand == IF r["DamperTarget"] = None THEN 0 ELSE r["DamperTarget"]
<1>1. 0 \in Positions /\ Neutral \in Positions /\ Positions \subseteq Int
    BY AllocatorConstants DEF Positions
<1>2. wish \in Positions /\ hand \in Positions
    BY <1>1, JudgedDemand DEF Reported
<1>. HIDE DEF wish, hand
<1>3. Lesser(wish, max) \in Positions
    BY <1>1, <1>2 DEF Lesser
<1>4. /\ SeenMode(r) = "Stalled" => Unfloored(r, air, max) = 0
      /\ SeenMode(r) = "Auto" => Unfloored(r, air, max) = Lesser(wish, max)
      /\ SeenMode(r) = "Manual" => Unfloored(r, air, max) = hand
    BY Zenon DEF Unfloored, wish, hand
<1>5. SeenMode(r) \in {"Auto", "Manual", "Stalled"}
    BY SeenModeType
<1>. QED
    BY <1>1, <1>2, <1>3, <1>4, <1>5

-----------------------------------------------------------------------------
(* The water-fill.                                                         *)

(* How far the shares of k rooms may be off the pool, four times over,     *)
(* while j of them are open.                                               *)
Slack(k, j) == k * (k + 1) - j * (j - 1)

(* Room n's part of an amount E that the rooms S share.                    *)
Part(E, weight, S, n) ==
    IF SumFunctionOnSet(weight, S) > 0
    THEN DivRoundNearest(E * weight[n], SumFunctionOnSet(weight, S))
    ELSE DivRoundNearest(E, Cardinality(S))

(* The parts of FillPass.                                                  *)
Over(fill)   == {n \in fill.open : fill.give[n] > Full}
Open(fill)   == fill.open \ Over(fill)
Excess(fill) == SumFunctionOnSet(fill.give, Over(fill)) - Full * Cardinality(Over(fill))
Extra(fill, weight, n) == Part(Excess(fill), weight, Open(fill), n)

(* What a pass leaves of the shares.                                       *)
FillStates(online, known) == [open : SUBSET known, give : [online -> Nat]]

FillOK(online, known, fill) ==
    /\ fill \in FillStates(online, known)
    /\ \A n \in online \ known : fill.give[n] = DefaultBudget
    /\ \A n \in known \ fill.open : fill.give[n] = Full
    /\ Within(4 * (SumFunctionOnSet(fill.give, known) - DefaultBudget * Cardinality(known)),
              Slack(Cardinality(known), Cardinality(fill.open)))

Settled(fill) == \A n \in fill.open : fill.give[n] <= Full

(* Fewer open rooms make more room for rounding.                           *)
LEMMA SlackGrows ==
    ASSUME NEW k \in Nat, NEW j \in Nat, NEW i \in Nat, i < j
    PROVE  /\ Slack(k, j) + 2 * i <= Slack(k, i)
           /\ Slack(k, j) \in Int /\ Slack(k, i) \in Int
           /\ i = 0 => 0 <= Slack(k, i)
<1>1. (i + 1) * i <= j * (j - 1)
  <2>1. (i + 1) * i <= j * i /\ j * i <= j * (j - 1)
    OBVIOUS
  <2>. QED
    BY <2>1
<1>2. (i + 1) * i = i * (i - 1) + 2 * i
    OBVIOUS
<1>3. k * (k + 1) \in Nat /\ j * (j - 1) \in Int /\ i * (i - 1) \in Int
    OBVIOUS
<1>4. i = 0 => i * (i - 1) = 0
    OBVIOUS
<1>. QED
    BY <1>1, <1>2, <1>3, <1>4 DEF Slack

(* The sets of a pass, its excess and its equation.                        *)
LEMMA FillPassParts ==
    ASSUME NEW online, IsFiniteSet(online), NEW known \in SUBSET online,
           NEW fill \in FillStates(online, known), NEW weight \in [online -> Nat]
    PROVE  /\ Over(fill) \in SUBSET known /\ Open(fill) \in SUBSET known
           /\ IsFiniteSet(Over(fill)) /\ IsFiniteSet(Open(fill))
           /\ Excess(fill) \in Nat
           /\ Over(fill) # {} => Excess(fill) > 0
           /\ Over(fill) = {} => Excess(fill) = 0
           /\ FillPass(fill, weight) =
                [open |-> Open(fill),
                 give |-> [n \in online |->
                             IF n \in Over(fill) THEN Full
                             ELSE IF n \in Open(fill) /\ Excess(fill) > 0
                             THEN fill.give[n] + Extra(fill, weight, n)
                             ELSE fill.give[n]]]
<1>1. /\ fill.open \in SUBSET known /\ fill.give \in [online -> Nat]
      /\ DOMAIN fill.give = online
    BY DEF FillStates
<1>2. Over(fill) \in SUBSET known /\ Open(fill) \in SUBSET known
    BY <1>1 DEF Over, Open
<1>3. IsFiniteSet(Over(fill)) /\ IsFiniteSet(Open(fill))
    BY <1>2, FS_Subset
<1>4. \A n \in Over(fill) : fill.give[n] \in Int /\ fill.give[n] >= Full + 1
    BY <1>1, AllocatorConstants DEF Over
<1>5. Cardinality(Over(fill)) \in Nat /\ Full \in Nat
    BY <1>3, FS_CardinalityType, AllocatorConstants
<1>6. /\ SumFunctionOnSet(fill.give, Over(fill)) \in Int
      /\ SumFunctionOnSet(fill.give, Over(fill)) >= (Full + 1) * Cardinality(Over(fill))
  <2>1. SumFunctionOnSet(fill.give, Over(fill)) \in Int
    BY <1>3, <1>4, SumRemoves
  <2>2. Full + 1 \in Int
    BY <1>5
  <2>3. SumFunctionOnSet(fill.give, Over(fill)) >= (Full + 1) * Cardinality(Over(fill))
    BY ONLY <1>3, <1>4, <2>2, SumAtLeast
  <2>. QED
    BY <2>1, <2>3
<1>7. Excess(fill) \in Int /\ Excess(fill) >= Cardinality(Over(fill))
  <2>1. \A c \in Nat : (Full + 1) * c = Full * c + c /\ Full * c \in Nat
    BY <1>5
  <2>. QED
    BY <1>5, <1>6, <2>1 DEF Excess
<1>8. Over(fill) # {} => Cardinality(Over(fill)) > 0
    BY <1>3, <1>5, FS_EmptySet
<1>9. Over(fill) = {} => Excess(fill) = 0
    BY <1>5, SumOfNothing, FS_EmptySet DEF Excess
<1>10. FillPass(fill, weight) =
                [open |-> Open(fill),
                 give |-> [n \in online |->
                             IF n \in Over(fill) THEN Full
                             ELSE IF n \in Open(fill) /\ Excess(fill) > 0
                             THEN fill.give[n] + Extra(fill, weight, n)
                             ELSE fill.give[n]]]
    BY <1>1 DEF FillPass, Over, Open, Excess, Extra, Part
<1>. QED
    BY <1>2, <1>3, <1>5, <1>7, <1>8, <1>9, <1>10

(* What is split by weight, or evenly where nobody asks, comes out within  *)
(* half a percent for every room that gets any.                            *)
LEMMA PartsAddUp ==
    ASSUME NEW f, NEW g, NEW weight, NEW S, IsFiniteSet(S), S # {}, NEW E \in Nat,
           \A n \in S : f[n] \in Nat /\ weight[n] \in Nat,
           \A n \in S : g[n] = f[n] + Part(E, weight, S, n)
    PROVE  /\ \A n \in S : Part(E, weight, S, n) \in Nat
           /\ Within(2 * (SumFunctionOnSet(g, S) - SumFunctionOnSet(f, S) - E),
                     Cardinality(S))
<1>. DEFINE W == SumFunctionOnSet(weight, S)
            C == Cardinality(S)
            ones == [n \in S |-> 1]
<1>1. W \in Int /\ C \in Nat \ {0} /\ E \in Int
    BY SumRemoves, FS_CardinalityType, FS_EmptySet
<1>2. \A n \in S : Part(E, weight, S, n) = IF W > 0 THEN DivRoundNearest(E * weight[n], W)
                                           ELSE DivRoundNearest(E, C)
    BY DEF Part
<1>3. SumFunctionOnSet(weight, S) = W
    OBVIOUS
<1>. HIDE DEF W, C
<1>4. CASE W > 0
  <2>1. W \in Nat \ {0}
    BY <1>1, <1>4
  <2>2. \A n \in S : Part(E, weight, S, n) \in Nat
    <3>. SUFFICES ASSUME NEW n \in S
                  PROVE  Part(E, weight, S, n) \in Nat
      OBVIOUS
    <3>1. E * weight[n] \in Int /\ E * weight[n] >= 0
      OBVIOUS
    <3>. QED
      BY <1>2, <1>4, <2>1, <3>1, RoundsToNearest
  <2>3. \A n \in S : g[n] = f[n] + DivRoundNearest(E * weight[n], W)
    BY <1>2, <1>4
  <2>4. \A n \in S : f[n] \in Int /\ weight[n] \in Int
    OBVIOUS
  <2>5. Within(2 * (SumFunctionOnSet(g, S) - SumFunctionOnSet(f, S) - E), Cardinality(S))
    BY ONLY IsFiniteSet(S), <1>1, <1>3, <2>1, <2>3, <2>4, SplitAddsUp
  <2>. QED
    BY <2>2, <2>5
<1>5. CASE ~(W > 0)
  <2>1. \A n \in S : Part(E, weight, S, n) = DivRoundNearest(E, C)
    BY <1>2, <1>5
  <2>2. DivRoundNearest(E, C) \in Nat
    BY <1>1, RoundsToNearest
  <2>3. \A n \in S : g[n] = f[n] + DivRoundNearest(E * ones[n], C)
    BY <1>1, <2>1
  <2>4. \A n \in S : f[n] \in Int /\ ones[n] \in Int /\ ones[n] = 1
    OBVIOUS
  <2>5. SumFunctionOnSet(ones, S) = C
    <3>1. SumFunctionOnSet(ones, S) = 1 * Cardinality(S)
      BY <2>4, SumConstant
    <3>. QED
      BY <1>1, <3>1 DEF C
  <2>. HIDE DEF ones
  <2>6. Within(2 * (SumFunctionOnSet(g, S) - SumFunctionOnSet(f, S) - E), Cardinality(S))
    BY ONLY IsFiniteSet(S), <1>1, <2>3, <2>4, <2>5, SplitAddsUp
  <2>. QED
    BY <2>1, <2>2, <2>6
<1>. QED
    BY <1>4, <1>5

(* A pass keeps what is on the hand, but for the rounding, and closes a    *)
(* room or finds none to close.                                            *)
LEMMA FillPassKeeps ==
    ASSUME NEW online, IsFiniteSet(online), NEW known \in SUBSET online,
           NEW fill, FillOK(online, known, fill), NEW weight \in [online -> Nat]
    PROVE  LET next == FillPass(fill, weight)
           IN  /\ FillOK(online, known, next)
               /\ Settled(fill) => Settled(next)
               /\ Settled(fill) \/ Cardinality(next.open) < Cardinality(fill.open)
<1>. DEFINE next == FillPass(fill, weight)
            k == Cardinality(known)
            j == Cardinality(fill.open)
            i == Cardinality(Open(fill))
            E == Excess(fill)
            pool == DefaultBudget * k
            Sum(f, T) == SumFunctionOnSet(f, T)
<1>1. /\ fill \in FillStates(online, known) /\ fill.open \in SUBSET known
      /\ fill.give \in [online -> Nat]
    BY DEF FillOK, FillStates
<1>2. /\ Over(fill) \in SUBSET known /\ Open(fill) \in SUBSET known
      /\ IsFiniteSet(Over(fill)) /\ IsFiniteSet(Open(fill))
      /\ E \in Nat
      /\ Over(fill) # {} => E > 0
      /\ Over(fill) = {} => E = 0
      /\ next.open = Open(fill)
      /\ next.give = [n \in online |->
                             IF n \in Over(fill) THEN Full
                             ELSE IF n \in Open(fill) /\ E > 0
                             THEN fill.give[n] + Extra(fill, weight, n)
                             ELSE fill.give[n]]
      /\ next = [open |-> next.open, give |-> next.give]
    BY <1>1, FillPassParts
<1>3. /\ IsFiniteSet(known) /\ IsFiniteSet(fill.open)
      /\ k \in Nat /\ j \in Nat /\ i \in Nat /\ Full \in Nat /\ DefaultBudget \in Nat
      /\ DefaultBudget <= Full
    BY <1>1, <1>2, FS_Subset, FS_CardinalityType, AllocatorConstants
<1>4. Settled(fill) <=> Over(fill) = {}
    BY <1>1, <1>3 DEF Settled, Over
<1>. HIDE DEF next, E
<1>5. CASE Over(fill) = {}
  <2>1. next.open = fill.open
    BY <1>2, <1>5 DEF Open
  <2>2. next.give = fill.give
    BY <1>1, <1>2, <1>5
  <2>3. FillOK(online, known, next) /\ Settled(next)
    BY <1>1, <1>2, <1>4, <1>5, <2>1, <2>2 DEF FillOK, FillStates, Settled
  <2>. QED
    BY <1>4, <1>5, <2>3 DEF next
<1>6. CASE Over(fill) # {}
  <2>1. i < j
    <3>1. Open(fill) \in SUBSET fill.open /\ Open(fill) # fill.open
      BY <1>6 DEF Open, Over
    <3>2. i <= j /\ (j = i => fill.open = Open(fill))
      BY <1>3, <3>1, FS_Subset
    <3>. QED
      BY <1>3, <3>1, <3>2
  <2>2. /\ \A n \in Over(fill) : next.give[n] = Full
        /\ \A n \in Open(fill) : next.give[n] = fill.give[n] + Extra(fill, weight, n)
        /\ \A n \in online \ fill.open : next.give[n] = fill.give[n]
    BY <1>1, <1>2, <1>6 DEF Over, Open
  <2>3. /\ \A n \in Open(fill) : Extra(fill, weight, n) \in Nat
        /\ Open(fill) # {} =>
             Within(2 * (Sum(next.give, Open(fill)) - Sum(fill.give, Open(fill)) - E), i)
    <3>1. CASE Open(fill) = {}
      BY <3>1
    <3>2. CASE Open(fill) # {}
      <4>1. \A n \in Open(fill) : fill.give[n] \in Nat /\ weight[n] \in Nat
        BY <1>1, <1>2
      <4>2. \A n \in Open(fill) :
                next.give[n] = fill.give[n] + Part(E, weight, Open(fill), n)
        BY <2>2 DEF Extra, E
      <4>3. /\ \A n \in Open(fill) : Part(E, weight, Open(fill), n) \in Nat
            /\ Within(2 * (Sum(next.give, Open(fill)) - Sum(fill.give, Open(fill)) - E), i)
        BY ONLY <1>2, <3>2, <4>1, <4>2, PartsAddUp
      <4>. QED
        BY <4>3 DEF Extra, E
    <3>. QED
      BY <3>1, <3>2
  <2>4. next.give \in [online -> Nat]
    BY <1>1, <1>2, <1>3, <2>3
  <2>. DEFINE rest == known \ fill.open
              T == Sum(fill.give, known)
              U == Sum(next.give, known)
  <2>5. ASSUME NEW f \in [online -> Nat]
        PROVE  /\ Sum(f, known) = Sum(f, Over(fill)) + Sum(f, Open(fill)) + Sum(f, rest)
               /\ Sum(f, known) \in Int /\ Sum(f, Over(fill)) \in Int
               /\ Sum(f, Open(fill)) \in Int /\ Sum(f, rest) \in Int
    <3>. DEFINE part == Over(fill) \cup Open(fill)
    <3>1. /\ part \cup rest = known /\ part \cap rest = {}
          /\ Over(fill) \cap Open(fill) = {}
      BY <1>1 DEF Over, Open
    <3>2. /\ \A n \in known : f[n] \in Int
          /\ \A n \in part : f[n] \in Int
      BY <3>1
    <3>3. IsFiniteSet(part)
      BY <1>3, <3>1, FS_Subset
    <3>4. Sum(f, part) = Sum(f, Over(fill)) + Sum(f, Open(fill))
      BY <3>1, <3>2, <3>3, SumSplits
    <3>. HIDE DEF part, rest
    <3>5. Sum(f, known) = Sum(f, part) + Sum(f, rest)
      <4>1. \A n \in part \cup rest : f[n] \in Int
        BY <3>1, <3>2
      <4>2. IsFiniteSet(part \cup rest)
        BY <1>3, <3>1
      <4>3. Sum(f, part \cup rest) = Sum(f, part) + Sum(f, rest)
        BY ONLY <3>1, <4>1, <4>2, SumSplits
      <4>. QED
        BY <3>1, <4>3
    <3>6. /\ Over(fill) \in SUBSET known /\ Open(fill) \in SUBSET known
          /\ rest \in SUBSET known /\ known \in SUBSET known
      BY <1>2, <3>1
    <3>7. \A A \in SUBSET known : Sum(f, A) \in Int
      BY <1>3, <3>2, SumAdds
    <3>. QED
      BY <3>4, <3>5, <3>6, <3>7
  <2>6. /\ Sum(next.give, Over(fill)) = Full * Cardinality(Over(fill))
        /\ E = Sum(fill.give, Over(fill)) - Full * Cardinality(Over(fill))
    BY <1>2, <1>3, <2>2, SumConstant DEF E, Excess
  <2>7. Sum(next.give, rest) = Sum(fill.give, rest)
    <3>1. IsFiniteSet(rest)
      BY <1>3, FS_Subset
    <3>2. \A n \in rest : next.give[n] \in Int /\ next.give[n] = fill.give[n]
      BY <2>2, <2>4
    <3>. QED
      BY <3>1, <3>2, SumSame
  <2>8. /\ T \in Int /\ U \in Int
        /\ U - T = (Sum(next.give, Open(fill)) - Sum(fill.give, Open(fill))) - E
    <3>. HIDE DEF T, U, rest
    <3>. DEFINE c == Full * Cardinality(Over(fill))
    <3>1. c \in Int
      BY <1>2, <1>3, FS_CardinalityType
    <3>. HIDE DEF c
    <3>2. /\ T = Sum(fill.give, Over(fill)) + Sum(fill.give, Open(fill)) + Sum(fill.give, rest)
          /\ T \in Int /\ Sum(fill.give, Over(fill)) \in Int
          /\ Sum(fill.give, Open(fill)) \in Int /\ Sum(fill.give, rest) \in Int
      BY <1>1, <2>5 DEF T
    <3>3. /\ U = Sum(next.give, Over(fill)) + Sum(next.give, Open(fill)) + Sum(next.give, rest)
          /\ U \in Int /\ Sum(next.give, Open(fill)) \in Int
      BY <2>4, <2>5 DEF U
    <3>4. Sum(next.give, Over(fill)) = c /\ E = Sum(fill.give, Over(fill)) - c
      BY <2>6 DEF c
    <3>. HIDE DEF Sum
    <3>. QED
      BY <2>7, <3>1, <3>2, <3>3, <3>4
  <2>9. Within(4 * (T - pool), Slack(k, j)) /\ pool \in Nat
    BY <1>3 DEF FillOK
  <2>10. Within(4 * (U - pool), Slack(k, i))
    <3>1. /\ Slack(k, j) + 2 * i <= Slack(k, i)
          /\ Slack(k, j) \in Int /\ Slack(k, i) \in Int
          /\ i = 0 => 0 <= Slack(k, i)
      BY <1>3, <2>1, SlackGrows
    <3>2. CASE Open(fill) # {}
      <4>1. Within(2 * (U - T), i)
        BY <2>3, <2>8, <3>2
      <4>. HIDE DEF T, U, pool, i, k, j
      <4>. QED
        BY <1>3, <2>8, <2>9, <3>1, <4>1 DEF Within
    <3>3. CASE Open(fill) = {}
      <4>1. i = 0
        BY <3>3, FS_EmptySet
      <4>2. U = T - E
        <5>1. Sum(next.give, {}) = 0 /\ Sum(fill.give, {}) = 0
          BY SumOfNothing
        <5>. HIDE DEF T, U, Sum
        <5>. QED
          BY <1>2, <2>8, <3>3, <5>1
      <4>3. \A n \in known : next.give[n] = Full
        <5>1. \A n \in rest : next.give[n] = Full
          BY <2>2 DEF FillOK
        <5>2. fill.open = Over(fill)
          BY <3>3 DEF Open, Over
        <5>. QED
          BY <2>2, <5>1, <5>2
      <4>4. U = Full * k
        BY <1>3, <4>3, SumConstant
      <4>5. pool <= Full * k
        BY <1>3
      <4>. HIDE DEF T, U, pool, i, k, j
      <4>6. 0 <= U - pool /\ U - pool <= T - pool
        <5>1. E >= 0 /\ E \in Int /\ pool <= U
          BY <1>2, <4>4, <4>5
        <5>. QED
          BY <2>8, <2>9, <4>2, <5>1
      <4>. QED
        BY <1>3, <2>8, <2>9, <3>1, <4>1, <4>6 DEF Within
    <3>. QED
      BY <3>2, <3>3
  <2>11. \A n \in online \ known : next.give[n] = DefaultBudget
    BY <1>1, <2>2 DEF FillOK
  <2>12. \A n \in known \ next.open : next.give[n] = Full
    BY <1>2, <2>2 DEF FillOK, Open
  <2>13. FillOK(online, known, next)
    BY <1>2, <2>4, <2>10, <2>11, <2>12 DEF FillOK, FillStates
  <2>. QED
    BY <1>2, <1>4, <1>6, <2>1, <2>13 DEF next
<1>. QED
    BY <1>5, <1>6

(* The first split.                                                        *)
LEMMA FirstSplit ==
    ASSUME NEW online, IsFiniteSet(online), NEW known \in SUBSET online,
           NEW weight \in [online -> Nat], NEW start,
           start = [open |-> known,
                    give |-> [n \in online |->
                        IF n \in known
                        THEN Part(DefaultBudget * Cardinality(known), weight, known, n)
                        ELSE DefaultBudget]]
    PROVE  FillOK(online, known, start)
<1>. DEFINE k == Cardinality(known)
            pool == DefaultBudget * k
            zero == [n \in known |-> 0]
            give == start.give
            x == SumFunctionOnSet(give, known)
<1>1. /\ IsFiniteSet(known) /\ k \in Nat /\ DefaultBudget \in Nat /\ pool \in Nat
    BY FS_Subset, FS_CardinalityType, AllocatorConstants
<1>2. /\ start.open = known /\ start = [open |-> known, give |-> give]
      /\ \A n \in known : give[n] = Part(pool, weight, known, n)
      /\ \A n \in online \ known : give[n] = DefaultBudget
      /\ give = [n \in online |-> IF n \in known THEN Part(pool, weight, known, n)
                                  ELSE DefaultBudget]
    OBVIOUS
<1>3. Slack(k, k) = 2 * k
    BY <1>1 DEF Slack
<1>. HIDE DEF pool, give
<1>4. CASE known = {}
  <2>1. give \in [online -> Nat]
    BY <1>1, <1>2, <1>4
  <2>2. k = 0 /\ x = 0 /\ pool = 0
    BY <1>1, <1>4, SumOfNothing, FS_EmptySet DEF pool
  <2>3. Within(4 * (x - pool), Slack(k, k))
    BY <1>3, <2>2 DEF Within
  <2>. QED
    BY <1>2, <2>1, <2>3 DEF FillOK, FillStates, give, pool
<1>5. CASE known # {}
  <2>1. \A n \in known : zero[n] \in Nat /\ weight[n] \in Nat /\ zero[n] = 0
    OBVIOUS
  <2>2. SumFunctionOnSet(zero, known) = 0
    <3>1. SumFunctionOnSet(zero, known) = 0 * k
      BY <1>1, <2>1, SumConstant
    <3>. QED
      BY <1>1, <3>1
  <2>. HIDE DEF zero
  <2>3. \A n \in known : Part(pool, weight, known, n) \in Nat
    <3>. DEFINE g == [n \in known |-> zero[n] + Part(pool, weight, known, n)]
    <3>1. \A n \in known : g[n] = zero[n] + Part(pool, weight, known, n)
      OBVIOUS
    <3>. HIDE DEF g
    <3>. QED
      BY ONLY <1>1, <1>5, <2>1, <3>1, PartsAddUp
  <2>4. give \in [online -> Nat]
    BY <1>1, <1>2, <2>3
  <2>5. \A n \in known : give[n] = zero[n] + Part(pool, weight, known, n)
    BY <1>2, <2>1, <2>3
  <2>6. Within(2 * (x - SumFunctionOnSet(zero, known) - pool), k)
    BY ONLY <1>1, <1>5, <2>1, <2>5, PartsAddUp
  <2>7. x \in Int
    <3>1. \A n \in known : give[n] \in Int
      BY <2>4
    <3>. QED
      BY <1>1, <3>1, SumRemoves
  <2>8. Within(4 * (x - pool), Slack(k, k))
    <3>. HIDE DEF x, k
    <3>. QED
      BY <1>1, <1>3, <2>2, <2>6, <2>7 DEF Within
  <2>. QED
    BY <1>2, <2>4, <2>8 DEF FillOK, FillStates, give, pool
<1>. QED
    BY <1>4, <1>5

(* The passes one after the other, as FairShares defines them: each leaves *)
(* a room less to fill, so that in the end nobody has too much.            *)
LEMMA FillSettles ==
    ASSUME NEW online, IsFiniteSet(online), NEW known \in SUBSET online,
           NEW weight \in [online -> Nat],
           NEW start, FillOK(online, known, start), NEW L, L = Cardinality(online),
           NEW fill,
           fill = CHOOSE f : f = [pass \in 0..L |->
                      IF pass = 0 THEN start ELSE FillPass(f[pass - 1], weight)]
    PROVE  FillOK(online, known, fill[L]) /\ Settled(fill[L])
<1>. DEFINE S == {s \in FillStates(online, known) : FillOK(online, known, s)}
            F == [s \in S |-> FillPass(s, weight)]
            Rec(f) == [pass \in 0..L |->
                          IF pass = 0 THEN start ELSE FillPass(f[pass - 1], weight)]
<1>1. L \in Nat /\ IsFiniteSet(known) /\ Cardinality(known) <= L
    BY FS_CardinalityType, FS_Subset
<1>2. /\ start \in S
      /\ \A s : s \in S <=> FillOK(online, known, s)
    BY DEF FillOK
<1>3. ASSUME NEW s \in S
      PROVE  /\ FillPass(s, weight) \in S
             /\ Settled(s) => Settled(FillPass(s, weight))
             /\ \/ Settled(s)
                \/ Cardinality(FillPass(s, weight).open) < Cardinality(s.open)
    BY <1>2, FillPassKeeps
<1>. HIDE DEF S
<1>4. F \in [S -> S] /\ \A s \in S : F[s] = FillPass(s, weight)
    BY <1>3
<1>5. PICK g \in [0..L -> S] : Iterates(g, L, start, F)
  <2>1. L \in Nat /\ start \in S /\ F \in [S -> S]
    BY <1>1, <1>2, <1>4
  <2>. HIDE DEF F
  <2>. QED
    BY ONLY <2>1, Iteration
<1>6. g = Rec(g)
  <2>1. \A k \in 0..L : g[k] = Rec(g)[k]
    <3>. SUFFICES ASSUME NEW k \in 0..L
                  PROVE  g[k] = Rec(g)[k]
      OBVIOUS
    <3>1. CASE k = 0
      BY <1>5, <3>1 DEF Iterates
    <3>2. CASE k # 0
      <4>1. k - 1 \in 0..L
        BY <1>1, <3>2
      <4>2. g[k] = F[g[k - 1]] /\ g[k - 1] \in S
        BY <1>5, <3>2, <4>1 DEF Iterates
      <4>3. F[g[k - 1]] = FillPass(g[k - 1], weight)
        BY <1>4, <4>2
      <4>4. Rec(g)[k] = FillPass(g[k - 1], weight)
        BY <3>2
      <4>. HIDE DEF F, Rec
      <4>. QED
        BY <4>2, <4>3, <4>4
    <3>. QED
      BY <3>1, <3>2
  <2>2. g = [k \in 0..L |-> g[k]] /\ Rec(g) = [k \in 0..L |-> Rec(g)[k]]
    BY <1>5
  <2>. HIDE DEF Rec
  <2>. QED
    BY <2>1, <2>2
<1>7. fill = Rec(fill)
  <2>1. fill = CHOOSE f : f = Rec(f)
    OBVIOUS
  <2>. HIDE DEF Rec
  <2>. QED
    BY <1>6, <2>1
<1>8. /\ fill[0] = start
      /\ \A k \in 1..L : fill[k] = FillPass(fill[k - 1], weight)
  <2>1. \A k \in 0..L : Rec(fill)[k] = IF k = 0 THEN start
                                       ELSE FillPass(fill[k - 1], weight)
    OBVIOUS
  <2>. HIDE DEF Rec
  <2>2. 0 \in 0..L /\ \A k \in 1..L : k \in 0..L /\ k # 0
    BY <1>1
  <2>. QED
    BY ONLY <1>7, <2>1, <2>2
<1>. DEFINE T == {k \in 0..L : /\ fill[k] \in S
                               /\ \/ Settled(fill[k])
                                  \/ Cardinality(fill[k].open) + k <= L}
<1>9. 0 \in T
  <2>1. start.open \in SUBSET known
    BY <1>2 DEF FillOK, FillStates
  <2>2. Cardinality(start.open) <= Cardinality(known) /\ Cardinality(start.open) \in Nat
    BY <1>1, <2>1, FS_Subset, FS_CardinalityType
  <2>3. Cardinality(known) \in Nat
    BY <1>1, FS_CardinalityType
  <2>. QED
    BY <1>1, <1>2, <1>8, <2>2, <2>3
<1>10. ASSUME NEW k \in 1..L, k - 1 \in T
       PROVE  k \in T
  <2>. DEFINE last == fill[k - 1]
  <2>1. fill[k] = FillPass(last, weight) /\ last \in S
    BY <1>8, <1>10
  <2>2. Settled(last) \/ Cardinality(last.open) + (k - 1) <= L
    BY <1>10
  <2>. HIDE DEF last
  <2>3. /\ fill[k] \in S
        /\ Settled(last) => Settled(fill[k])
        /\ Settled(last) \/ Cardinality(fill[k].open) < Cardinality(last.open)
    BY <1>3, <2>1
  <2>4. /\ Cardinality(last.open) \in Nat
        /\ Cardinality(fill[k].open) \in Nat
    <3>1. \A s \in S : s.open \in SUBSET known
      BY <1>2 DEF FillOK, FillStates
    <3>2. \A s \in S : IsFiniteSet(s.open)
      BY <1>1, <3>1, FS_Subset
    <3>3. last \in S /\ fill[k] \in S
      BY <2>1, <2>3
    <3>. HIDE DEF S
    <3>. QED
      BY <3>2, <3>3, FS_CardinalityType
  <2>5. Settled(fill[k]) \/ Cardinality(fill[k].open) + k <= L
    BY <1>1, <2>2, <2>3, <2>4
  <2>. QED
    BY <2>3, <2>5
<1>11. L \in T
  <2>. HIDE DEF T
  <2>1. 0..L \subseteq T
    BY ONLY <1>1, <1>9, <1>10, Upto
  <2>. QED
    BY <1>1, <2>1
<1>12. FillOK(online, known, fill[L])
    BY <1>2, <1>11
<1>13. CASE Settled(fill[L])
    BY <1>12, <1>13
<1>14. CASE Cardinality(fill[L].open) + L <= L
  <2>1. fill[L].open \in SUBSET known
    BY <1>12 DEF FillOK, FillStates
  <2>2. IsFiniteSet(fill[L].open) /\ Cardinality(fill[L].open) \in Nat
    BY <1>1, <2>1, FS_Subset, FS_CardinalityType
  <2>3. Cardinality(fill[L].open) = 0
    BY <1>1, <1>14, <2>2
  <2>4. fill[L].open = {}
    BY <2>2, <2>3, FS_EmptySet
  <2>. QED
    BY <1>12, <2>4 DEF Settled
<1>. QED
    BY <1>11, <1>13, <1>14

(* The fair shares: a percentage for every room, the default for those     *)
(* without data, and the pool between the others up to the rounding.       *)
LEMMA FairSharesType ==
    ASSUME NEW online, IsFiniteSet(online), NEW reports,
           AllReported(online, reports), NEW air \in Int
    PROVE  LET known == {n \in online : Judged(reports[n], air)}
               share == FairShares(online, reports, air)
               k     == Cardinality(known)
           IN  /\ share \in [online -> Positions]
               /\ \A n \in online \ known : share[n] = DefaultBudget
               /\ Within(4 * (SumFunctionOnSet(share, known) - DefaultBudget * k), k * (k + 1))
<1>. DEFINE known == {n \in online : Judged(reports[n], air)}
            k == Cardinality(known)
            L == Cardinality(online)
            weight == [n \in online |->
                          IF n \in known THEN RoomDemand(air, reports[n]["RoomTemp"]) ELSE 0]
            start == [open |-> known,
                      give |-> [n \in online |->
                          IF n \in known
                          THEN Part(DefaultBudget * Cardinality(known), weight, known, n)
                          ELSE DefaultBudget]]
            fill == CHOOSE f : f = [pass \in 0..L |->
                        IF pass = 0 THEN start ELSE FillPass(f[pass - 1], weight)]
            share == FairShares(online, reports, air)
            give == fill[L].give
<1>1. /\ known \in SUBSET online /\ IsFiniteSet(known) /\ k \in Nat
      /\ Full \in Nat /\ DefaultBudget \in Positions
    BY FS_Subset, FS_CardinalityType, AllocatorConstants DEF Positions
<1>2. share = [n \in online |-> Lesser(give[n], Full)]
    BY DEF FairShares, Pool, Part
<1>3. weight \in [online -> Nat]
  <2>1. \A n \in known : RoomDemand(air, reports[n]["RoomTemp"]) \in Positions
    BY JudgedDemand DEF AllReported
  <2>2. Positions \subseteq Nat
    BY DEF Positions
  <2>. HIDE DEF known
  <2>. QED
    BY <2>1, <2>2
<1>. HIDE DEF known, weight
<1>4. FillOK(online, known, start)
    BY <1>1, <1>3, FirstSplit
<1>5. FillOK(online, known, fill[L]) /\ Settled(fill[L])
  <2>. DEFINE c == fill
  <2>1. c = CHOOSE f : f = [pass \in 0..L |->
                        IF pass = 0 THEN start ELSE FillPass(f[pass - 1], weight)]
    OBVIOUS
  <2>2. L = Cardinality(online)
    OBVIOUS
  <2>. HIDE DEF start, L, fill
  <2>. QED
    BY ONLY IsFiniteSet(online), <1>1, <1>3, <1>4, <2>1, <2>2, FillSettles
<1>. DEFINE j == Cardinality(fill[L].open)
<1>. HIDE DEF start, fill, L, share
<1>6. /\ give \in [online -> Nat] /\ fill[L].open \in SUBSET known
      /\ \A n \in online \ known : give[n] = DefaultBudget
      /\ \A n \in known : give[n] <= Full
      /\ Within(4 * (SumFunctionOnSet(give, known) - DefaultBudget * k), Slack(k, j))
  <2>1. \A n \in known : give[n] <= Full
    <3>1. \A n \in fill[L].open : give[n] <= Full
      BY <1>5 DEF Settled
    <3>2. \A n \in known \ fill[L].open : give[n] = Full
      BY <1>5 DEF FillOK
    <3>. QED
      BY <1>1, <3>1, <3>2
  <2>. QED
    BY <1>5, <2>1 DEF FillOK, FillStates
<1>. HIDE DEF give
<1>7. \A n \in online : share[n] \in Positions /\ share[n] = give[n]
  <2>. SUFFICES ASSUME NEW n \in online
                PROVE  share[n] \in Positions /\ share[n] = give[n]
    OBVIOUS
  <2>1. give[n] \in Nat /\ give[n] <= Full
    <3>1. CASE n \in known
      BY <1>6, <3>1
    <3>2. CASE n \notin known
      BY <1>1, <1>6, <3>2 DEF Positions
    <3>. QED
      BY <3>1, <3>2
  <2>2. Lesser(give[n], Full) = give[n]
    BY <1>1, <2>1 DEF Lesser
  <2>. QED
    BY <1>1, <1>2, <2>1, <2>2 DEF Positions
<1>8. SumFunctionOnSet(share, known) = SumFunctionOnSet(give, known)
  <2>1. \A n \in known : share[n] \in Int /\ share[n] = give[n]
    BY <1>1, <1>7 DEF Positions
  <2>. QED
    BY <1>1, <2>1, SumSame
<1>9. Within(4 * (SumFunctionOnSet(share, known) - DefaultBudget * k), k * (k + 1))
  <2>1. j \in Nat
    BY <1>1, <1>6, FS_Subset, FS_CardinalityType
  <2>. DEFINE x == 4 * (SumFunctionOnSet(give, known) - DefaultBudget * k)
  <2>2. x \in Int
    <3>1. \A n \in known : give[n] \in Int
      BY <1>1, <1>6
    <3>2. SumFunctionOnSet(give, known) \in Int
      BY <1>1, <3>1, SumRemoves
    <3>. QED
      BY <1>1, <3>2, AllocatorConstants
  <2>3. Within(x, Slack(k, j))
    BY <1>6
  <2>. HIDE DEF x, k, j
  <2>4. Slack(k, j) <= k * (k + 1) /\ Slack(k, j) \in Int /\ k * (k + 1) \in Int
    <3>1. j * (j - 1) >= 0 /\ j * (j - 1) \in Int
      BY <2>1
    <3>2. k * (k + 1) \in Int
      BY <1>1
    <3>. QED
      BY <3>1, <3>2 DEF Slack
  <2>5. Within(x, k * (k + 1))
    BY <2>2, <2>3, <2>4 DEF Within
  <2>. QED
    BY <1>8, <2>5 DEF x
<1>10. share \in [online -> Positions]
    BY <1>2, <1>7
<1>11. \A n \in online \ known : share[n] = DefaultBudget
    BY <1>6, <1>7
<1>. QED
    BY <1>9, <1>10, <1>11 DEF share, known

-----------------------------------------------------------------------------
(* The order in which rooms take a minimum.                                *)

(* A rank is a pair of numbers.                                            *)
LEMMA SurplusRankType ==
    ASSUME NEW r, Reported(r), NEW air \in Int \cup {None}
    PROVE  SurplusRank(r, air) \in Int \X Int
<1>1. Judged(r, air) => r["RoomTemp"] \in Int /\ air \in Int
    BY DEF Judged, Reported
<1>2. Judged(r, air) => PastSetpoint(r, air) \in Int
    BY <1>1 DEF PastSetpoint
<1>. QED
    BY <1>2 DEF SurplusRank

(* The order of pairs, and of addresses where those agree.                 *)
LEMMA PairsAreOrdered ==
    ASSUME NEW p \in Int \X Int, NEW q \in Int \X Int, NEW n \in Nat, NEW o \in Nat
    PROVE  LET Before(a, b, x, y) == \/ a[1] < b[1]
                                     \/ a[1] = b[1] /\ a[2] < b[2]
                                     \/ a = b /\ x < y
           IN  /\ n # o => Before(p, q, n, o) \/ Before(q, p, o, n)
               /\ ~(Before(p, q, n, o) /\ Before(q, p, o, n))
               /\ \A r \in Int \X Int, m \in Nat :
                      Before(p, q, n, o) /\ Before(q, r, o, m) => Before(p, r, n, m)
<1>1. /\ p[1] \in Int /\ p[2] \in Int /\ q[1] \in Int /\ q[2] \in Int
      /\ p = <<p[1], p[2]>> /\ q = <<q[1], q[2]>>
    OBVIOUS
<1>2. p = q <=> p[1] = q[1] /\ p[2] = q[2]
    BY <1>1
<1>3. \A r \in Int \X Int : /\ r[1] \in Int /\ r[2] \in Int
                            /\ q = r <=> q[1] = r[1] /\ q[2] = r[2]
                            /\ p = r <=> p[1] = r[1] /\ p[2] = r[2]
    BY <1>1
<1>. QED
    BY <1>1, <1>2, <1>3

(* RanksBefore is a strict order of the rooms, in which any two compare.   *)
LEMMA RanksAreOrdered ==
    ASSUME NEW online \in SUBSET Nat, NEW reports,
           AllReported(online, reports), NEW air \in Int \cup {None},
           NEW n \in online, NEW o \in online
    PROVE  /\ n # o => RanksBefore(reports, air, n, o) \/ RanksBefore(reports, air, o, n)
           /\ ~(RanksBefore(reports, air, n, o) /\ RanksBefore(reports, air, o, n))
           /\ \A m \in online :
                  RanksBefore(reports, air, n, o) /\ RanksBefore(reports, air, o, m)
                      => RanksBefore(reports, air, n, m)
<1>1. \A m \in online : SurplusRank(reports[m], air) \in Int \X Int /\ m \in Nat
    BY SurplusRankType DEF AllReported
<1>. QED
    BY <1>1, PairsAreOrdered DEF RanksBefore

(* Room n comes first of those that are left.                              *)
Leads(reports, air, left, n) ==
    n \in left /\ \A o \in left \ {n} : RanksBefore(reports, air, n, o)

(* The selection pass finds a room.                                        *)
LEMMA FirstExists ==
    ASSUME NEW online \in SUBSET Nat, NEW reports,
           AllReported(online, reports), NEW air \in Int \cup {None},
           NEW left \in SUBSET online, IsFiniteSet(left), left # {}
    PROVE  \E n \in left : Leads(reports, air, left, n)
<1>. DEFINE Before(n, o) == RanksBefore(reports, air, n, o)
            First(R, n) == n \in R /\ \A o \in R \ {n} : Before(n, o)
            G == {R \in SUBSET left : R = {} \/ \E n \in R : First(R, n)}
<1>1. \A n, o \in left : n # o => Before(n, o) \/ Before(o, n)
    BY RanksAreOrdered
<1>2. \A n, o, m \in left : Before(n, o) /\ Before(o, m) => Before(n, m)
    BY RanksAreOrdered
<1>. HIDE DEF Before
<1>3. {} \in G
    OBVIOUS
<1>4. ASSUME NEW R \in SUBSET left, NEW x \in left, R \in G, x \notin R
      PROVE  R \cup {x} \in G
  <2>1. CASE R = {}
    <3>1. First(R \cup {x}, x)
      BY <2>1
    <3>. QED
      BY <3>1
  <2>2. CASE R # {}
    <3>1. PICK n \in R : First(R, n)
      BY <1>4, <2>2
    <3>2. CASE Before(n, x)
      <4>1. First(R \cup {x}, n)
        BY <3>1, <3>2
      <4>. QED
        BY <4>1
    <3>3. CASE Before(x, n)
      <4>1. First(R \cup {x}, x)
        BY <1>2, <1>4, <3>1, <3>3
      <4>. QED
        BY <4>1
    <3>. QED
      BY <1>1, <1>4, <3>1, <3>2, <3>3
  <2>. QED
    BY <2>1, <2>2
<1>. HIDE DEF G
<1>5. left \in G
    BY <1>3, <1>4, SetInduction
<1>. QED
    BY <1>5 DEF G, Before, Leads

(* Two functions into the integers that differ at x alone.                 *)
DifferAt(f, g, S, x) ==
    /\ \A y \in S : f[y] \in Int /\ g[y] \in Int
    /\ \A y \in S \ {x} : g[y] = f[y]

(* A sum changes by as much as the one number that does.                   *)
LEMMA SumChanges ==
    ASSUME NEW f, NEW g, NEW S, IsFiniteSet(S), NEW x \in S, DifferAt(f, g, S, x)
    PROVE  SumFunctionOnSet(g, S) = SumFunctionOnSet(f, S) - f[x] + g[x]
<1>. DEFINE R == S \ {x}
<1>1. IsFiniteSet(R)
    BY FS_Subset
<1>2. SumFunctionOnSet(g, R) = SumFunctionOnSet(f, R)
    BY <1>1, SumSame DEF DifferAt
<1>3. /\ SumFunctionOnSet(f, S) = f[x] + SumFunctionOnSet(f, R)
      /\ SumFunctionOnSet(g, S) = g[x] + SumFunctionOnSet(g, R)
    BY SumRemoves DEF DifferAt
<1>4. SumFunctionOnSet(f, R) \in Int /\ f[x] \in Int /\ g[x] \in Int
    BY <1>1, SumRemoves DEF DifferAt
<1>. HIDE DEF R
<1>. QED
    BY <1>2, <1>3, <1>4

-----------------------------------------------------------------------------
(* The minimums.                                                           *)

(* Where the dampers are with the minimums taken so far.                   *)
Opened(online, base, mins) == [n \in online |-> Bigger(base[n], mins[n])]

TakeStates(online, auto) ==
    [left : SUBSET auto, shortfall : Nat, mins : [online -> Positions]]

(* What the selection starts from.                                         *)
TakesFrom(online, auto, reports, air, base, missing) ==
    /\ online \in SUBSET Nat /\ IsFiniteSet(online) /\ auto \in SUBSET online
    /\ AllReported(online, reports) /\ air \in Int \cup {None}
    /\ base \in [online -> Positions] /\ missing \in Nat

(* What a selection pass keeps: what is missing is handed out once, to     *)
(* rooms in Auto, and one is fully open before the next takes any.         *)
TakesOK(online, auto, reports, air, base, missing, acc) ==
    /\ acc \in TakeStates(online, auto)
    /\ acc.shortfall <= missing
    /\ SumFunctionOnSet(Opened(online, base, acc.mins), online) + acc.shortfall
           = SumFunctionOnSet(base, online) + missing
    /\ \A n \in online : acc.mins[n] > 0 =>
           n \in auto \ acc.left /\ acc.mins[n] > base[n] /\ missing > 0
    /\ acc.shortfall > 0 =>
           \A n \in auto \ acc.left : Bigger(base[n], acc.mins[n]) = Full
    /\ \A n \in online, o \in auto :
           acc.mins[n] > 0 /\ RanksBefore(reports, air, o, n) =>
               o \notin acc.left /\ Bigger(base[o], acc.mins[o]) = Full

(* Nothing is missing any more, or nobody is left to take it.              *)
Served(acc) == acc.shortfall = 0 \/ acc.left = {}

(* A room takes what it has room for, of what is missing.                  *)
LEMMA TakesKeep ==
    ASSUME NEW online, NEW auto, NEW reports, NEW air, NEW base, NEW missing,
           TakesFrom(online, auto, reports, air, base, missing),
           NEW acc, TakesOK(online, auto, reports, air, base, missing, acc),
           acc.shortfall > 0, NEW best, Leads(reports, air, acc.left, best)
    PROVE  TakesOK(online, auto, reports, air, base, missing, TakesSurplus(acc, best, base))
<1>. DEFINE add == Lesser(Full - base[best], acc.shortfall)
            next == TakesSurplus(acc, best, base)
            old == Opened(online, base, acc.mins)
            new == Opened(online, base, next.mins)
<1>. /\ online \in SUBSET Nat /\ IsFiniteSet(online) /\ auto \in SUBSET online
     /\ AllReported(online, reports) /\ air \in Int \cup {None}
     /\ base \in [online -> Positions] /\ missing \in Nat
    BY DEF TakesFrom
<1>1. /\ acc.left \in SUBSET auto /\ acc.shortfall \in Nat
      /\ acc.mins \in [online -> Positions] /\ best \in acc.left
      /\ best \in auto /\ best \in online
    BY DEF TakesOK, TakeStates, Leads
<1>2. /\ Full \in Nat /\ Positions = 0..Full /\ base[best] \in Positions
    BY <1>1, AllocatorConstants DEF Positions
<1>3. /\ add \in Nat /\ add <= acc.shortfall /\ base[best] + add \in Positions
      /\ base[best] + add < Full => add = acc.shortfall
    BY <1>1, <1>2 DEF Lesser
<1>4. /\ next.left = acc.left \ {best}
      /\ next.shortfall = acc.shortfall - add
      /\ next.mins = IF add > 0 THEN [acc.mins EXCEPT ![best] = base[best] + add]
                     ELSE acc.mins
      /\ next = [left |-> next.left, shortfall |-> next.shortfall, mins |-> next.mins]
    BY DEF TakesSurplus
<1>. HIDE DEF add, next
<1>5. /\ next.mins \in [online -> Positions]
      /\ \A n \in online \ {best} : next.mins[n] = acc.mins[n]
  <2>1. CASE add > 0
    <3>1. next.mins = [acc.mins EXCEPT ![best] = base[best] + add]
      BY <1>4, <2>1
    <3>. HIDE DEF Positions
    <3>. QED
      BY <1>1, <1>3, <3>1
  <2>2. CASE ~(add > 0)
    BY <1>1, <1>4, <2>2
  <2>. QED
    BY <2>1, <2>2
<1>6. acc.mins[best] = 0
  <2>1. ~(acc.mins[best] > 0)
    BY <1>1 DEF TakesOK
  <2>2. acc.mins[best] \in 0..Full
    BY <1>1, <1>2
  <2>. QED
    BY <1>2, <2>1, <2>2
<1>7. /\ add > 0 => next.mins[best] = base[best] + add
      /\ add = 0 => next.mins[best] = 0
    BY <1>1, <1>3, <1>4, <1>6
<1>8. next \in TakeStates(online, auto)
  <2>1. next.left \in SUBSET auto /\ next.shortfall \in Nat
    BY <1>1, <1>3, <1>4
  <2>. QED
    BY <1>4, <1>5, <2>1 DEF TakeStates
<1>9. next.shortfall <= missing
    BY <1>1, <1>3, <1>4 DEF TakesOK
<1>10. /\ old[best] = base[best] /\ new[best] = base[best] + add
       /\ \A n \in online \ {best} : new[n] = old[n]
       /\ \A n \in online : old[n] \in Int /\ new[n] \in Int
  <2>1. /\ \A n \in online : /\ old[n] = Bigger(base[n], acc.mins[n])
                             /\ new[n] = Bigger(base[n], next.mins[n])
    BY DEF Opened
  <2>2. \A n \in online : /\ base[n] \in 0..Full /\ acc.mins[n] \in 0..Full
                          /\ next.mins[n] \in 0..Full
    BY <1>1, <1>2, <1>5
  <2>. HIDE DEF old, new
  <2>3. old[best] = base[best]
    BY <1>1, <1>2, <1>6, <2>1, <2>2 DEF Bigger
  <2>4. new[best] = base[best] + add
    BY <1>1, <1>2, <1>3, <1>7, <2>1, <2>2 DEF Bigger
  <2>5. \A n \in online \ {best} : new[n] = old[n]
    BY <1>5, <2>1
  <2>6. \A n \in online : old[n] \in Int /\ new[n] \in Int
    <3>1. \A a, b \in 0..Full : Bigger(a, b) \in Int
      BY DEF Bigger
    <3>. QED
      BY <2>1, <2>2, <3>1
  <2>. QED
    BY <2>3, <2>4, <2>5, <2>6
<1>11. SumFunctionOnSet(new, online) + next.shortfall = SumFunctionOnSet(base, online) + missing
  <2>. HIDE DEF old, new
  <2>1. SumFunctionOnSet(new, online) = SumFunctionOnSet(old, online) - old[best] + new[best]
    <3>1. DifferAt(old, new, online, best)
      BY <1>10 DEF DifferAt
    <3>. QED
      BY <1>1, <3>1, SumChanges
  <2>2. SumFunctionOnSet(old, online) \in Int
    BY <1>10, SumRemoves
  <2>3. SumFunctionOnSet(old, online) + acc.shortfall
            = SumFunctionOnSet(base, online) + missing
    BY DEF TakesOK, old
  <2>4. base[best] \in Int
    BY <1>2
  <2>5. SumFunctionOnSet(new, online) + next.shortfall
            = SumFunctionOnSet(old, online) + acc.shortfall
    BY <1>1, <1>3, <1>4, <1>10, <2>1, <2>2, <2>4
  <2>. QED
    BY <2>3, <2>5
<1>12. ASSUME NEW n \in online, next.mins[n] > 0
       PROVE  n \in auto \ next.left /\ next.mins[n] > base[n] /\ missing > 0
  <2>1. CASE n = best
    <3>1. add > 0
      BY <1>3, <1>7, <1>12, <2>1
    <3>2. missing > 0
      BY <1>1 DEF TakesOK
    <3>. QED
      BY <1>1, <1>2, <1>3, <1>4, <1>7, <2>1, <3>1, <3>2
  <2>2. CASE n # best
    BY <1>4, <1>5, <1>12, <2>2 DEF TakesOK
  <2>. QED
    BY <2>1, <2>2
<1>13. ASSUME next.shortfall > 0, NEW n \in auto \ next.left
       PROVE  Bigger(base[n], next.mins[n]) = Full
  <2>1. CASE n = best
    <3>1. base[best] + add = Full
      BY <1>1, <1>2, <1>3, <1>4, <1>13
    <3>2. new[best] = Bigger(base[best], next.mins[best])
      BY <1>1 DEF Opened
    <3>. QED
      BY <1>10, <2>1, <3>1, <3>2
  <2>2. CASE n # best
    BY <1>4, <1>5, <1>13, <2>2 DEF TakesOK
  <2>. QED
    BY <2>1, <2>2
<1>14. ASSUME NEW n \in online, NEW o \in auto,
              next.mins[n] > 0, RanksBefore(reports, air, o, n)
       PROVE  o \notin next.left /\ Bigger(base[o], next.mins[o]) = Full
  <2>1. CASE n = best
    <3>1. o # best /\ o \notin acc.left
      <4>1. ~RanksBefore(reports, air, best, o)
        BY <1>1, <1>14, <2>1, RanksAreOrdered
      <4>2. o # best
        BY <1>14, <2>1, <4>1
      <4>. QED
        BY <4>1, <4>2 DEF Leads
    <3>2. Bigger(base[o], acc.mins[o]) = Full
      BY <3>1 DEF TakesOK
    <3>. QED
      BY <1>4, <1>5, <3>1, <3>2
  <2>2. CASE n # best
    <3>1. acc.mins[n] > 0
      BY <1>5, <1>14, <2>2
    <3>2. o \notin acc.left /\ Bigger(base[o], acc.mins[o]) = Full
      BY <1>14, <3>1 DEF TakesOK
    <3>3. o \in online \ {best}
      BY <1>1, <3>2
    <3>. QED
      BY <1>4, <1>5, <3>2, <3>3
  <2>. QED
    BY <2>1, <2>2
<1>15. TakesOK(online, auto, reports, air, base, missing, next)
    BY <1>8, <1>9, <1>11, <1>12, <1>13, <1>14 DEF TakesOK
<1>. QED
    BY <1>15 DEF next

(* So does a selection pass, and it serves a room or finds none to serve.  *)
LEMMA SelectionPassKeeps ==
    ASSUME NEW online, NEW auto, NEW reports, NEW air, NEW base, NEW missing,
           TakesFrom(online, auto, reports, air, base, missing),
           NEW acc, TakesOK(online, auto, reports, air, base, missing, acc)
    PROVE  LET next == SelectionPass(acc, reports, air, base)
           IN  /\ TakesOK(online, auto, reports, air, base, missing, next)
               /\ Served(acc) => next = acc
               /\ Served(acc) \/ Cardinality(next.left) < Cardinality(acc.left)
<1>. DEFINE next == SelectionPass(acc, reports, air, base)
            best == CHOOSE n \in acc.left :
                        \A o \in acc.left \ {n} : RanksBefore(reports, air, n, o)
<1>. /\ online \in SUBSET Nat /\ IsFiniteSet(online) /\ auto \in SUBSET online
     /\ AllReported(online, reports) /\ air \in Int \cup {None}
    BY DEF TakesFrom
<1>1. /\ acc.left \in SUBSET auto /\ acc.left \in SUBSET online /\ acc.shortfall \in Nat
      /\ IsFiniteSet(acc.left)
  <2>1. acc.left \in SUBSET auto /\ acc.shortfall \in Nat
    BY DEF TakesOK, TakeStates
  <2>. QED
    BY <2>1, FS_Subset
<1>2. next = IF acc.shortfall = 0 \/ acc.left = {} THEN acc
             ELSE TakesSurplus(acc, best, base)
    BY DEF SelectionPass
<1>3. CASE Served(acc)
    BY <1>2, <1>3 DEF Served
<1>4. CASE ~Served(acc)
  <2>1. acc.shortfall > 0 /\ acc.left # {}
    BY <1>1, <1>4 DEF Served
  <2>2. \E n \in acc.left : Leads(reports, air, acc.left, n)
    BY <1>1, <2>1, FirstExists
  <2>3. Leads(reports, air, acc.left, best) /\ best \in acc.left
    BY <2>2 DEF Leads
  <2>. HIDE DEF best
  <2>4. next = TakesSurplus(acc, best, base)
    BY <1>2, <2>1
  <2>5. TakesOK(online, auto, reports, air, base, missing, TakesSurplus(acc, best, base))
    BY <2>1, <2>3, TakesKeep
  <2>6. Cardinality(acc.left \ {best}) < Cardinality(acc.left)
    <3>1. Cardinality(acc.left \ {best}) = Cardinality(acc.left) - 1
      BY <1>1, <2>3, FS_RemoveElement
    <3>2. Cardinality(acc.left) \in Nat
      BY <1>1, FS_CardinalityType
    <3>. QED
      BY <3>1, <3>2
  <2>7. TakesSurplus(acc, best, base).left = acc.left \ {best}
    BY DEF TakesSurplus
  <2>. QED
    BY <1>4, <2>4, <2>5, <2>6, <2>7
<1>. QED
    BY <1>3, <1>4

(* The passes one after the other, as Minimums defines them: there are as  *)
(* many as rooms to choose from, so in the end nothing is missing or       *)
(* nobody is left.                                                         *)
LEMMA SelectionServes ==
    ASSUME NEW online, NEW auto, NEW reports, NEW air, NEW base, NEW missing,
           TakesFrom(online, auto, reports, air, base, missing),
           NEW start, TakesOK(online, auto, reports, air, base, missing, start),
           NEW L, L = Cardinality(auto), NEW takes,
           takes = CHOOSE f : f = [pass \in 0..L |->
                       IF pass = 0 THEN start
                       ELSE SelectionPass(f[pass - 1], reports, air, base)]
    PROVE  TakesOK(online, auto, reports, air, base, missing, takes[L]) /\ Served(takes[L])
<1>. DEFINE OK(acc) == TakesOK(online, auto, reports, air, base, missing, acc)
            Next1(acc) == SelectionPass(acc, reports, air, base)
            S == {acc \in TakeStates(online, auto) : OK(acc)}
            F == [acc \in S |-> Next1(acc)]
            Rec(f) == [pass \in 0..L |->
                          IF pass = 0 THEN start
                          ELSE SelectionPass(f[pass - 1], reports, air, base)]
<1>1. L \in Nat /\ IsFiniteSet(auto)
    BY FS_CardinalityType, FS_Subset DEF TakesFrom
<1>2. /\ start \in S
      /\ \A acc : acc \in S <=> OK(acc)
    BY DEF TakesOK
<1>3. ASSUME NEW acc \in S
      PROVE  /\ Next1(acc) \in S
             /\ Served(acc) => Next1(acc) = acc
             /\ Served(acc) \/ Cardinality(Next1(acc).left) < Cardinality(acc.left)
    BY <1>2, SelectionPassKeeps
<1>4. \A acc \in S : acc.left \in SUBSET auto
    BY DEF TakesOK, TakeStates
<1>. HIDE DEF S
<1>5. L \in Nat /\ start \in S /\ F \in [S -> S]
    BY <1>1, <1>2, <1>3
<1>6. \A acc \in S : F[acc] = Next1(acc)
    OBVIOUS
<1>7. PICK g \in [0..L -> S] : Iterates(g, L, start, F)
  <2>. HIDE DEF F
  <2>. QED
    BY ONLY <1>5, Iteration
<1>8. g = Rec(g)
  <2>1. \A k \in 0..L : g[k] = Rec(g)[k]
    <3>. SUFFICES ASSUME NEW k \in 0..L
                  PROVE  g[k] = Rec(g)[k]
      OBVIOUS
    <3>1. CASE k = 0
      BY <1>7, <3>1 DEF Iterates
    <3>2. CASE k # 0
      <4>1. k - 1 \in 0..L
        BY <1>1, <3>2
      <4>2. g[k] = F[g[k - 1]] /\ g[k - 1] \in S
        BY <1>7, <3>2, <4>1 DEF Iterates
      <4>3. F[g[k - 1]] = Next1(g[k - 1])
        BY <1>6, <4>2
      <4>4. Rec(g)[k] = Next1(g[k - 1])
        BY <3>2
      <4>. HIDE DEF F, Rec, Next1
      <4>. QED
        BY <4>2, <4>3, <4>4
    <3>. QED
      BY <3>1, <3>2
  <2>2. g = [k \in 0..L |-> g[k]] /\ Rec(g) = [k \in 0..L |-> Rec(g)[k]]
    BY <1>7
  <2>. HIDE DEF Rec
  <2>. QED
    BY <2>1, <2>2
<1>9. takes = Rec(takes)
  <2>1. takes = CHOOSE f : f = Rec(f)
    OBVIOUS
  <2>. HIDE DEF Rec
  <2>. QED
    BY <1>8, <2>1
<1>10. /\ takes[0] = start
       /\ \A k \in 1..L : takes[k] = Next1(takes[k - 1])
  <2>1. \A k \in 0..L : Rec(takes)[k] = IF k = 0 THEN start ELSE Next1(takes[k - 1])
    OBVIOUS
  <2>. HIDE DEF Rec, Next1
  <2>2. 0 \in 0..L /\ \A k \in 1..L : k \in 0..L /\ k # 0
    BY <1>1
  <2>. QED
    BY ONLY <1>9, <2>1, <2>2
<1>. HIDE DEF Next1
<1>11. \A acc \in S : IsFiniteSet(acc.left) /\ Cardinality(acc.left) \in 0..L
  <2>. SUFFICES ASSUME NEW acc \in S
                PROVE  IsFiniteSet(acc.left) /\ Cardinality(acc.left) \in 0..L
    OBVIOUS
  <2>1. acc.left \in SUBSET auto
    BY <1>4
  <2>2. IsFiniteSet(acc.left) /\ Cardinality(acc.left) <= L
    BY <1>1, <2>1, FS_Subset
  <2>3. Cardinality(acc.left) \in Nat
    BY <2>2, FS_CardinalityType
  <2>. QED
    BY <1>1, <2>2, <2>3
<1>. DEFINE T == {k \in 0..L : /\ takes[k] \in S
                               /\ \/ Served(takes[k])
                                  \/ Cardinality(takes[k].left) + k <= L}
<1>12. 0 \in T
    BY <1>1, <1>5, <1>10, <1>11
<1>13. ASSUME NEW k \in 1..L, k - 1 \in T
       PROVE  k \in T
  <2>. DEFINE last == takes[k - 1]
  <2>1. takes[k] = Next1(last) /\ last \in S
    BY <1>10, <1>13
  <2>2. Served(last) \/ Cardinality(last.left) + (k - 1) <= L
    BY <1>13
  <2>. HIDE DEF last
  <2>3. /\ takes[k] \in S
        /\ Served(last) => takes[k] = last
        /\ Served(last) \/ Cardinality(takes[k].left) < Cardinality(last.left)
    BY <1>3, <2>1
  <2>4. Cardinality(last.left) \in 0..L /\ Cardinality(takes[k].left) \in 0..L
    BY <1>11, <2>1, <2>3
  <2>5. Served(takes[k]) \/ Cardinality(takes[k].left) + k <= L
    BY <1>1, <2>2, <2>3, <2>4
  <2>. QED
    BY <2>3, <2>5
<1>14. L \in T
  <2>. HIDE DEF T
  <2>1. 0..L \subseteq T
    BY ONLY <1>1, <1>12, <1>13, Upto
  <2>. QED
    BY <1>1, <2>1
<1>15. OK(takes[L])
    BY <1>2, <1>14
<1>16. Served(takes[L])
  <2>1. CASE Served(takes[L])
    BY <2>1
  <2>2. CASE Cardinality(takes[L].left) + L <= L
    <3>1. IsFiniteSet(takes[L].left) /\ Cardinality(takes[L].left) \in 0..L
      BY <1>11, <1>14
    <3>2. Cardinality(takes[L].left) = 0
      BY <1>1, <2>2, <3>1
    <3>3. takes[L].left = {}
      BY <3>1, <3>2, FS_EmptySet
    <3>. QED
      BY <3>3 DEF Served
  <2>. QED
    BY <1>14, <2>1, <2>2
<1>. QED
    BY <1>15, <1>16

(* What the minimums come to: enough, or all that there is; no more than   *)
(* enough; and in the order of the ranks.                                  *)
MinimumsOK(online, auto, reports, air, base, mins) ==
    LET opened == Opened(online, base, mins)
        total  == SumFunctionOnSet(opened, online)
    IN  /\ mins \in [online -> Positions]
        /\ \A n \in online : mins[n] > 0 => n \in auto /\ mins[n] > base[n]
        /\ total >= Floor \/ \A n \in auto : opened[n] = Full
        /\ (\E n \in online : mins[n] > 0) => total <= Floor
        /\ \A n \in online, o \in auto :
               mins[n] > 0 /\ RanksBefore(reports, air, o, n) => opened[o] = Full

(* AssignMinimumsAndSend() as a whole.                                     *)
LEMMA MinimumsKeep ==
    ASSUME NEW online \in SUBSET Nat, IsFiniteSet(online), NEW reports,
           AllReported(online, reports), NEW air \in Int \cup {None},
           NEW maxes \in [online -> Positions]
    PROVE  LET auto == {n \in online : SeenMode(reports[n]) = "Auto"}
               base == [n \in online |-> Unfloored(reports[n], air, maxes[n])]
           IN  /\ base \in [online -> Positions]
               /\ MinimumsOK(online, auto, reports, air, base,
                             Minimums(online, reports, air, maxes))
<1>. DEFINE auto == {n \in online : SeenMode(reports[n]) = "Auto"}
            base == [n \in online |-> Unfloored(reports[n], air, maxes[n])]
            zero == [n \in online |-> 0]
            sum == SumFunctionOnSet(base, online)
            missing == Bigger(Floor - sum, 0)
            start == [left |-> auto, shortfall |-> missing, mins |-> zero]
            L == Cardinality(auto)
            takes == CHOOSE f : f = [pass \in 0..L |->
                         IF pass = 0 THEN start
                         ELSE SelectionPass(f[pass - 1], reports, air, base)]
            mins == takes[L].mins
<1>1. Minimums(online, reports, air, maxes) = mins
  <2>1. DOMAIN base = online
    OBVIOUS
  <2>. QED
    BY <2>1 DEF Minimums, SumFunction
<1>2. auto \in SUBSET online
    OBVIOUS
<1>3. base \in [online -> Positions]
    BY UnflooredType DEF AllReported
<1>4. /\ Full \in Nat /\ Floor \in Nat /\ Positions = 0..Full
      /\ \A n \in online : base[n] \in 0..Full
    BY <1>3, AllocatorConstants DEF Positions
<1>. HIDE DEF auto, base
<1>5. sum \in Int
  <2>1. \A n \in online : base[n] \in Int
    BY <1>4
  <2>. QED
    BY <2>1, SumRemoves
<1>6. /\ missing \in Nat /\ sum + missing >= Floor
      /\ missing > 0 => sum + missing = Floor
  <2>. HIDE DEF sum
  <2>. QED
    BY <1>4, <1>5 DEF Bigger
<1>7. TakesFrom(online, auto, reports, air, base, missing)
  <2>. HIDE DEF missing
  <2>. QED
    BY <1>2, <1>3, <1>6 DEF TakesFrom
<1>8. TakesOK(online, auto, reports, air, base, missing, start)
  <2>. HIDE DEF missing
  <2>1. start.left = auto /\ start.shortfall = missing /\ start.mins = zero
    OBVIOUS
  <2>2. start \in TakeStates(online, auto)
    BY <1>4, <1>6 DEF TakeStates
  <2>3. SumFunctionOnSet(Opened(online, base, zero), online) = sum
    <3>. DEFINE opened == Opened(online, base, zero)
    <3>1. \A n \in online : base[n] \in Int /\ base[n] = opened[n]
      BY <1>4 DEF Opened, Bigger
    <3>2. sum = SumFunctionOnSet(base, online)
      OBVIOUS
    <3>. HIDE DEF opened, sum, missing, start, L, takes, mins, zero
    <3>3. SumFunctionOnSet(base, online) = SumFunctionOnSet(opened, online)
      BY ONLY IsFiniteSet(online), <3>1, SumSame
    <3>. QED
      BY <3>2, <3>3 DEF opened
  <2>4. \A n \in online : ~(zero[n] > 0)
    OBVIOUS
  <2>5. auto \ start.left = {} /\ start.shortfall <= missing
    BY <1>6, <2>1
  <2>. HIDE DEF start, zero
  <2>. QED
    BY <2>1, <2>2, <2>3, <2>4, <2>5 DEF TakesOK
<1>9. /\ TakesOK(online, auto, reports, air, base, missing, takes[L])
      /\ Served(takes[L])
  <2>. DEFINE c == takes
  <2>1. c = CHOOSE f : f = [pass \in 0..L |->
                         IF pass = 0 THEN start
                         ELSE SelectionPass(f[pass - 1], reports, air, base)]
    OBVIOUS
  <2>2. L = Cardinality(auto)
    OBVIOUS
  <2>. HIDE DEF start, L, takes, missing
  <2>. QED
    BY ONLY <1>7, <1>8, <2>1, <2>2, SelectionServes
<1>. DEFINE acc == takes[L]
            total == SumFunctionOnSet(Opened(online, base, mins), online)
<1>. HIDE DEF missing, sum, takes, L
<1>10. /\ acc.mins = mins /\ mins \in [online -> Positions]
       /\ acc.left \in SUBSET auto /\ acc.shortfall \in Nat
    BY <1>9 DEF TakesOK, TakeStates
<1>11. total + acc.shortfall = sum + missing
    BY <1>9 DEF TakesOK, sum
<1>12. \A n \in online : Opened(online, base, mins)[n] = Bigger(base[n], mins[n])
    BY DEF Opened
<1>13. total \in Int
  <2>1. \A n \in online : Opened(online, base, mins)[n] \in Int
    <3>1. \A a, b \in 0..Full : Bigger(a, b) \in Int
      BY DEF Bigger
    <3>. QED
      BY <1>4, <1>10, <1>12, <3>1
  <2>. QED
    BY <2>1, SumRemoves
<1>. HIDE DEF total
<1>14. total >= Floor \/ \A n \in auto : Opened(online, base, mins)[n] = Full
  <2>1. CASE acc.shortfall = 0
    BY <1>4, <1>5, <1>6, <1>11, <1>13, <2>1
  <2>2. CASE acc.shortfall > 0
    <3>1. acc.left = {}
      BY <1>9, <2>2 DEF Served
    <3>2. \A n \in auto : Bigger(base[n], mins[n]) = Full
      BY <1>9, <2>2, <3>1 DEF TakesOK
    <3>. QED
      BY <1>2, <1>12, <3>2
  <2>. QED
    BY <1>10, <2>1, <2>2
<1>15. ASSUME NEW n \in online, mins[n] > 0
       PROVE  /\ n \in auto /\ mins[n] > base[n]
              /\ total <= Floor
              /\ \A o \in auto : RanksBefore(reports, air, o, n)
                                     => Opened(online, base, mins)[o] = Full
  <2>1. n \in auto /\ mins[n] > base[n] /\ missing > 0
    BY <1>9, <1>15 DEF TakesOK
  <2>2. total <= Floor
    BY <1>4, <1>5, <1>6, <1>10, <1>11, <1>13, <2>1
  <2>3. \A o \in auto : RanksBefore(reports, air, o, n)
                            => Bigger(base[o], mins[o]) = Full
    BY <1>9, <1>15 DEF TakesOK
  <2>. QED
    BY <1>2, <1>12, <2>1, <2>2, <2>3
<1>16. MinimumsOK(online, auto, reports, air, base, mins)
  <2>. HIDE DEF mins
  <2>. QED
    BY <1>10, <1>14, <1>15 DEF MinimumsOK, total
<1>. QED
    BY <1>1, <1>3, <1>16 DEF auto, base

-----------------------------------------------------------------------------
(* An allocation.                                                          *)

(* A step toward the default stays inside the range.                       *)
LEMMA StepTowardDefaultType ==
    ASSUME NEW online, NEW reports, AllReported(online, reports)
    PROVE  StepTowardDefault(online, reports) \in [online -> Positions]
<1>. DEFINE Held(n) == IF reports[n]["DamperBudget"] = None THEN DefaultBudget
                       ELSE reports[n]["DamperBudget"]
            Step(b) == IF b + BudgetStep < DefaultBudget THEN b + BudgetStep
                       ELSE IF b > DefaultBudget + BudgetStep THEN b - BudgetStep
                       ELSE DefaultBudget
<1>1. StepTowardDefault(online, reports) = [n \in online |-> Step(Held(n))]
    BY DEF StepTowardDefault
<1>2. \A n \in online : Held(n) \in Positions
    BY AllocatorConstants DEF AllReported, Reported, Positions
<1>3. \A b \in Positions : Step(b) \in Positions
    BY AllocatorConstants DEF Positions
<1>. HIDE DEF Held, Step
<1>. QED
    BY <1>1, <1>2, <1>3

(* Whatever there is to allocate by, a maximum is a position.              *)
LEMMA MaxesType ==
    ASSUME NEW online, IsFiniteSet(online), NEW reports,
           AllReported(online, reports), NEW air \in Int \cup {None}
    PROVE  Maxes(online, reports, air) \in [online -> Positions]
<1>1. CASE air = None
    BY <1>1, StepTowardDefaultType DEF Maxes
<1>2. CASE air # None
  <2>1. FairShares(online, reports, air) \in [online -> Positions]
    BY <1>2, FairSharesType
  <2>. QED
    BY <1>2, <2>1 DEF Maxes
<1>. QED
    BY <1>1, <1>2

(* What an allocation is made of.                                          *)
LEMMA AllocationParts ==
    ASSUME NEW online \in SUBSET Nat, IsFiniteSet(online), NEW reports,
           AllReported(online, reports), NEW air \in Int \cup {None}
    PROVE  LET share == Allocation(online, reports, air)
               maxes == Maxes(online, reports, air)
               auto  == {n \in online : SeenMode(reports[n]) = "Auto"}
               base  == [n \in online |-> Unfloored(reports[n], air, maxes[n])]
               mins  == Minimums(online, reports, air, maxes)
           IN  /\ maxes \in [online -> Positions] /\ mins \in [online -> Positions]
               /\ base \in [online -> Positions]
               /\ MinimumsOK(online, auto, reports, air, base, mins)
               /\ \A n \in online : share[n] = [max |-> maxes[n], min |-> mins[n]]
<1>. DEFINE maxes == Maxes(online, reports, air)
            mins  == Minimums(online, reports, air, maxes)
<1>1. maxes \in [online -> Positions]
    BY MaxesType
<1>2. \A n \in online : Allocation(online, reports, air)[n]
                            = [max |-> maxes[n], min |-> mins[n]]
    BY DEF Allocation
<1>. HIDE DEF maxes
<1>3. LET auto == {n \in online : SeenMode(reports[n]) = "Auto"}
          base == [n \in online |-> Unfloored(reports[n], air, maxes[n])]
      IN  base \in [online -> Positions] /\ MinimumsOK(online, auto, reports, air, base, mins)
    BY <1>1, MinimumsKeep
<1>. HIDE DEF mins
<1>4. mins \in [online -> Positions]
    BY <1>3 DEF MinimumsOK
<1>. QED
    BY <1>1, <1>2, <1>3, <1>4 DEF mins, maxes

(* With its share a room is where it would be without a minimum, or at the *)
(* minimum: clamping the wish into the range comes to that.                *)
LEMMA OpensAtMinimum ==
    ASSUME NEW n, Reported(seen[n]), supply \in Int \cup {None},
           NEW max \in Positions, NEW min \in Positions,
           min > 0 => SeenMode(seen[n]) = "Auto"
    PROVE  Opens(n, [max |-> max, min |-> min]) = Bigger(Unfloored(seen[n], supply, max), min)
<1>. DEFINE r == seen[n]
            wish == IF Judged(r, supply) THEN RoomDemand(supply, r["RoomTemp"]) ELSE Neutral
            hand == IF r["DamperTarget"] = None THEN 0 ELSE r["DamperTarget"]
            room == [temp |-> r["RoomTemp"], max |-> Bigger(max, min), min |-> min]
<1>1. 0 \in Positions /\ Neutral \in Positions /\ Positions \subseteq Nat
    BY AllocatorConstants DEF Positions
<1>2. wish \in Positions /\ hand \in Positions
    BY <1>1, JudgedDemand DEF Reported
<1>3. RoomTarget(room, supply) = Bigger(Lesser(wish, Bigger(max, min)), min)
    BY DEF RoomTarget, Judged
<1>4. /\ SeenMode(r) = "Stalled" => Opens(n, [max |-> max, min |-> min]) = 0
      /\ SeenMode(r) = "Manual" => Opens(n, [max |-> max, min |-> min]) = hand
      /\ SeenMode(r) = "Auto" => Opens(n, [max |-> max, min |-> min]) = RoomTarget(room, supply)
    BY Zenon DEF Opens
<1>5. /\ SeenMode(r) = "Stalled" => Unfloored(r, supply, max) = 0
      /\ SeenMode(r) = "Auto" => Unfloored(r, supply, max) = Lesser(wish, max)
      /\ SeenMode(r) = "Manual" => Unfloored(r, supply, max) = hand
    BY Zenon DEF Unfloored
<1>6. SeenMode(r) \in {"Auto", "Manual", "Stalled"}
    BY SeenModeType
<1>. HIDE DEF wish, hand, room
<1>7. Bigger(Lesser(wish, Bigger(max, min)), min) = Bigger(Lesser(wish, max), min)
    BY <1>1, <1>2 DEF Bigger, Lesser
<1>8. CASE SeenMode(r) = "Auto"
    BY <1>3, <1>4, <1>5, <1>7, <1>8
<1>9. CASE SeenMode(r) # "Auto"
  <2>1. min = 0
    BY <1>1, <1>9
  <2>2. Bigger(0, 0) = 0 /\ Bigger(hand, 0) = hand
    BY <1>1, <1>2 DEF Bigger
  <2>. QED
    BY <1>4, <1>5, <1>6, <1>9, <2>1, <2>2
<1>. QED
    BY <1>8, <1>9 DEF r

(* A room that minds extra air less has the lower rank.                    *)
LEMMA MindsLessRanksBefore ==
    ASSUME NEW o, NEW n, Reported(seen[o]), Reported(seen[n]),
           supply \in Int \cup {None}, MindsLess(o, n)
    PROVE  RanksBefore(seen, supply, o, n)
<1>. DEFINE rank == SurplusRank(seen[o], supply)
            other == SurplusRank(seen[n], supply)
            past == PastSetpoint(seen[o], supply)
            otherPast == PastSetpoint(seen[n], supply)
<1>1. seen[n]["DumpRoom"] # TRUE
    BY DEF MindsLess
<1>2. other = IF Judged(seen[n], supply) THEN <<1, otherPast>> ELSE <<2, 0>>
    BY <1>1 DEF SurplusRank
<1>3. SUFFICES \/ rank[1] < other[1]
               \/ rank[1] = other[1] /\ rank[2] < other[2]
    BY DEF RanksBefore
<1>4. CASE seen[o]["DumpRoom"] = TRUE
  <2>1. rank = <<0, 0>>
    BY <1>4 DEF SurplusRank
  <2>2. other[1] \in {1, 2}
    BY <1>2
  <2>. HIDE DEF rank, other
  <2>. QED
    BY <2>1, <2>2
<1>5. CASE seen[o]["DumpRoom"] # TRUE
  <2>1. Judged(seen[o], supply) /\ (Judged(seen[n], supply) => past < otherPast)
    BY <1>5 DEF MindsLess
  <2>2. rank = <<1, past>>
    BY <1>5, <2>1 DEF SurplusRank
  <2>. HIDE DEF rank, other, past, otherPast
  <2>. QED
    BY <1>2, <2>1, <2>2
<1>. QED
    BY <1>4, <1>5

(* What the theorems need to know of what the allocator works with.        *)
Knows ==
    /\ roster \in SUBSET Nodes
    /\ supply \in Int \cup {None}
    /\ AllReported(Nodes, seen)

(* The nodes that are polled are numbers, and finitely many.               *)
LEMMA RosterIsFinite ==
    ASSUME Knows
    PROVE  /\ roster \in SUBSET Nat /\ IsFiniteSet(roster)
           /\ AllReported(roster, seen)
<1>1. IsFiniteSet(roster)
    BY AllocatorConstants, FS_Subset DEF Knows
<1>. QED
    BY <1>1, AllocatorConstants DEF Knows, AllReported

(* An allocation by what is known keeps the duct open.                     *)
LEMMA FloorHolds ==
    ASSUME Knows
    PROVE  FloorIsAllocated
<1>. DEFINE share == Allocation(roster, seen, supply)
            maxes == Maxes(roster, seen, supply)
            mins  == Minimums(roster, seen, supply, maxes)
            auto  == {n \in roster : SeenMode(seen[n]) = "Auto"}
            base  == [n \in roster |-> Unfloored(seen[n], supply, maxes[n])]
            opened == Opened(roster, base, mins)
            total == SumFunctionOnSet(opened, roster)
            places == [n \in roster |-> Opens(n, share[n])]
            raised == {n \in roster : share[n].min > 0}
<1>1. /\ roster \in SUBSET Nat /\ IsFiniteSet(roster)
      /\ AllReported(roster, seen) /\ supply \in Int \cup {None}
    BY RosterIsFinite DEF Knows
<1>2. /\ maxes \in [roster -> Positions] /\ mins \in [roster -> Positions]
      /\ base \in [roster -> Positions]
      /\ MinimumsOK(roster, auto, seen, supply, base, mins)
      /\ \A n \in roster : share[n] = [max |-> maxes[n], min |-> mins[n]]
    BY <1>1, AllocationParts
<1>3. \A n \in roster : base[n] = Unfloored(seen[n], supply, maxes[n])
    OBVIOUS
<1>4. auto \in SUBSET roster /\ \A n \in roster : n \in auto <=> SeenMode(seen[n]) = "Auto"
    OBVIOUS
<1>. HIDE DEF share, maxes, mins, base, auto
<1>5. /\ \A n \in roster : mins[n] > 0 => n \in auto
      /\ total >= Floor \/ \A n \in auto : opened[n] = Full
      /\ (\E n \in roster : mins[n] > 0) => total <= Floor
      /\ \A n \in roster, o \in auto :
             mins[n] > 0 /\ RanksBefore(seen, supply, o, n) => opened[o] = Full
    BY <1>2 DEF MinimumsOK
<1>6. \A n \in roster : Opens(n, share[n]) = opened[n]
  <2>. SUFFICES ASSUME NEW n \in roster
                PROVE  Opens(n, share[n]) = opened[n]
    OBVIOUS
  <2>1. /\ Reported(seen[n]) /\ maxes[n] \in Positions /\ mins[n] \in Positions
        /\ mins[n] > 0 => SeenMode(seen[n]) = "Auto"
        /\ share[n] = [max |-> maxes[n], min |-> mins[n]]
    BY <1>1, <1>2, <1>4, <1>5 DEF AllReported
  <2>2. Opens(n, share[n]) = Bigger(Unfloored(seen[n], supply, maxes[n]), mins[n])
    BY <1>1, <2>1, OpensAtMinimum
  <2>. QED
    BY <1>3, <2>2 DEF Opened
<1>7. places = opened /\ DOMAIN places = roster
    BY <1>6 DEF Opened
<1>8. SumFunction(places) = total
    BY <1>7 DEF SumFunction
<1>9. \A n \in raised : n \in roster /\ mins[n] > 0
  <2>. SUFFICES ASSUME NEW n \in raised
                PROVE  n \in roster /\ mins[n] > 0
    OBVIOUS
  <2>1. n \in roster /\ share[n].min > 0
    OBVIOUS
  <2>2. share[n] = [max |-> maxes[n], min |-> mins[n]]
    BY <1>2, <2>1
  <2>. QED
    BY <2>1, <2>2
<1>. HIDE DEF opened, total
<1>10. total >= Floor \/ \A n \in auto : Opens(n, share[n]) = Full
    BY <1>4, <1>5, <1>6
<1>11. raised # {} => total <= Floor
    BY <1>5, <1>9
<1>12. raised \subseteq auto
    BY <1>5, <1>9
<1>13. \A n \in raised, o \in auto : MindsLess(o, n) => Opens(o, share[o]) = Full
  <2>. SUFFICES ASSUME NEW n \in raised, NEW o \in auto, MindsLess(o, n)
                PROVE  Opens(o, share[o]) = Full
    OBVIOUS
  <2>1. n \in roster /\ mins[n] > 0 /\ o \in roster
    BY <1>4, <1>9
  <2>2. Reported(seen[o]) /\ Reported(seen[n])
    BY <1>1, <2>1 DEF AllReported
  <2>3. RanksBefore(seen, supply, o, n)
    BY <1>1, <2>2, MindsLessRanksBefore
  <2>. QED
    BY <1>5, <1>6, <2>1, <2>3
<1>. QED
    BY <1>8, <1>10, <1>11, <1>12, <1>13 DEF FloorIsAllocated, share, auto, total, raised, places

(* And it shares out the pool.                                             *)
LEMMA PoolHolds ==
    ASSUME Knows
    PROVE  PoolIsShared
<1>. DEFINE known == {n \in roster : Judged(seen[n], supply)}
            rooms == Cardinality(known)
            share == Maxes(roster, seen, supply)
            given == SumFunctionOnSet(share, known)
<1>. SUFFICES ASSUME supply # None
              PROVE  /\ \A n \in roster \ known : share[n] = DefaultBudget
                     /\ \A n \in known : share[n] \in Positions
                     /\ 4 * Magnitude(given - DefaultBudget * rooms) <= rooms * (rooms + 1)
    BY DEF PoolIsShared
<1>1. /\ roster \in SUBSET Nat /\ IsFiniteSet(roster)
      /\ AllReported(roster, seen) /\ supply \in Int
    BY RosterIsFinite DEF Knows
<1>2. share = FairShares(roster, seen, supply)
    BY DEF Maxes
<1>3. /\ share \in [roster -> Positions]
      /\ \A n \in roster \ known : share[n] = DefaultBudget
      /\ Within(4 * (given - DefaultBudget * rooms), rooms * (rooms + 1))
  <2>1. LET x == FairShares(roster, seen, supply)
        IN  /\ x \in [roster -> Positions]
            /\ \A n \in roster \ known : x[n] = DefaultBudget
            /\ Within(4 * (SumFunctionOnSet(x, known) - DefaultBudget * rooms),
                      rooms * (rooms + 1))
    BY <1>1, FairSharesType
  <2>. HIDE DEF share, known, rooms
  <2>. QED
    BY <1>2, <2>1
<1>4. known \subseteq roster /\ IsFiniteSet(known) /\ rooms \in Nat
    BY <1>1, FS_Subset, FS_CardinalityType
<1>. HIDE DEF share, known, rooms
<1>5. given \in Int
  <2>1. \A n \in known : share[n] \in Int
    BY <1>3, <1>4 DEF Positions
  <2>. QED
    BY <1>4, <2>1, SumRemoves
<1>. DEFINE x == given - DefaultBudget * rooms
            bound == rooms * (rooms + 1)
<1>6. x \in Int /\ bound \in Int
    BY <1>4, <1>5, AllocatorConstants
<1>7. Within(4 * x, bound)
    BY <1>3
<1>. HIDE DEF x, bound
<1>8. 4 * Magnitude(x) <= bound
    BY <1>6, <1>7 DEF Within, Magnitude
<1>. QED
    BY <1>3, <1>4, <1>8 DEF x, bound

-----------------------------------------------------------------------------
(* The behaviour.                                                          *)

Rooms  == [temp : Int \cup {None}, mode : NodeModes, target : Positions,
           stalled : BOOLEAN, reach : SUBSET Positions, dumpRoom : BOOLEAN,
           max : Positions, min : Positions]
Shares == [max : Positions, min : Positions]

(* What is remembered of a room has an entry for every endpoint.           *)
Memory(r) == r = [e \in Endpoints |-> r[e]] /\ Reported(r)

(* The inductive invariant.  The allocator computes with what it was told, *)
(* so the theorems need every report to be one: that holds because a room  *)
(* reports what it does, within a range that an allocation gave it, and    *)
(* because what is allocated is a position.                                *)
AirInv ==
    /\ roster \in SUBSET Nodes
    /\ supply \in Int \cup {None}
    /\ node \in [Nodes -> Rooms]
    /\ pending \in [Nodes -> Shares \cup {None}]
    /\ seen = [n \in Nodes |-> seen[n]]
    /\ \A n \in Nodes : Memory(seen[n])

(* Positions are numbers, and the ones the constants name are among them.  *)
LEMMA PositionsHave ==
    /\ Positions \subseteq Nat /\ {0, Full, Neutral, DefaultBudget} \subseteq Positions
    /\ \A p, q \in Positions : Bigger(p, q) \in Positions /\ Lesser(p, q) \in Positions
BY AllocatorConstants DEF Positions, Bigger, Lesser

(* The fields of a room.                                                   *)
LEMMA RoomFields ==
    ASSUME NEW r \in Rooms
    PROVE  /\ r.temp \in Int \cup {None} /\ r.mode \in NodeModes
           /\ r.target \in Positions /\ r.stalled \in BOOLEAN
           /\ r.reach \in SUBSET Positions /\ r.dumpRoom \in BOOLEAN
           /\ r.max \in Positions /\ r.min \in Positions
BY DEF Rooms

(* A node that starts is in a state it may be in.                          *)
LEMMA StartedIsRoom ==
    ASSUME NEW d \in BOOLEAN, NEW reach \in SUBSET Positions
    PROVE  Started(d, reach) \in Rooms
BY PositionsHave DEF Started, Rooms, NodeModes

(* The loop asks a damper for a position.                                  *)
LEMMA RoomTargetType ==
    ASSUME NEW r \in Rooms, NEW air \in Int \cup {None}
    PROVE  RoomTarget(r, air) \in Positions
<1>. DEFINE wish == IF air # None /\ r.temp # None THEN RoomDemand(air, r.temp) ELSE Neutral
<1>1. wish \in Positions
  <2>1. CASE air # None /\ r.temp # None
    <3>1. air \in Int /\ r.temp \in Int
      BY <2>1, RoomFields
    <3>. QED
      BY <2>1, <3>1, RoomDemandType
  <2>2. CASE ~(air # None /\ r.temp # None)
    BY <2>2, PositionsHave
  <2>. QED
    BY <2>1, <2>2
<1>2. RoomTarget(r, air) = Bigger(Lesser(wish, r.max), r.min)
    BY DEF RoomTarget
<1>. HIDE DEF wish
<1>3. r.max \in Positions /\ r.min \in Positions
    BY RoomFields
<1>4. Lesser(wish, r.max) \in Positions
    BY <1>1, <1>3, PositionsHave
<1>5. Bigger(Lesser(wish, r.max), r.min) \in Positions
    BY <1>3, <1>4, PositionsHave
<1>. QED
    BY <1>2, <1>5

(* A target, a pass of the loop, a budget and the loss of the master leave *)
(* a room a room.                                                          *)
LEMMA SetTargetIsRoom ==
    ASSUME NEW r \in Rooms, NEW p \in Positions
    PROVE  SetTarget(r, p) \in Rooms
BY DEF SetTarget, Rooms

LEMMA LoopedIsRoom ==
    ASSUME NEW r \in Rooms, NEW air \in Int \cup {None}
    PROVE  Looped(r, air) \in Rooms
BY RoomTargetType, SetTargetIsRoom DEF Looped

LEMMA SetBudgetIsRoom ==
    ASSUME NEW r \in Rooms, NEW max \in Positions, NEW min \in Positions,
           NEW air \in Int \cup {None}
    PROVE  SetBudget(r, max, min, air) \in Rooms
<1>1. Bigger(max, min) \in Positions
    BY PositionsHave
<1>2. [r EXCEPT !.max = Bigger(max, min), !.min = min] \in Rooms
    BY <1>1 DEF Rooms
<1>. QED
    BY <1>2, LoopedIsRoom DEF SetBudget

LEMMA ConnectionLostIsRoom ==
    ASSUME NEW r \in Rooms, NEW air \in Int \cup {None}
    PROVE  ConnectionLost(r, air) \in Rooms
<1>1. r.max \in Positions /\ (IF r.dumpRoom THEN Full ELSE 0) \in Positions
    BY RoomFields, PositionsHave
<1>. QED
    BY <1>1, SetBudgetIsRoom DEF ConnectionLost

(* Nothing is known of a room that nobody heard of.                        *)
LEMMA UnseenIsMemory == Memory(Unseen)
<1>1. \A e \in Endpoints : Unseen[e] = None
    BY DEF Unseen
<1>2. {"RoomTemp", "DamperBudget", "DamperMode", "DamperTarget"} \subseteq Endpoints
    BY DEF Endpoints
<1>3. Reported(Unseen)
    BY <1>1, <1>2 DEF Reported
<1>. QED
    BY <1>3 DEF Memory, Unseen

(* What a room reports can be remembered.                                  *)
LEMMA ValueIsReported ==
    ASSUME AirInv, NEW n \in Nodes
    PROVE  Reported(Value(n)) /\ Value(n) = [e \in Endpoints |-> Value(n)[e]]
<1>. DEFINE r == node[n]
<1>1. r \in Rooms
    BY DEF AirInv
<1>2. /\ Value(n)["RoomTemp"] = r.temp
      /\ Value(n)["DamperBudget"] = r.max
      /\ Value(n)["DamperMode"] = ReportedMode(r)
      /\ Value(n)["DamperTarget"] = r.target
    BY Zenon DEF Value, Endpoints
<1>. HIDE DEF r
<1>3. /\ r.temp \in Int \cup {None} /\ r.max \in Positions /\ r.target \in Positions
      /\ ReportedMode(r) \in NodeModes \cup {"Stalled"}
    BY <1>1, RoomFields DEF ReportedMode
<1>4. Reported(Value(n))
    BY ONLY <1>2, <1>3 DEF Reported
<1>5. Value(n) = [e \in Endpoints |-> Value(n)[e]]
  <2>. DEFINE Says(e) == CASE e = "RoomTemp"     -> node[n].temp
                           [] e = "DamperBudget" -> node[n].max
                           [] e = "DamperMode"   -> ReportedMode(node[n])
                           [] e = "DamperTarget" -> node[n].target
                           [] e = "DumpRoom"     -> node[n].dumpRoom
  <2>1. Value(n) = [e \in Endpoints |-> Says(e)]
    BY DEF Value
  <2>. HIDE DEF Says
  <2>. QED
    BY <2>1
<1>. QED
    BY <1>4, <1>5

(* A memory of which some entries are as another one has them.             *)
LEMMA MemoryMixes ==
    ASSUME NEW r, Reported(r), NEW q, Reported(q), NEW E
    PROVE  Memory([e \in Endpoints |-> IF e \in E THEN q[e] ELSE r[e]])
<1>. DEFINE mix == [e \in Endpoints |-> IF e \in E THEN q[e] ELSE r[e]]
<1>1. \A e \in Endpoints : mix[e] = q[e] \/ mix[e] = r[e]
    OBVIOUS
<1>2. {"RoomTemp", "DamperBudget", "DamperMode", "DamperTarget"} \subseteq Endpoints
    BY DEF Endpoints
<1>3. mix = [e \in Endpoints |-> mix[e]]
    OBVIOUS
<1>. HIDE DEF mix
<1>4. Reported(mix)
    BY <1>1, <1>2 DEF Reported
<1>. QED
    BY <1>3, <1>4 DEF Memory, mix

(* It holds when the master starts.                                        *)
LEMMA AirInvInit == Init => AirInv
<1>. SUFFICES ASSUME Init
              PROVE  AirInv
    OBVIOUS
<1>. DEFINE Begun(room) == [Started(room.dumpRoom, room.reach) EXCEPT
                                !.temp = room.temp, !.mode = room.mode, !.target = room.target]
<1>1. PICK house \in Houses :
         /\ node = [n \in Nodes |-> Looped(Begun(house.rooms[n]), house.supply)]
         /\ supply = house.supply
    BY DEF Init
<1>2. ASSUME NEW n \in Nodes
      PROVE  Begun(house.rooms[n]) \in Rooms
  <2>. DEFINE room == house.rooms[n]
  <2>1. /\ room.temp \in Int \cup {None} /\ room.mode \in NodeModes
        /\ room.target \in Positions /\ room.dumpRoom \in BOOLEAN
        /\ room.reach \in SUBSET Positions
    BY <1>1, AirConstants, HousesAreHouses DEF Positions
  <2>. HIDE DEF room
  <2>2. Started(room.dumpRoom, room.reach) \in Rooms
    BY <2>1, StartedIsRoom
  <2>3. Begun(room) \in Rooms
    BY <2>1, <2>2 DEF Rooms
  <2>. QED
    BY <2>3 DEF room
<1>. HIDE DEF Begun
<1>3. house.supply \in Int \cup {None}
    BY <1>1, HousesAreHouses
<1>4. node \in [Nodes -> Rooms]
    BY <1>1, <1>2, <1>3, LoopedIsRoom
<1>5. /\ supply \in Int \cup {None} /\ roster \in SUBSET Nodes
      /\ pending \in [Nodes -> Shares \cup {None}]
    BY <1>1, HousesAreHouses DEF Init
<1>6. seen = [n \in Nodes |-> seen[n]] /\ \A n \in Nodes : Memory(seen[n])
    BY UnseenIsMemory DEF Init
<1>. QED
    BY <1>4, <1>5, <1>6 DEF AirInv

(* A round of polls brings what rooms report.                              *)
LEMMA PollRoundKeeps == AirInv /\ PollRound => AirInv'
<1>. SUFFICES ASSUME AirInv, PollRound
              PROVE  AirInv'
    OBVIOUS
<1>1. PICK lost : seen' = [n \in Nodes |-> [e \in Endpoints |->
                      IF <<n, e>> \in Reports \ lost THEN Value(n)[e] ELSE seen[n][e]]]
    BY DEF PollRound
<1>2. seen' = [n \in Nodes |-> seen'[n]]
    BY <1>1
<1>3. ASSUME NEW n \in Nodes
      PROVE  Memory(seen'[n])
  <2>. DEFINE E == {e \in Endpoints : <<n, e>> \in Reports \ lost}
  <2>1. seen'[n] = [e \in Endpoints |-> IF e \in E THEN Value(n)[e] ELSE seen[n][e]]
    BY <1>1
  <2>2. Reported(Value(n)) /\ Reported(seen[n])
    BY ValueIsReported DEF AirInv, Memory
  <2>. HIDE DEF E
  <2>. QED
    BY <2>1, <2>2, MemoryMixes
<1>. QED
    BY <1>2, <1>3 DEF AirInv, Memory, Reported, PollRound

(* A budget that arrives is a range.                                       *)
LEMMA QueueFlushedKeeps == AirInv /\ QueueFlushed => AirInv'
<1>. SUFFICES ASSUME AirInv, QueueFlushed
              PROVE  AirInv'
    OBVIOUS
<1>. DEFINE sent == {n \in Nodes : pending[n] # None}
            Set(n) == SetBudget(node[n], pending[n].max, pending[n].min, supply)
<1>1. PICK lost : node' = [n \in Nodes |-> IF n \in sent \ lost THEN Set(n) ELSE node[n]]
    BY DEF QueueFlushed
<1>2. ASSUME NEW n \in sent
      PROVE  Set(n) \in Rooms
  <2>1. node[n] \in Rooms /\ pending[n] \in Shares /\ supply \in Int \cup {None}
    BY DEF AirInv
  <2>2. pending[n].max \in Positions /\ pending[n].min \in Positions
    BY <2>1 DEF Shares
  <2>. QED
    BY <2>1, <2>2, SetBudgetIsRoom
<1>3. \A n \in Nodes : node[n] \in Rooms
    BY DEF AirInv
<1>. HIDE DEF sent, Set
<1>4. node' \in [Nodes -> Rooms]
    BY <1>1, <1>2, <1>3
<1>5. /\ pending' \in [Nodes -> Shares \cup {None}]
      /\ UNCHANGED <<roster, seen, supply>>
    BY DEF QueueFlushed
<1>. QED
    BY <1>4, <1>5 DEF AirInv

(* An allocation sends shares, and remembers them as reported.             *)
LEMMA RecomputeKeeps == AirInv /\ Recompute => AirInv'
<1>. SUFFICES ASSUME AirInv, Recompute
              PROVE  AirInv'
    OBVIOUS
<1>. DEFINE share == Allocation(roster, seen, supply)
<1>1. UNCHANGED <<node, roster, supply>>
    BY DEF Recompute
<1>2. pending' = [n \in Nodes |-> IF n \in roster THEN share[n] ELSE pending[n]]
    BY DEF Recompute
<1>3. seen' = [n \in Nodes |->
                  IF n \notin roster THEN Unseen
                  ELSE [seen[n] EXCEPT !["DamperBudget"] = pending'[n].max]]
    BY DEF Recompute
<1>4. \A n \in roster : share[n] \in Shares
  <2>1. Knows
    BY DEF Knows, AirInv, Memory, AllReported
  <2>2. /\ roster \in SUBSET Nat /\ IsFiniteSet(roster)
        /\ AllReported(roster, seen) /\ supply \in Int \cup {None}
    BY <2>1, RosterIsFinite DEF Knows
  <2>. DEFINE maxes == Maxes(roster, seen, supply)
              mins  == Minimums(roster, seen, supply, maxes)
  <2>3. /\ maxes \in [roster -> Positions] /\ mins \in [roster -> Positions]
        /\ \A n \in roster : share[n] = [max |-> maxes[n], min |-> mins[n]]
    BY <2>2, AllocationParts
  <2>. HIDE DEF maxes, mins, share
  <2>4. \A n \in roster : maxes[n] \in Positions /\ mins[n] \in Positions
    BY <2>3
  <2>5. \A p, q \in Positions : [max |-> p, min |-> q] \in Shares
    BY DEF Shares
  <2>. QED
    BY ONLY <2>3, <2>4, <2>5
<1>. HIDE DEF share
<1>5. pending' \in [Nodes -> Shares \cup {None}]
    BY <1>2, <1>4 DEF AirInv
<1>6. ASSUME NEW n \in Nodes
      PROVE  Memory(seen'[n])
  <2>1. CASE n \notin roster
    BY <1>3, <2>1, UnseenIsMemory
  <2>2. CASE n \in roster
    <3>. DEFINE told1 == [e \in Endpoints |-> pending'[n].max]
    <3>1. pending'[n].max \in Positions
      BY <1>2, <1>4, <2>2 DEF Shares
    <3>2. Memory(seen[n])
      BY DEF AirInv
    <3>3. /\ seen'[n] = [seen[n] EXCEPT !["DamperBudget"] = pending'[n].max]
          /\ "DamperBudget" \in Endpoints
      BY <1>3, <2>2 DEF Endpoints
    <3>4. seen[n] = [e \in Endpoints |-> seen[n][e]]
      BY <3>2 DEF Memory
    <3>5. /\ seen'[n] = [e \in Endpoints |-> seen'[n][e]]
          /\ seen'[n]["DamperBudget"] = pending'[n].max
          /\ \A e \in Endpoints \ {"DamperBudget"} : seen'[n][e] = seen[n][e]
      BY <3>3, <3>4
    <3>6. {"RoomTemp", "DamperMode", "DamperTarget"} \subseteq Endpoints \ {"DamperBudget"}
      BY DEF Endpoints
    <3>7. Reported(seen'[n])
      BY <3>1, <3>2, <3>5, <3>6 DEF Memory, Reported
    <3>. QED
      BY <3>5, <3>7 DEF Memory
  <2>. QED
    BY <2>1, <2>2
<1>7. seen' = [n \in Nodes |-> seen'[n]]
    BY <1>3
<1>. QED
    BY <1>1, <1>5, <1>6, <1>7 DEF AirInv, Memory, Reported

(* A temperature that got too old counts as not reported.                  *)
LEMMA TempGoesStaleKeeps ==
    ASSUME AirInv, NEW n \in Nodes, TempGoesStale(n)
    PROVE  AirInv'
<1>1. /\ seen' = [seen EXCEPT ![n]["RoomTemp"] = None]
      /\ UNCHANGED <<node, roster, supply, pending>>
    BY DEF TempGoesStale
<1>2. seen = [m \in Nodes |-> seen[m]] /\ \A m \in Nodes : Memory(seen[m])
    BY DEF AirInv
<1>3. /\ seen' = [m \in Nodes |-> seen'[m]]
      /\ seen'[n] = [seen[n] EXCEPT !["RoomTemp"] = None]
      /\ \A m \in Nodes \ {n} : seen'[m] = seen[m]
    BY <1>1, <1>2
<1>4. Memory(seen'[n])
  <2>1. seen[n] = [e \in Endpoints |-> seen[n][e]] /\ Reported(seen[n])
    BY <1>2 DEF Memory
  <2>2. /\ seen'[n] = [e \in Endpoints |-> seen'[n][e]]
        /\ \A e \in Endpoints : seen'[n][e] = IF e = "RoomTemp" THEN None ELSE seen[n][e]
    BY <1>3, <2>1
  <2>3. {"RoomTemp", "DamperBudget", "DamperMode", "DamperTarget"} \subseteq Endpoints
    BY DEF Endpoints
  <2>4. Reported(seen'[n])
    BY <2>1, <2>2, <2>3 DEF Reported
  <2>. QED
    BY <2>2, <2>4 DEF Memory
<1>5. \A m \in Nodes : Memory(seen'[m])
    BY <1>2, <1>3, <1>4
<1>. QED
    BY <1>1, <1>3, <1>5 DEF AirInv, Memory, Reported

(* A room that something happens to is still a room.                       *)
LEMMA RoomStaysRoom ==
    ASSUME AirInv, NEW n \in Nodes, NEW r \in Rooms,
           node' = [node EXCEPT ![n] = r], UNCHANGED <<roster, supply, seen, pending>>
    PROVE  AirInv'
<1>1. node' \in [Nodes -> Rooms]
    BY DEF AirInv
<1>. QED
    BY <1>1 DEF AirInv

(* The node gives itself a minimum when nobody polls it.                   *)
LEMMA HeartbeatLapsesKeeps ==
    ASSUME AirInv, NEW n \in Nodes, HeartbeatLapses(n)
    PROVE  AirInv'
<1>1. /\ node' = [node EXCEPT ![n] = ConnectionLost(node[n], supply)]
      /\ UNCHANGED <<roster, supply, seen, pending>>
    BY DEF HeartbeatLapses
<1>2. ConnectionLost(node[n], supply) \in Rooms
    BY ConnectionLostIsRoom DEF AirInv
<1>. QED
    BY <1>1, <1>2, RoomStaysRoom

(* It starts over.                                                         *)
LEMMA RestartKeeps ==
    ASSUME AirInv, NEW n \in Nodes, Restart(n)
    PROVE  AirInv'
<1>. DEFINE r == Looped(Started(node[n].dumpRoom, node[n].reach), supply)
<1>1. node' = [node EXCEPT ![n] = r] /\ UNCHANGED <<roster, supply, seen, pending>>
    BY DEF Restart
<1>2. node[n].dumpRoom \in BOOLEAN /\ node[n].reach \in SUBSET Positions
    BY RoomFields DEF AirInv
<1>3. r \in Rooms
    BY <1>2, StartedIsRoom, LoopedIsRoom DEF AirInv
<1>. HIDE DEF r
<1>. QED
    BY <1>1, <1>3, RoomStaysRoom

(* Somebody sets a mode or a position.                                     *)
LEMMA ModeChangesKeeps ==
    ASSUME AirInv, NEW n \in Nodes, ModeChanges(n)
    PROVE  AirInv'
<1>1. node[n] \in Rooms /\ supply \in Int \cup {None}
    BY DEF AirInv
<1>2. UNCHANGED <<roster, supply, seen, pending>>
    BY DEF ModeChanges
<1>3. ASSUME NEW m \in NodeModes
      PROVE  [node[n] EXCEPT !.mode = m] \in Rooms
    BY <1>1 DEF Rooms
<1>4. CASE \E m \in NodeModes \ {node[n].mode} :
              node' = [node EXCEPT ![n] = Looped([node[n] EXCEPT !.mode = m], supply)]
  <2>1. PICK m \in NodeModes :
              node' = [node EXCEPT ![n] = Looped([node[n] EXCEPT !.mode = m], supply)]
    BY <1>4
  <2>2. Looped([node[n] EXCEPT !.mode = m], supply) \in Rooms
    BY <1>1, <1>3, LoopedIsRoom
  <2>. QED
    BY <1>2, <2>1, <2>2, RoomStaysRoom
<1>5. CASE \E p \in {0, Full} :
              node' = [node EXCEPT ![n] = SetTarget([node[n] EXCEPT !.mode = "Manual"], p)]
  <2>1. PICK p \in {0, Full} :
              node' = [node EXCEPT ![n] = SetTarget([node[n] EXCEPT !.mode = "Manual"], p)]
    BY <1>5
  <2>2. "Manual" \in NodeModes /\ p \in Positions
    BY PositionsHave DEF NodeModes
  <2>3. SetTarget([node[n] EXCEPT !.mode = "Manual"], p) \in Rooms
    BY <1>3, <2>2, SetTargetIsRoom
  <2>. QED
    BY <1>2, <2>1, <2>3, RoomStaysRoom
<1>. QED
    BY <1>4, <1>5 DEF ModeChanges

(* Something gets in the way of a damper.                                  *)
LEMMA ObstacleMovesKeeps ==
    ASSUME AirInv, NEW n \in Nodes, ObstacleMoves(n)
    PROVE  AirInv'
<1>1. PICK reach \in Reaches \cup {Positions} : node' = [node EXCEPT ![n].reach = reach]
    BY DEF ObstacleMoves
<1>. DEFINE r == [node[n] EXCEPT !.reach = reach]
<1>2. node' = [node EXCEPT ![n] = r]
    BY <1>1
<1>3. reach \in SUBSET Positions
    BY AirConstants DEF Positions
<1>4. r \in Rooms
    BY <1>3 DEF AirInv, Rooms
<1>. HIDE DEF r
<1>. QED
    BY <1>2, <1>4, RoomStaysRoom DEF ObstacleMoves

(* A damper is stopped by one.                                             *)
LEMMA StallsKeeps ==
    ASSUME AirInv, NEW n \in Nodes, Stalls(n)
    PROVE  AirInv'
<1>. DEFINE r == [node[n] EXCEPT !.stalled = TRUE]
<1>1. node' = [node EXCEPT ![n] = r] /\ UNCHANGED <<roster, supply, seen, pending>>
    BY DEF Stalls
<1>2. r \in Rooms
    BY DEF AirInv, Rooms
<1>. HIDE DEF r
<1>. QED
    BY <1>1, <1>2, RoomStaysRoom

(* The thermostat has another reading, or none.                            *)
LEMMA RoomTempChangesKeeps ==
    ASSUME AirInv, NEW n \in Nodes, RoomTempChanges(n)
    PROVE  AirInv'
<1>1. PICK t \in Climates :
         node' = [node EXCEPT ![n] = Looped([node[n] EXCEPT !.temp = t], supply)]
    BY DEF RoomTempChanges
<1>2. t \in Int \cup {None}
    BY AirConstants DEF Climates
<1>3. [node[n] EXCEPT !.temp = t] \in Rooms
    BY <1>2 DEF AirInv, Rooms
<1>4. Looped([node[n] EXCEPT !.temp = t], supply) \in Rooms
    BY <1>3, LoopedIsRoom DEF AirInv
<1>. QED
    BY <1>1, <1>4, RoomStaysRoom DEF RoomTempChanges

(* The air that the rooms are served gets another temperature.             *)
LEMMA SupplyChangesKeeps == AirInv /\ SupplyChanges => AirInv'
<1>. SUFFICES ASSUME AirInv, SupplyChanges
              PROVE  AirInv'
    OBVIOUS
<1>1. supply' \in Int \cup {None}
    BY AirConstants DEF SupplyChanges, Climates
<1>2. /\ node' = [n \in Nodes |-> Looped(node[n], supply')]
      /\ UNCHANGED <<roster, seen, pending>>
    BY DEF SupplyChanges
<1>3. \A n \in Nodes : node[n] \in Rooms
    BY DEF AirInv
<1>4. node' \in [Nodes -> Rooms]
    BY <1>1, <1>2, <1>3, LoopedIsRoom
<1>. QED
    BY <1>1, <1>2, <1>4 DEF AirInv

(* Every step keeps the invariant.                                         *)
LEMMA AirInvNext == AirInv /\ [Next]_vars => AirInv'
<1>. SUFFICES ASSUME AirInv, [Next]_vars
              PROVE  AirInv'
    OBVIOUS
<1>1. CASE RecomputeTimerFinishes
    BY <1>1 DEF AirInv, Memory, Reported, RecomputeTimerFinishes
<1>2. CASE Recompute
    BY <1>2, RecomputeKeeps
<1>3. CASE SupplyChanges
    BY <1>3, SupplyChangesKeeps
<1>4. CASE PollRound
    BY <1>4, PollRoundKeeps
<1>5. CASE Keepalive
    BY <1>5 DEF AirInv, Memory, Reported, Keepalive
<1>6. CASE QueueFlushed
    BY <1>6, QueueFlushedKeeps
<1>7. ASSUME NEW n \in Lively,
             \/ TempGoesStale(n)
             \/ NodeLost(n) \/ NodeFound(n) \/ HeartbeatLapses(n) \/ Restart(n)
             \/ ModeChanges(n) \/ ObstacleMoves(n) \/ RoomTempChanges(n)
      PROVE  AirInv'
  <2>1. n \in Nodes
    BY AirConstants
  <2>2. CASE TempGoesStale(n)
    BY <2>1, <2>2, TempGoesStaleKeeps
  <2>3. CASE NodeLost(n)
    BY <2>3 DEF AirInv, Memory, Reported, NodeLost
  <2>4. CASE NodeFound(n)
    BY <2>1, <2>4 DEF AirInv, Memory, Reported, NodeFound
  <2>5. CASE HeartbeatLapses(n)
    BY <2>1, <2>5, HeartbeatLapsesKeeps
  <2>6. CASE Restart(n)
    BY <2>1, <2>6, RestartKeeps
  <2>7. CASE ModeChanges(n)
    BY <2>1, <2>7, ModeChangesKeeps
  <2>8. CASE ObstacleMoves(n)
    BY <2>1, <2>8, ObstacleMovesKeeps
  <2>9. CASE RoomTempChanges(n)
    BY <2>1, <2>9, RoomTempChangesKeeps
  <2>. QED
    BY <1>7, <2>2, <2>3, <2>4, <2>5, <2>6, <2>7, <2>8, <2>9
<1>8. ASSUME NEW n \in Nodes, Stalls(n)
      PROVE  AirInv'
    BY <1>8, StallsKeeps
<1>9. CASE UNCHANGED vars
    BY <1>9 DEF AirInv, Memory, Reported, vars
<1>. QED
    BY <1>1, <1>2, <1>3, <1>4, <1>5, <1>6, <1>7, <1>8, <1>9 DEF Next

(* What the allocator was told are reports, whatever else happens.         *)
THEOREM AirInvariant == Spec => []AirInv
BY AirInvInit, AirInvNext, PTL DEF Spec

(* The invariant is what the lemmas about an allocation start from.        *)
LEMMA AirInvKnows == AirInv => Knows
BY DEF AirInv, Knows, Memory, AllReported

(* Every allocation keeps the duct open by as much as it takes and no      *)
(* more, and opens the rooms that mind it least (AssignMinimumsAndSend()). *)
THEOREM FloorIsKept == Spec => []FloorIsAllocated
<1>1. AirInv => FloorIsAllocated
    BY AirInvKnows, FloorHolds
<1>. QED
    BY <1>1, AirInvariant, PTL

(* Every allocation by a supply reading hands out the pool, up to the      *)
(* rounding of its shares (Recompute()).                                   *)
THEOREM PoolIsHandedOut == Spec => []PoolIsShared
<1>1. AirInv => PoolIsShared
    BY AirInvKnows, PoolHolds
<1>. QED
    BY <1>1, AirInvariant, PTL

=============================================================================
