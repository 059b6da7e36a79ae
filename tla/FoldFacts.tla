------------------------------ MODULE FoldFacts ------------------------------
(***************************************************************************)
(* Induction for the proofs about sums and replays.  The library states    *)
(* induction for a predicate given as an operator; here the predicate is a *)
(* set, which the provers can instantiate.  It rests on the one library    *)
(* theorem that needs no operator: a well-founded relation has minimal     *)
(* elements.                                                               *)
(***************************************************************************)
EXTENDS Naturals, FiniteSets, FiniteSetsExt, FiniteSetTheorems, WellFoundedInduction, TLAPS

\* A nonempty set of natural numbers has a least element.
LEMMA LeastNumber ==
    ASSUME NEW T, T \subseteq Nat, T # {}
    PROVE  \E x \in T : \A y \in T : x <= y
<1> DEFINE R == {p \in Nat \X Nat : p[1] < p[2]}
<1>1. IsWellFoundedOn(R, Nat)
  <2>1. IsWellFoundedOn(OpToRel(<, Nat), Nat)
    BY NatLessThanWellFounded
  <2> QED
    BY <2>1 DEF IsWellFoundedOn, OpToRel
<1>2. PICK x \in T : \A y \in T : ~(<<y, x>> \in R)
  BY <1>1, WFMin
<1>3. ASSUME NEW y \in T PROVE x <= y
  <2>1. x \in Nat /\ y \in Nat
    OBVIOUS
  <2>2. ~(y < x)
    BY <1>2, <2>1
  <2> QED
    BY <2>1, <2>2
<1> QED
  BY <1>3

\* Induction over the natural numbers.
LEMMA NatSetInduction ==
    ASSUME NEW Good, 0 \in Good, \A n \in Nat : n \in Good => n + 1 \in Good
    PROVE  \A n \in Nat : n \in Good
<1> SUFFICES ASSUME NEW b \in Nat, b \notin Good PROVE FALSE
  OBVIOUS
<1> DEFINE Bad == {n \in Nat : n \notin Good}
<1>1. PICK x \in Bad : \A y \in Bad : x <= y
  <2>1. Bad \subseteq Nat /\ Bad # {}
    OBVIOUS
  <2> HIDE DEF Bad
  <2> QED
    BY <2>1, LeastNumber
<1>2. x \in Nat /\ x # 0 /\ x - 1 \in Nat
  BY <1>1
<1>3. x - 1 \in Good
  BY <1>1, <1>2
<1> QED
  BY <1>1, <1>2, <1>3

\* ch picks an element of every nonempty subset of S.
Chooses(ch, S) == \A s \in SUBSET S : s # {} => ch[s] \in s

\* Induction over the subsets of a finite set, an element at a time.
LEMMA SubsetInduction ==
    ASSUME NEW S, IsFiniteSet(S), NEW ch, Chooses(ch, S), NEW Good, {} \in Good,
           \A s \in SUBSET S : s # {} /\ s \ {ch[s]} \in Good => s \in Good
    PROVE  \A s \in SUBSET S : s \in Good
<1> DEFINE Level == {n \in Nat : \A s \in SUBSET S : Cardinality(s) = n => s \in Good}
<1>1. ASSUME NEW s \in SUBSET S PROVE IsFiniteSet(s) /\ Cardinality(s) \in Nat
  BY FS_Subset, FS_CardinalityType
<1>2. 0 \in Level
  BY <1>1, FS_EmptySet
<1>3. ASSUME NEW n \in Nat, n \in Level PROVE n + 1 \in Level
  <2> SUFFICES ASSUME NEW s \in SUBSET S, Cardinality(s) = n + 1 PROVE s \in Good
    OBVIOUS
  <2>1. s # {}
    BY FS_EmptySet, <1>1
  <2>2. ch[s] \in s /\ s \ {ch[s]} \in SUBSET S
    BY <2>1 DEF Chooses
  <2>3. Cardinality(s \ {ch[s]}) = n
    <3>1. Cardinality(s \ {ch[s]}) = Cardinality(s) - 1
      BY <1>1, <2>2, FS_RemoveElement
    <3> QED
      BY <3>1
  <2>4. s \ {ch[s]} \in Good
    BY <1>3, <2>2, <2>3
  <2> QED
    BY <2>1, <2>4
<1>4. \A n \in Nat : n \in Level
  <2> HIDE DEF Level
  <2> QED
    BY <1>2, <1>3, NatSetInduction
<1> QED
  BY <1>1, <1>4

\* The iteration that a fold over a finite set is defined by: from base, one step for each
\* element, in the order that ch chooses.
Iterates(it, S, ch, base, step) ==
    it = [s \in SUBSET S |-> IF s = {} THEN base ELSE step[ch[s]][it[s \ {ch[s]}]]]

\* There is such an iteration.
LEMMA IterationExists ==
    ASSUME NEW S, IsFiniteSet(S), NEW V, NEW base \in V, NEW step \in [S -> [V -> V]], NEW ch,
           Chooses(ch, S)
    PROVE  \E it \in [SUBSET S -> V] : Iterates(it, S, ch, base, step)
<1> DEFINE Up(n) == {s \in SUBSET S : Cardinality(s) <= n}
           Eq(g, s) == g[s] = IF s = {} THEN base ELSE step[ch[s]][g[s \ {ch[s]}]]
           Level == {n \in Nat : \E g \in [Up(n) -> V] : \A s \in Up(n) : Eq(g, s)}
<1>1. ASSUME NEW s \in SUBSET S PROVE IsFiniteSet(s) /\ Cardinality(s) \in Nat
  BY FS_Subset, FS_CardinalityType
<1>2. ASSUME NEW s \in SUBSET S, s # {}
      PROVE  /\ ch[s] \in s /\ s \ {ch[s]} \in SUBSET S
             /\ Cardinality(s) > 0 /\ Cardinality(s \ {ch[s]}) = Cardinality(s) - 1
  <2>1. ch[s] \in s /\ IsFiniteSet(s) /\ Cardinality(s) \in Nat
    BY <1>1, <1>2 DEF Chooses
  <2>2. Cardinality(s \ {ch[s]}) = Cardinality(s) - 1
    BY <2>1, FS_RemoveElement
  <2>3. Cardinality(s) # 0
    BY <1>2, <2>1, FS_EmptySet
  <2> QED
    BY <2>1, <2>2, <2>3
<1>3. 0 \in Level
  <2>1. Up(0) = {{}}
    BY <1>1, FS_EmptySet
  <2>2. [s \in Up(0) |-> base] \in [Up(0) -> V]
    OBVIOUS
  <2>3. \A s \in Up(0) : Eq([t \in Up(0) |-> base], s)
    BY <2>1
  <2> HIDE DEF Up, Eq
  <2> QED
    BY <2>2, <2>3
<1>4. ASSUME NEW n \in Nat, n \in Level PROVE n + 1 \in Level
  <2>1. PICK g \in [Up(n) -> V] : \A s \in Up(n) : Eq(g, s)
    BY <1>4
  <2> DEFINE h == [s \in Up(n + 1) |->
                     IF s = {} THEN base ELSE step[ch[s]][g[s \ {ch[s]}]]]
  <2>2. ASSUME NEW s \in Up(n + 1), s # {}
        PROVE  s \ {ch[s]} \in Up(n) /\ s \ {ch[s]} \in Up(n + 1) /\ ch[s] \in S
    BY <1>1, <1>2, <2>2
  <2>3. h \in [Up(n + 1) -> V]
    <3>1. ASSUME NEW s \in Up(n + 1), s # {} PROVE step[ch[s]][g[s \ {ch[s]}]] \in V
      BY <2>1, <2>2, <3>1
    <3> QED
      BY <3>1
  <2>4. ASSUME NEW s \in Up(n), s \in Up(n + 1) PROVE h[s] = g[s]
    BY <2>1, <2>4
  <2>5. ASSUME NEW s \in Up(n + 1) PROVE Eq(h, s)
    <3>1. CASE s = {}
      BY <3>1
    <3>2. CASE s # {}
      <4>1. h[s \ {ch[s]}] = g[s \ {ch[s]}]
        BY <2>2, <2>4, <3>2
      <4> QED
        BY <3>2, <4>1
    <3> QED
      BY <3>1, <3>2
  <2> HIDE DEF Up, Eq, h
  <2> QED
    BY <2>3, <2>5
<1>5. Cardinality(S) \in Level
  <2>1. \A n \in Nat : n \in Level
    <3> HIDE DEF Level
    <3> QED
      BY <1>3, <1>4, NatSetInduction
  <2> QED
    BY <1>1, <2>1
<1>6. Up(Cardinality(S)) = SUBSET S
  BY <1>1, FS_Subset
<1>7. PICK g \in [SUBSET S -> V] : \A s \in SUBSET S : Eq(g, s)
  BY <1>5, <1>6
<1>8. Iterates(g, S, ch, base, step)
  BY <1>7 DEF Iterates
<1> QED
  BY <1>8

\* The order in which a sum takes its terms
AnyOrder(S) == [s \in SUBSET S |-> CHOOSE x \in s : TRUE]

IsSum(it, fun, S) ==
    /\ SumFunctionOnSet(fun, S) = it[S]
    /\ it[{}] = 0
    /\ \A s \in SUBSET S : s # {} =>
          /\ AnyOrder(S)[s] \in s
          /\ it[s] = fun[AnyOrder(S)[s]] + it[s \ {AnyOrder(S)[s]}]

\* A sum over a finite set follows the iteration that defines it.
LEMMA SumIterates ==
    ASSUME NEW S, IsFiniteSet(S), NEW fun, \A x \in S : fun[x] \in Nat
    PROVE  \E it \in [SUBSET S -> Nat] : IsSum(it, fun, S)
<1> DEFINE step == [x \in S |-> [n \in Nat |-> fun[x] + n]]
           Sums(it) == it = [s \in SUBSET S |->
                               IF s = {} THEN 0
                               ELSE fun[CHOOSE x \in s : TRUE] + it[s \ {CHOOSE x \in s : TRUE}]]
<1>1. \A s \in SUBSET S : AnyOrder(S)[s] = CHOOSE x \in s : TRUE
  BY DEF AnyOrder
<1>2. \A s \in SUBSET S : s # {} => (CHOOSE x \in s : TRUE) \in s
  OBVIOUS
<1>3. step \in [S -> [Nat -> Nat]]
  OBVIOUS
<1>4. PICK it \in [SUBSET S -> Nat] : Iterates(it, S, AnyOrder(S), 0, step)
  <2>1. 0 \in Nat /\ Chooses(AnyOrder(S), S)
    BY <1>1, <1>2 DEF Chooses
  <2> HIDE DEF step
  <2> QED
    BY <1>3, <2>1, IterationExists
<1>5. Sums(it)
  <2>1. ASSUME NEW s \in SUBSET S, s # {}
        PROVE  step[AnyOrder(S)[s]][it[s \ {AnyOrder(S)[s]}]]
               = fun[CHOOSE x \in s : TRUE] + it[s \ {CHOOSE x \in s : TRUE}]
    BY <1>1, <1>2, <2>1
  <2> HIDE DEF step
  <2> QED
    BY <1>4, <2>1 DEF Iterates
<1>6. PICK jt : Sums(jt) /\ SumFunctionOnSet(fun, S) = jt[S]
  BY <1>5, Zenon DEF SumFunctionOnSet, FoldFunctionOnSet, MapThenFoldSet
<1>7. jt = it
  <2> DEFINE Good == {s \in SUBSET S : jt[s] = it[s]}
  <2>1. {} \in Good
    BY <1>5, <1>6
  <2>2. ASSUME NEW s \in SUBSET S, s # {}, s \ {AnyOrder(S)[s]} \in Good PROVE s \in Good
    BY <1>1, <1>5, <1>6, <2>2
  <2>3. \A s \in SUBSET S : s \in Good
    <3>1. Chooses(AnyOrder(S), S)
      BY <1>1, <1>2 DEF Chooses
    <3> HIDE DEF Good
    <3> QED
      BY <2>1, <2>2, <3>1, SubsetInduction
  <2> QED
    BY <1>5, <1>6, <2>3
<1>8. /\ it[{}] = 0
      /\ \A s \in SUBSET S : s # {} =>
            /\ AnyOrder(S)[s] \in s
            /\ it[s] = fun[AnyOrder(S)[s]] + it[s \ {AnyOrder(S)[s]}]
  <2>1. it[{}] = 0
    BY <1>5
  <2>2. ASSUME NEW s \in SUBSET S, s # {}
        PROVE  /\ AnyOrder(S)[s] \in s
               /\ it[s] = fun[AnyOrder(S)[s]] + it[s \ {AnyOrder(S)[s]}]
    <3>1. it[s] = fun[CHOOSE x \in s : TRUE] + it[s \ {CHOOSE x \in s : TRUE}]
      BY <1>5, <2>2
    <3> QED
      BY <1>1, <1>2, <2>2, <3>1
  <2> QED
    BY <2>1, <2>2
<1> QED
  BY <1>6, <1>7, <1>8 DEF IsSum

\* The members of F whose class is in s
Within(F, class, s) == {f \in F : class[f] \in s}

\* Summed over a set of classes, the sizes of the classes are the size of their union.
LEMMA SumOfSizes ==
    ASSUME NEW S, IsFiniteSet(S), NEW F, IsFiniteSet(F), NEW class, NEW fun,
           \A x \in S : fun[x] = Cardinality(Within(F, class, {x}))
    PROVE  SumFunctionOnSet(fun, S) = Cardinality(Within(F, class, S))
<1> USE DEF Within
<1> DEFINE In(s) == Within(F, class, s)
<1>1. \A s : IsFiniteSet(In(s)) /\ Cardinality(In(s)) \in Nat
  BY FS_Subset, FS_CardinalityType
<1>2. \A x \in S : fun[x] = Cardinality(In({x}))
  OBVIOUS
<1>3. ASSUME NEW x \in S PROVE fun[x] \in Nat /\ fun[x] = Cardinality(In({x}))
  BY <1>1, <1>2
<1>4. PICK it \in [SUBSET S -> Nat] : IsSum(it, fun, S)
  <2>1. \A x \in S : fun[x] \in Nat
    BY <1>3
  <2> QED
    BY <2>1, SumIterates
<1> DEFINE Good == {s \in SUBSET S : it[s] = Cardinality(In(s))}
<1>5. {} \in Good
  <2>1. In({}) = {}
    OBVIOUS
  <2> HIDE DEF In
  <2> QED
    BY <1>4, <2>1, FS_EmptySet DEF IsSum
<1>6. ASSUME NEW s \in SUBSET S, s # {}, s \ {AnyOrder(S)[s]} \in Good PROVE s \in Good
  <2> DEFINE p == AnyOrder(S)[s]
             t == s \ {p}
  <2>1. p \in s /\ p \in S /\ it[s] = fun[p] + it[t]
    BY <1>4, <1>6 DEF IsSum
  <2>2. it[t] = Cardinality(In(t))
    BY <1>6
  <2>3. In(s) = In({p}) \cup In(t) /\ In({p}) \cap In(t) = {}
    BY <2>1
  <2> HIDE DEF In, p, t
  <2>4. Cardinality(In(s)) = Cardinality(In({p})) + Cardinality(In(t))
    <3>1. Cardinality(In(s)) = Cardinality(In({p})) + Cardinality(In(t))
                               - Cardinality(In({p}) \cap In(t))
      BY <1>1, <2>3, FS_Union
    <3>2. Cardinality(In({p}) \cap In(t)) = 0
      BY <2>3, FS_EmptySet
    <3> QED
      BY <1>1, <3>1, <3>2
  <2> QED
    BY <1>1, <1>3, <2>1, <2>2, <2>4
<1>7. \A s \in SUBSET S : s \in Good
  <2>1. Chooses(AnyOrder(S), S)
    BY <1>4 DEF Chooses, IsSum
  <2> HIDE DEF Good
  <2> QED
    BY <1>5, <1>6, <2>1, SubsetInduction
<1> QED
  BY <1>4, <1>7 DEF IsSum
=============================================================================
