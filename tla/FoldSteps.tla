------------------------------- MODULE FoldSteps -------------------------------
(***************************************************************************)
(* A fold over a sequence as a run: n steps of Op, the states of which can *)
(* be named one by one.  A module that folds takes it as an instance, with *)
(* its own step for Op.                                                    *)
(***************************************************************************)
EXTENDS FoldTheorems

CONSTANT Op(_, _)

Greatest(T) == CHOOSE x \in T : \A y \in T : x >= y
\* One step of the fold of p over the positions T, g being the folds over fewer.
FoldStep(b, p, g, T) ==
  IF T = {} THEN b ELSE Op(g[T \ {Greatest(T)}], p[Greatest(T)])

IsFoldOn(b, p, g, D) == g = [T \in D |-> FoldStep(b, p, g, T)]

Folded(b, p, S) == (CHOOSE g : IsFoldOn(b, p, g, SUBSET S))[S]

\* The states of a run of Op over p, from b to the fold.
IsRun(b, p, n, v) ==
  /\ v[0] = b
  /\ \A k \in 1..n : v[k] = Op(v[k - 1], p[k])
  /\ Folded(b, p, 1..n) = v[n]

\* The greatest of 1..n, and what is left without it.
LEMMA GreatestIs ==
  ASSUME NEW n \in Nat, n # 0
  PROVE  Greatest(1..n) = n /\ (1..n) \ {n} = 1..(n - 1)
<1>1. n \in 1..n /\ \A y \in 1..n : n >= y
  OBVIOUS
<1>2. Greatest(1..n) \in 1..n /\ \A y \in 1..n : Greatest(1..n) >= y
  BY <1>1 DEF Greatest
<1> QED
  BY <1>1, <1>2

\* A finite set of numbers that is not empty has a greatest one.
LEMMA GreatestExists ==
  ASSUME NEW T, IsFiniteSet(T), T \subseteq Nat, T # {}
  PROVE  \E x \in T : \A y \in T : x >= y
<1> DEFINE F == {{y \in T : y >= x} : x \in T}
<1>1. \E V \in F : \A U \in F : U \subseteq V => U = V
  <2>1. F # {}
    OBVIOUS
  <2>2. ASSUME NEW U \in F PROVE IsFiniteSet(U)
    <3>1. U \subseteq T
      OBVIOUS
    <3> QED
      BY <3>1, FS_Subset
  <2> HIDE DEF F
  <2> QED
    BY <2>1, <2>2, MinimalSet
<1>2. PICK x \in T : \A U \in F : U \subseteq {y \in T : y >= x} => U = {y \in T : y >= x}
  BY <1>1
<1>3. ASSUME NEW z \in T, ~(x >= z) PROVE FALSE
  <2>0. T \subseteq Nat
    OBVIOUS
  <2>1. x \in Nat /\ z \in Nat /\ x < z
    BY <1>3, <2>0
  <2>2. ASSUME NEW y \in T, y >= z PROVE y >= x
    BY <2>0, <2>1, <2>2
  <2>3. {y \in T : y >= z} = {y \in T : y >= x}
    <3>1. {y \in T : y >= z} \subseteq {y \in T : y >= x}
      BY <2>2
    <3> QED
      BY <1>2, <3>1
  <2>4. x \in {y \in T : y >= x}
    BY <2>1
  <2> QED
    BY <2>1, <2>3, <2>4
<1> QED
  BY <1>3

\* There is a function that folds every set of positions.
LEMMA FoldExists ==
  ASSUME NEW b, NEW p, NEW S, IsFiniteSet(S), S \subseteq Nat
  PROVE  \E g : IsFoldOn(b, p, g, SUBSET S)
<1> DEFINE Dom(n) == {T \in SUBSET S : Cardinality(T) <= n}
           N == {n \in Nat : \E g : IsFoldOn(b, p, g, Dom(n))}
<1>0. \A T \in SUBSET S : IsFiniteSet(T) /\ Cardinality(T) \in Nat
  BY FS_Subset, FS_CardinalityType
<1>c. \A T \in SUBSET S : T # {} =>
        Greatest(T) \in T /\ Cardinality(T \ {Greatest(T)}) = Cardinality(T) - 1
  <2> SUFFICES ASSUME NEW T \in SUBSET S, T # {}
               PROVE  Greatest(T) \in T /\ Cardinality(T \ {Greatest(T)}) = Cardinality(T) - 1
    OBVIOUS
  <2>1. \E x \in T : \A y \in T : x >= y
    BY <1>0, GreatestExists
  <2>2. Greatest(T) \in T
    BY <2>1 DEF Greatest
  <2> QED
    BY <1>0, <2>2, FS_RemoveElement
<1>1. 0 \in N
  <2> DEFINE g == [T \in Dom(0) |-> b]
  <2>1. \A T \in Dom(0) : T = {}
    BY <1>0, FS_EmptySet
  <2>2. IsFoldOn(b, p, g, Dom(0))
    BY <2>1 DEF IsFoldOn, FoldStep
  <2> QED
    BY <2>2
<1>2. ASSUME NEW n \in Nat, n \in N PROVE n + 1 \in N
  <2>1. PICK g : IsFoldOn(b, p, g, Dom(n))
    BY <1>2
  <2> DEFINE h == [T \in Dom(n + 1) |-> FoldStep(b, p, g, T)]
  <2>2. \A T \in Dom(n) : T \in Dom(n + 1) /\ h[T] = g[T]
    BY <1>0, <2>1 DEF IsFoldOn
  <2>3. ASSUME NEW T \in Dom(n + 1) PROVE FoldStep(b, p, h, T) = FoldStep(b, p, g, T)
    <3>1. CASE T = {}
      BY <3>1 DEF FoldStep
    <3>2. CASE T # {}
      <4>1. T \ {Greatest(T)} \in Dom(n)
        <5>1. Cardinality(T \ {Greatest(T)}) = Cardinality(T) - 1 /\ Cardinality(T) <= n + 1
          BY <1>c, <3>2
        <5>2. Cardinality(T) \in Nat
          BY <1>0
        <5>3. Cardinality(T \ {Greatest(T)}) <= n
          BY <5>1, <5>2
        <5>4. T \ {Greatest(T)} \in SUBSET S
          OBVIOUS
        <5> QED
          BY <5>3, <5>4
      <4>2. h[T \ {Greatest(T)}] = g[T \ {Greatest(T)}]
        BY <2>2, <4>1
      <4> HIDE DEF h
      <4> QED
        BY <3>2, <4>2 DEF FoldStep
    <3> QED
      BY <3>1, <3>2
  <2>4. IsFoldOn(b, p, h, Dom(n + 1))
    BY <2>3 DEF IsFoldOn
  <2> HIDE DEF h
  <2>5. \E k : IsFoldOn(b, p, k, Dom(n + 1))
    BY <2>4
  <2> HIDE DEF Dom
  <2> QED
    BY <2>5
<1>3. Nat \subseteq N
  <2> HIDE DEF N
  <2> QED
    BY <1>1, <1>2, Induction
<1>4. Cardinality(S) \in N
  BY <1>0, <1>3
<1>5. Dom(Cardinality(S)) = SUBSET S
  BY FS_Subset
<1> QED
  BY <1>4, <1>5

\* A fold over 1..n is a run of n steps, and these are its states.
LEMMA FoldIsRun ==
  ASSUME NEW b, NEW p, NEW n \in Nat
  PROVE  \E v : IsRun(b, p, n, v)
<1>1. PICK g : /\ IsFoldOn(b, p, g, SUBSET (1..n))
               /\ g = CHOOSE h : IsFoldOn(b, p, h, SUBSET (1..n))
  <2>1. IsFiniteSet(1..n) /\ 1..n \subseteq Nat
    BY FS_Interval
  <2>2. \E h : IsFoldOn(b, p, h, SUBSET (1..n))
    BY <2>1, FoldExists
  <2> QED
    BY <2>2
<1> DEFINE v == [k \in 0..n |-> g[1..k]]
<1>2. v[0] = b
  <2>1. 1..0 = {}
    OBVIOUS
  <2> QED
    BY <1>1, <2>1 DEF IsFoldOn, FoldStep
<1>3. ASSUME NEW k \in 1..n PROVE v[k] = Op(v[k - 1], p[k])
  <2>1. 1..k \in SUBSET (1..n) /\ 1..k # {} /\ k \in 0..n /\ k - 1 \in 0..n
    OBVIOUS
  <2>2. Greatest(1..k) = k /\ (1..k) \ {k} = 1..(k - 1)
    BY GreatestIs
  <2>3. g[1..k] = Op(g[1..(k - 1)], p[k])
    BY <1>1, <2>1, <2>2 DEF IsFoldOn, FoldStep
  <2> QED
    BY <2>1, <2>3
<1> HIDE DEF v
<1>4. g[1..n] = v[n]
  BY DEF v
<1>5. Folded(b, p, 1..n) = g[1..n]
  BY <1>1 DEF Folded
<1> QED
  BY <1>2, <1>3, <1>4, <1>5 DEF IsRun
=============================================================================
