------------------------------ MODULE FoldTheorems ------------------------------
(***************************************************************************)
(* What the library leaves to prove: sums over finite sets, where it       *)
(* defines SumFunctionOnSet by a recursive function on the subsets of its  *)
(* set; induction on numbers, which it states with a formula for           *)
(* parameter, derived here from the well-foundedness of strict subsets,    *)
(* about sets of sets and sets of numbers; and a sequence without one of   *)
(* its elements.                                                           *)
(***************************************************************************)
EXTENDS Integers, SequencesExt, FiniteSets, FiniteSetTheorems, SequenceTheorems, TLAPS

\* Among finite sets, one has no other of them inside it.
LEMMA MinimalSet ==
  ASSUME NEW F, F # {}, \A T \in F : IsFiniteSet(T)
  PROVE  \E T \in F : \A U \in F : U \subseteq T => U = T
<1> DEFINE S == UNION F
<1>1. IsWellFoundedOn(StrictSubsetOrdering(S), FiniteSubsetsOf(S))
  BY FS_StrictSubsetOrderingWellFounded
<1>2. F \subseteq FiniteSubsetsOf(S)
  BY DEF FiniteSubsetsOf
<1>3. \E T \in F : \A U \in F : ~(<<U, T>> \in StrictSubsetOrdering(S))
  BY <1>1, <1>2, WFMin
<1>4. \A T, U \in F : U \subseteq T /\ U # T => <<U, T>> \in StrictSubsetOrdering(S)
  BY DEF StrictSubsetOrdering
<1> QED
  BY <1>3, <1>4

\* A set of numbers that is not empty has a least one.
LEMMA LeastNumber ==
  ASSUME NEW T \in SUBSET Nat, T # {}
  PROVE  \E n \in T : \A m \in T : n <= m
<1> DEFINE F == {1..n : n \in T}
<1>1. \A n \in Nat : IsFiniteSet(1..n)
  BY FS_Interval
<1>2. F # {} /\ \A U \in F : IsFiniteSet(U)
  <2>1. PICK n \in T : TRUE
    OBVIOUS
  <2>2. 1..n \in F
    OBVIOUS
  <2>3. ASSUME NEW U \in F PROVE IsFiniteSet(U)
    <3>1. PICK m \in T : U = 1..m
      OBVIOUS
    <3> QED
      BY <3>1, <1>1
  <2> QED
    BY <2>2, <2>3
<1>3. \E V \in F : \A U \in F : U \subseteq V => U = V
  <2> HIDE DEF F
  <2> QED
    BY <1>2, MinimalSet
<1>4. PICK V \in F : \A U \in F : U \subseteq V => U = V
  BY <1>3
<1>5. PICK n \in T : V = 1..n
  BY <1>4
<1>6. ASSUME NEW m \in T, m < n PROVE FALSE
  <2>1. 1..m \subseteq 1..n /\ n \in 1..n /\ n \notin 1..m
    BY <1>6
  <2> QED
    BY <1>4, <1>5, <2>1
<1> QED
  BY <1>6

\* Induction on the numbers, about a set of them and not about a formula.
LEMMA Induction ==
  ASSUME NEW T, 0 \in T, \A n \in Nat : n \in T => n + 1 \in T
  PROVE  Nat \subseteq T
<1> SUFFICES ASSUME ~(Nat \subseteq T) PROVE FALSE
  OBVIOUS
<1>1. PICK n \in Nat \ T : \A m \in Nat \ T : n <= m
  <2>1. Nat \ T \in SUBSET Nat /\ Nat \ T # {}
    OBVIOUS
  <2> QED
    BY <2>1, LeastNumber
<1>2. n # 0 /\ n - 1 \in Nat
  BY <1>1
<1>3. n - 1 \in T
  BY <1>1, <1>2
<1> QED
  BY <1>1, <1>2, <1>3

-----------------------------------------------------------------------------
\* One step of the sum of f over T, g being the sums over smaller sets.
SumStep(f, g, T) ==
  IF T = {} THEN 0
  ELSE f[CHOOSE x \in T : TRUE] + g[T \ {CHOOSE x \in T : TRUE}]

IsSumOn(f, g, D) == g = [T \in D |-> SumStep(f, g, T)]

\* The library's fold, written out: a function on the subsets of S, at S.
LEMMA SumUnfolds ==
  ASSUME NEW f, NEW S
  PROVE  SumFunctionOnSet(f, S) = (CHOOSE g : IsSumOn(f, g, SUBSET S))[S]
<1>1. SumFunctionOnSet(f, S)
        = (CHOOSE g : g = [T \in SUBSET S |->
             IF T = {} THEN 0
             ELSE f[CHOOSE x \in T : TRUE] + g[T \ {CHOOSE x \in T : TRUE}]])[S]
  BY Zenon DEF SumFunctionOnSet, FoldFunctionOnSet, MapThenFoldSet
<1> QED
  BY <1>1, Zenon DEF IsSumOn, SumStep

\* There is such a function.
LEMMA SumExists ==
  ASSUME NEW f, NEW S, IsFiniteSet(S)
  PROVE  \E g : IsSumOn(f, g, SUBSET S)
<1> DEFINE Dom(n) == {T \in SUBSET S : Cardinality(T) <= n}
           N == {n \in Nat : \E g : IsSumOn(f, g, Dom(n))}
<1>0. \A T \in SUBSET S : IsFiniteSet(T) /\ Cardinality(T) \in Nat
  BY FS_Subset, FS_CardinalityType
<1>c. \A T \in SUBSET S : T # {} =>
        LET c == CHOOSE x \in T : TRUE
        IN  c \in T /\ Cardinality(T \ {c}) = Cardinality(T) - 1
  BY <1>0, FS_RemoveElement
<1>1. 0 \in N
  <2> DEFINE g == [T \in Dom(0) |-> 0]
  <2>1. \A T \in Dom(0) : T = {}
    BY <1>0, FS_EmptySet
  <2>2. IsSumOn(f, g, Dom(0))
    BY <2>1 DEF IsSumOn, SumStep
  <2> QED
    BY <2>2
<1>2. ASSUME NEW n \in Nat, n \in N PROVE n + 1 \in N
  <2>1. PICK g : IsSumOn(f, g, Dom(n))
    BY <1>2
  <2> DEFINE h == [T \in Dom(n + 1) |-> SumStep(f, g, T)]
  <2>2. \A T \in Dom(n) : T \in Dom(n + 1) /\ h[T] = g[T]
    BY <1>0, <2>1 DEF IsSumOn
  <2>3. ASSUME NEW T \in Dom(n + 1) PROVE SumStep(f, h, T) = SumStep(f, g, T)
    <3>1. CASE T = {}
      BY <3>1 DEF SumStep
    <3>2. CASE T # {}
      <4> DEFINE c == CHOOSE x \in T : TRUE
      <4>1. T \ {c} \in Dom(n)
        BY <1>0, <1>c, <3>2
      <4>2. h[T \ {c}] = g[T \ {c}]
        BY <2>2, <4>1
      <4> HIDE DEF h
      <4> QED
        BY <3>2, <4>2 DEF SumStep
    <3> QED
      BY <3>1, <3>2
  <2>4. IsSumOn(f, h, Dom(n + 1))
    BY <2>3 DEF IsSumOn
  <2> HIDE DEF h
  <2>5. \E k : IsSumOn(f, k, Dom(n + 1))
    BY <2>4
  <2> QED
    BY <2>5
<1>3. Nat \subseteq N
  <2> HIDE DEF N
  <2> QED
    BY <1>1, <1>2, Induction
<1>4. Cardinality(S) \in N
  BY <1>0, <1>3
<1>5. Dom(Cardinality(S)) = SUBSET S
  BY FS_Subset
<1> QED
  BY <1>4, <1>5

\* Two of them, for S and for a part of it, agree on the part.
LEMMA SumUnique ==
  ASSUME NEW f, NEW S, NEW R, NEW g, NEW h,
         IsFiniteSet(S), R \subseteq S, IsSumOn(f, g, SUBSET S), IsSumOn(f, h, SUBSET R)
  PROVE  g[R] = h[R]
<1> SUFFICES ASSUME g[R] # h[R] PROVE FALSE
  OBVIOUS
<1> DEFINE F == {T \in SUBSET R : g[T] # h[T]}
<1>1. \E T \in F : \A U \in F : U \subseteq T => U = T
  <2>1. F # {} /\ \A U \in F : IsFiniteSet(U)
    BY FS_Subset
  <2> HIDE DEF F
  <2> QED
    BY <2>1, MinimalSet
<1>2. PICK T \in F : \A U \in F : U \subseteq T => U = T
  BY <1>1
<1> DEFINE c == CHOOSE x \in T : TRUE
<1>3. g[T] = SumStep(f, g, T) /\ h[T] = SumStep(f, h, T)
  BY DEF IsSumOn
<1>4. T # {} /\ c \in T
  BY <1>2, <1>3 DEF SumStep
<1>5. T \ {c} \in SUBSET R
  BY <1>2
<1>6. g[T \ {c}] = h[T \ {c}]
  BY <1>2, <1>4, <1>5
<1> QED
  BY <1>2, <1>3, <1>6 DEF SumStep

\* A sum over a set is that of one element, the one CHOOSE picks, and of the rest.
LEMMA SumEquation ==
  ASSUME NEW f, NEW S, IsFiniteSet(S)
  PROVE  \A T \in SUBSET S :
           /\ T = {} => SumFunctionOnSet(f, T) = 0
           /\ T # {} => SumFunctionOnSet(f, T)
                          = f[CHOOSE x \in T : TRUE]
                              + SumFunctionOnSet(f, T \ {CHOOSE x \in T : TRUE})
<1>1. PICK g : IsSumOn(f, g, SUBSET S)
  BY SumExists
<1>2. ASSUME NEW T \in SUBSET S PROVE SumFunctionOnSet(f, T) = g[T]
  <2>1. IsFiniteSet(T)
    BY FS_Subset
  <2>2. \E h : IsSumOn(f, h, SUBSET T)
    BY <2>1, SumExists
  <2>3. PICK h : IsSumOn(f, h, SUBSET T) /\ SumFunctionOnSet(f, T) = h[T]
    BY <2>2, SumUnfolds
  <2>4. g[T] = h[T]
    BY <1>1, <2>3, SumUnique
  <2> QED
    BY <2>3, <2>4
<1>3. ASSUME NEW T \in SUBSET S PROVE g[T] = SumStep(f, g, T)
  BY <1>1 DEF IsSumOn
<1> SUFFICES ASSUME NEW T \in SUBSET S PROVE
           /\ T = {} => SumFunctionOnSet(f, T) = 0
           /\ T # {} => SumFunctionOnSet(f, T)
                          = f[CHOOSE x \in T : TRUE]
                              + SumFunctionOnSet(f, T \ {CHOOSE x \in T : TRUE})
  OBVIOUS
<1>4. T \ {CHOOSE x \in T : TRUE} \in SUBSET S
  OBVIOUS
<1>5. /\ SumFunctionOnSet(f, T) = g[T]
      /\ SumFunctionOnSet(f, T \ {CHOOSE x \in T : TRUE}) = g[T \ {CHOOSE x \in T : TRUE}]
  BY <1>2, <1>4
<1> QED
  BY <1>3, <1>5 DEF SumStep

\* Nothing adds up to zero.
LEMMA SumEmpty ==
  ASSUME NEW f
  PROVE  SumFunctionOnSet(f, {}) = 0
BY SumEquation, FS_EmptySet

\* The same of a set that is not empty.
LEMMA SumChosen ==
  ASSUME NEW f, NEW S, IsFiniteSet(S), S # {}
  PROVE  SumFunctionOnSet(f, S)
           = f[CHOOSE x \in S : TRUE] + SumFunctionOnSet(f, S \ {CHOOSE x \in S : TRUE})
<1>1. S \in SUBSET S
  OBVIOUS
<1> QED
  BY <1>1, SumEquation

\* Integers add up to an integer.
LEMMA SumInt ==
  ASSUME NEW f, NEW S, IsFiniteSet(S), \A x \in S : f[x] \in Int
  PROVE  SumFunctionOnSet(f, S) \in Int
<1> SUFFICES ASSUME SumFunctionOnSet(f, S) \notin Int PROVE FALSE
  OBVIOUS
<1> DEFINE F == {T \in SUBSET S : SumFunctionOnSet(f, T) \notin Int}
<1>1. \E T \in F : \A U \in F : U \subseteq T => U = T
  <2>1. F # {} /\ \A U \in F : IsFiniteSet(U)
    BY FS_Subset
  <2> HIDE DEF F
  <2> QED
    BY <2>1, MinimalSet
<1>2. PICK T \in F : \A U \in F : U \subseteq T => U = T
  BY <1>1
<1> DEFINE c == CHOOSE x \in T : TRUE
<1>3. T # {} /\ c \in T /\ T \ {c} \in SUBSET S
  BY <1>2, SumEmpty
<1>4. SumFunctionOnSet(f, T) = f[c] + SumFunctionOnSet(f, T \ {c})
  BY <1>3, SumEquation
<1>5. SumFunctionOnSet(f, T \ {c}) \in Int
  BY <1>2, <1>3
<1> QED
  BY <1>2, <1>3, <1>4, <1>5

\* The element taken out need not be the one chosen.
LEMMA SumTake ==
  ASSUME NEW f, NEW S, IsFiniteSet(S), \A x \in S : f[x] \in Int, NEW x \in S
  PROVE  SumFunctionOnSet(f, S) = f[x] + SumFunctionOnSet(f, S \ {x})
<1> DEFINE Bad(T) == \E y \in T : SumFunctionOnSet(f, T) # f[y] + SumFunctionOnSet(f, T \ {y})
           F == {T \in SUBSET S : Bad(T)}
<1> SUFFICES ASSUME Bad(S) PROVE FALSE
  OBVIOUS
<1>1. \E T \in F : \A U \in F : U \subseteq T => U = T
  <2>1. F # {} /\ \A U \in F : IsFiniteSet(U)
    BY FS_Subset
  <2> HIDE DEF F
  <2> QED
    BY <2>1, MinimalSet
<1>2. PICK T \in F : \A U \in F : U \subseteq T => U = T
  BY <1>1
<1>3. PICK y \in T : SumFunctionOnSet(f, T) # f[y] + SumFunctionOnSet(f, T \ {y})
  BY <1>2
<1> DEFINE c == CHOOSE z \in T : TRUE
           V == T \ {c}
           W == T \ {y}
           X == T \ {c, y}
<1>4. c \in T /\ V \in SUBSET S /\ W \in SUBSET S /\ X \in SUBSET S
  BY <1>2, <1>3
<1>5. SumFunctionOnSet(f, T) = f[c] + SumFunctionOnSet(f, V)
  BY <1>2, <1>3, SumEquation
<1>6. c # y
  BY <1>3, <1>5
<1>7. V \ {y} = X /\ W \ {c} = X /\ y \in V /\ c \in W /\ V # T /\ W # T /\ V \subseteq T /\ W \subseteq T
  BY <1>3, <1>4, <1>6
<1>8. ~Bad(V) /\ ~Bad(W)
  BY <1>2, <1>4, <1>7
<1>9. SumFunctionOnSet(f, V) = f[y] + SumFunctionOnSet(f, X)
  BY <1>7, <1>8
<1>10. SumFunctionOnSet(f, W) = f[c] + SumFunctionOnSet(f, X)
  BY <1>7, <1>8
<1>11. SumFunctionOnSet(f, X) \in Int /\ f[c] \in Int /\ f[y] \in Int
  <2>1. IsFiniteSet(X) /\ \A z \in X : f[z] \in Int
    BY <1>4, FS_Subset
  <2>2. SumFunctionOnSet(f, X) \in Int
    BY <2>1, SumInt
  <2> QED
    BY <2>2, <1>3, <1>4
<1> HIDE DEF c, V, W, X
<1> QED
  BY <1>3, <1>5, <1>9, <1>10, <1>11 DEF W

\* A sum grows by the element the set grows by.
LEMMA SumAdd ==
  ASSUME NEW f, NEW S, NEW x,
         IsFiniteSet(S), \A y \in S : f[y] \in Int, x \notin S, f[x] \in Int
  PROVE  SumFunctionOnSet(f, S \cup {x}) = SumFunctionOnSet(f, S) + f[x]
<1> DEFINE U == S \cup {x}
<1>1. IsFiniteSet(U) /\ x \in U /\ \A y \in U : f[y] \in Int
  BY FS_AddElement
<1>2. U \ {x} = S
  OBVIOUS
<1>3. SumFunctionOnSet(f, S) \in Int
  BY SumInt
<1> HIDE DEF U
<1>4. SumFunctionOnSet(f, U) = f[x] + SumFunctionOnSet(f, S)
  BY <1>1, <1>2, SumTake
<1>5. SumFunctionOnSet(f, U) = SumFunctionOnSet(f, S) + f[x]
  BY <1>3, <1>4
<1> QED
  BY <1>5 DEF U

\* Naturals add up to a natural.
LEMMA SumNat ==
  ASSUME NEW f, NEW S, IsFiniteSet(S), \A x \in S : f[x] \in Nat
  PROVE  SumFunctionOnSet(f, S) \in Nat
<1> SUFFICES ASSUME SumFunctionOnSet(f, S) \notin Nat PROVE FALSE
  OBVIOUS
<1> DEFINE F == {T \in SUBSET S : SumFunctionOnSet(f, T) \notin Nat}
<1>1. \E T \in F : \A U \in F : U \subseteq T => U = T
  <2>1. F # {} /\ \A U \in F : IsFiniteSet(U)
    BY FS_Subset
  <2> HIDE DEF F
  <2> QED
    BY <2>1, MinimalSet
<1>2. PICK T \in F : \A U \in F : U \subseteq T => U = T
  BY <1>1
<1>a. SumFunctionOnSet(f, {}) = 0
  BY SumEmpty
<1>b. ASSUME T = {} PROVE FALSE
  BY <1>a, <1>b
<1>3. PICK x \in T : TRUE
  BY <1>b
<1>4. T \ {x} \in SUBSET S /\ IsFiniteSet(T) /\ \A y \in T : f[y] \in Int
  BY <1>2, FS_Subset
<1>5. SumFunctionOnSet(f, T) = f[x] + SumFunctionOnSet(f, T \ {x})
  BY <1>4, SumTake
<1>6. SumFunctionOnSet(f, T \ {x}) \in Nat
  BY <1>2, <1>3, <1>4
<1> QED
  BY <1>2, <1>3, <1>5, <1>6

\* A sum of naturals is at least each of them.
LEMMA SumMember ==
  ASSUME NEW f, NEW S, NEW x \in S, IsFiniteSet(S), \A y \in S : f[y] \in Nat
  PROVE  f[x] <= SumFunctionOnSet(f, S)
<1>1. SumFunctionOnSet(f, S) = f[x] + SumFunctionOnSet(f, S \ {x})
  BY SumTake
<1>2. IsFiniteSet(S \ {x}) /\ \A y \in S \ {x} : f[y] \in Nat
  BY FS_Subset
<1>3. SumFunctionOnSet(f, S \ {x}) \in Nat
  BY <1>2, SumNat
<1> QED
  BY <1>1, <1>3

\* A sum depends on the values it sums, and on nothing else of the function.
LEMMA SumAgree ==
  ASSUME NEW f, NEW h, NEW S, IsFiniteSet(S), \A x \in S : f[x] = h[x]
  PROVE  SumFunctionOnSet(f, S) = SumFunctionOnSet(h, S)
<1> SUFFICES ASSUME SumFunctionOnSet(f, S) # SumFunctionOnSet(h, S) PROVE FALSE
  OBVIOUS
<1> DEFINE F == {T \in SUBSET S : SumFunctionOnSet(f, T) # SumFunctionOnSet(h, T)}
<1>1. \E T \in F : \A U \in F : U \subseteq T => U = T
  <2>1. F # {} /\ \A U \in F : IsFiniteSet(U)
    BY FS_Subset
  <2> HIDE DEF F
  <2> QED
    BY <2>1, MinimalSet
<1>2. PICK T \in F : \A U \in F : U \subseteq T => U = T
  BY <1>1
<1>3. T # {}
  BY <1>2, SumEmpty
<1> DEFINE c == CHOOSE x \in T : TRUE
<1>4. c \in T /\ T \ {c} \in SUBSET S
  BY <1>2, <1>3
<1>5. /\ SumFunctionOnSet(f, T) = f[c] + SumFunctionOnSet(f, T \ {c})
      /\ SumFunctionOnSet(h, T) = h[c] + SumFunctionOnSet(h, T \ {c})
  BY <1>2, <1>3, SumChosen, FS_Subset
<1>6. SumFunctionOnSet(f, T \ {c}) = SumFunctionOnSet(h, T \ {c})
  BY <1>2, <1>4
<1> QED
  BY <1>2, <1>4, <1>5, <1>6

\* When one value changes, the sum changes as much.
LEMMA SumChange ==
  ASSUME NEW f, NEW h, NEW S, NEW x \in S, IsFiniteSet(S),
         \A y \in S : f[y] \in Int /\ h[y] \in Int,
         \A y \in S \ {x} : f[y] = h[y]
  PROVE  SumFunctionOnSet(h, S) = SumFunctionOnSet(f, S) + h[x] - f[x]
<1>1. /\ SumFunctionOnSet(f, S) = f[x] + SumFunctionOnSet(f, S \ {x})
      /\ SumFunctionOnSet(h, S) = h[x] + SumFunctionOnSet(h, S \ {x})
  BY SumTake
<1>2. IsFiniteSet(S \ {x})
  BY FS_Subset
<1>3. SumFunctionOnSet(f, S \ {x}) = SumFunctionOnSet(h, S \ {x})
  BY <1>2, SumAgree
<1>4. SumFunctionOnSet(f, S \ {x}) \in Int
  BY <1>2, SumInt
<1> QED
  BY <1>1, <1>3, <1>4

\* Zeros add up to zero.
LEMMA SumZero ==
  ASSUME NEW f, NEW S, IsFiniteSet(S), \A x \in S : f[x] = 0
  PROVE  SumFunctionOnSet(f, S) = 0
<1> DEFINE F == {T \in SUBSET S : SumFunctionOnSet(f, T) # 0}
<1> SUFFICES ASSUME SumFunctionOnSet(f, S) # 0 PROVE FALSE
  OBVIOUS
<1>1. \E T \in F : \A U \in F : U \subseteq T => U = T
  <2>1. F # {} /\ \A U \in F : IsFiniteSet(U)
    BY FS_Subset
  <2> HIDE DEF F
  <2> QED
    BY <2>1, MinimalSet
<1>2. PICK T \in F : \A U \in F : U \subseteq T => U = T
  BY <1>1
<1>3. SumFunctionOnSet(f, {}) = 0
  BY SumEmpty
<1>4. ASSUME T = {} PROVE FALSE
  BY <1>3, <1>4
<1>5. PICK x \in T : TRUE
  BY <1>4
<1>6. T \ {x} \in SUBSET S /\ IsFiniteSet(T) /\ \A y \in T : f[y] \in Int
  BY <1>2, FS_Subset
<1>7. SumFunctionOnSet(f, T) = f[x] + SumFunctionOnSet(f, T \ {x})
  BY <1>6, SumTake
<1>8. SumFunctionOnSet(f, T \ {x}) = 0
  BY <1>2, <1>5, <1>6
<1> QED
  BY <1>2, <1>5, <1>7, <1>8

\* A sequence without one of its elements.
LEMMA RemovedAt ==
  ASSUME NEW S, NEW q \in Seq(S), NEW i \in 1..Len(q)
  PROVE  /\ RemoveAt(q, i) \in Seq(S) /\ Len(RemoveAt(q, i)) = Len(q) - 1
         /\ \A j \in 1..(Len(q) - 1) : RemoveAt(q, i)[j] = IF j < i THEN q[j] ELSE q[j + 1]
<1>1. PICK l, r : l = SubSeq(q, 1, i - 1) /\ r = SubSeq(q, i + 1, Len(q))
  OBVIOUS
<1>2. PICK n, a, b : n = Len(q) /\ a = i - 1 /\ b = n - i
  OBVIOUS
<1>3. n \in Nat /\ a \in Nat /\ b \in Nat /\ a + b = n - 1 /\ i \in 1..n /\ DOMAIN q = 1..n
  BY <1>2
<1>4. l \in Seq(S) /\ Len(l) = a /\ \A j \in 1..a : l[j] = q[j]
  BY <1>1, <1>2, <1>3
<1>5. r \in Seq(S) /\ Len(r) = b /\ \A j \in 1..b : r[j] = q[i + j]
  BY <1>1, <1>2, <1>3
<1>6. /\ l \o r \in Seq(S) /\ Len(l \o r) = Len(l) + Len(r)
      /\ \A j \in 1..(Len(l) + Len(r)) :
           (l \o r)[j] = IF j <= Len(l) THEN l[j] ELSE r[j - Len(l)]
  BY <1>4, <1>5, ConcatProperties
<1>7. RemoveAt(q, i) = l \o r
  BY <1>1 DEF RemoveAt
<1>8. PICK s : s = l \o r
  OBVIOUS
<1>9. s \in Seq(S) /\ Len(s) = n - 1 /\ \A j \in 1..(n - 1) : s[j] = IF j <= a THEN l[j] ELSE r[j - a]
  BY <1>3, <1>4, <1>5, <1>6, <1>8
<1>10. ASSUME NEW j \in 1..(n - 1) PROVE s[j] = IF j < i THEN q[j] ELSE q[j + 1]
  <2>1. CASE j < i
    BY <1>2, <1>3, <1>4, <1>9, <2>1
  <2>2. CASE ~(j < i)
    <3>1. j - a \in 1..b /\ i + (j - a) = j + 1 /\ ~(j <= a)
      BY <1>2, <1>3, <2>2
    <3> QED
      BY <1>5, <1>9, <2>2, <3>1
  <2> QED
    BY <2>1, <2>2
<1> QED
  BY <1>2, <1>7, <1>8, <1>9, <1>10
=============================================================================
