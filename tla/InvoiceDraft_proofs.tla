------------------------ MODULE InvoiceDraft_proofs ------------------------
(***************************************************************************)
(* Proofs about a draft invoice.  The first half is arithmetic: what a     *)
(* split over lines, sequential discounts and the two ways of computing    *)
(* totals do for any amounts and any number of lines.  The second half is  *)
(* the records: what each handler makes of the copy it read, named         *)
(* operator by operator, so that a step of the model is a copy that is     *)
(* current and a change that keeps an invoice sound.  DraftInv joins the   *)
(* two: every copy an editor holds is a sound invoice of an earlier        *)
(* version, or the invoice itself.                                         *)
(***************************************************************************)
EXTENDS InvoiceDraft, FoldTheorems

-----------------------------------------------------------------------------
(* Sums *)

Sums == INSTANCE FoldSteps WITH Op <- Plus

\* A sum is the last of its partial sums.
LEMMA PartialSums ==
  ASSUME NEW n \in Nat, NEW a \in [1..n -> Int]
  PROVE  \E v \in [0..n -> Int] :
           v[0] = 0 /\ v[n] = SumOf(a) /\ \A k \in 1..n : v[k] = v[k - 1] + a[k]
<1>1. SumOf(a) = Sums!Folded(0, a, 1..n)
  <2>0. DOMAIN a = 1..n
    OBVIOUS
  <2>1. SumOf(a) = (CHOOSE g : g = [T \in SUBSET (DOMAIN a) |->
          IF T = {} THEN 0 ELSE Plus(g[T \ {Max(T)}], a[Max(T)])])[DOMAIN a]
    BY DEF SumOf, FoldLeft, MapThenFoldSet
  <2> QED
    BY <2>0, <2>1, Zenon DEF Sums!Folded, Sums!IsFoldOn, Sums!FoldStep, Sums!Greatest, Max
<1>2. PICK w : /\ w[0] = 0
               /\ \A k \in 1..n : w[k] = Plus(w[k - 1], a[k])
               /\ SumOf(a) = w[n]
  BY <1>1, Sums!FoldIsRun DEF Sums!IsRun
<1> DEFINE T == {k \in Nat : k <= n => w[k] \in Int}
<1>3. 0 \in T
  BY <1>2
<1>4. ASSUME NEW k \in Nat, k \in T PROVE k + 1 \in T
  <2> SUFFICES ASSUME k + 1 <= n PROVE w[k + 1] \in Int
    OBVIOUS
  <2>1. k + 1 \in 1..n /\ (k + 1) - 1 = k /\ k <= n
    OBVIOUS
  <2>2. w[k + 1] = w[k] + a[k + 1]
    BY <1>2, <2>1 DEF Plus
  <2>3. w[k] \in Int /\ a[k + 1] \in Int
    BY <1>4, <2>1
  <2> QED
    BY <2>2, <2>3
<1>5. Nat \subseteq T
  <2> HIDE DEF T
  <2> QED
    BY <1>3, <1>4, Induction
<1> DEFINE v == [k \in 0..n |-> w[k]]
<1>6. v \in [0..n -> Int]
  BY <1>5
<1>7. v[0] = 0 /\ v[n] = SumOf(a) /\ \A k \in 1..n : v[k] = v[k - 1] + a[k]
  BY <1>2 DEF Plus
<1> HIDE DEF v
<1> QED
  BY <1>6, <1>7

\* What sums up the steps down of a sequence of values is the whole way down.
LEMMA SumTelescopes ==
  ASSUME NEW n \in Nat, NEW left \in [0..n -> Int], NEW a \in [1..n -> Int],
         \A k \in 1..n : a[k] = left[k - 1] - left[k]
  PROVE  SumOf(a) = left[0] - left[n]
<1>1. PICK v \in [0..n -> Int] :
        v[0] = 0 /\ v[n] = SumOf(a) /\ \A k \in 1..n : v[k] = v[k - 1] + a[k]
  BY PartialSums
<1> DEFINE T == {k \in Nat : k <= n => v[k] = left[0] - left[k]}
<1>2. 0 \in T
  BY <1>1
<1>3. ASSUME NEW k \in Nat, k \in T PROVE k + 1 \in T
  <2> SUFFICES ASSUME k + 1 <= n PROVE v[k + 1] = left[0] - left[k + 1]
    OBVIOUS
  <2>1. k + 1 \in 1..n /\ (k + 1) - 1 = k /\ k <= n /\ k \in 0..n /\ k + 1 \in 0..n /\ 0 \in 0..n
    OBVIOUS
  <2>2. v[k + 1] = v[k] + (left[k] - left[k + 1])
    BY <1>1, <2>1
  <2>3. v[k] = left[0] - left[k]
    BY <1>3, <2>1
  <2>4. left[0] \in Int /\ left[k] \in Int /\ left[k + 1] \in Int
    BY <2>1
  <2> QED
    BY <2>2, <2>3, <2>4
<1>4. n \in T
  <2> HIDE DEF T
  <2> QED
    BY <1>2, <1>3, Induction
<1> QED
  BY <1>1, <1>4

\* The partial sums of naturals are naturals, none beyond the whole.
LEMMA PartialSumsOfNat ==
  ASSUME NEW n \in Nat, NEW a \in [1..n -> Nat]
  PROVE  \E v \in [0..n -> Nat] :
           /\ v[0] = 0 /\ v[n] = SumOf(a)
           /\ \A k \in 1..n : v[k] = v[k - 1] + a[k]
           /\ \A k \in 0..n : v[k] <= v[n]
<1>0. a \in [1..n -> Int]
  OBVIOUS
<1>1. PICK v \in [0..n -> Int] :
        v[0] = 0 /\ v[n] = SumOf(a) /\ \A k \in 1..n : v[k] = v[k - 1] + a[k]
  BY <1>0, PartialSums
<1> DEFINE T == {k \in Nat : k <= n => v[k] \in Nat /\ \A j \in 0..k : v[j] <= v[k]}
<1>2. 0 \in T
  BY <1>1
<1>3. ASSUME NEW k \in Nat, k \in T PROVE k + 1 \in T
  <2> SUFFICES ASSUME k + 1 <= n
               PROVE  v[k + 1] \in Nat /\ \A j \in 0..(k + 1) : v[j] <= v[k + 1]
    OBVIOUS
  <2>1. k + 1 \in 1..n /\ (k + 1) - 1 = k /\ k <= n
    OBVIOUS
  <2>2. v[k + 1] = v[k] + a[k + 1] /\ v[k] \in Nat /\ a[k + 1] \in Nat
    BY <1>1, <1>3, <2>1
  <2>3. ASSUME NEW j \in 0..k PROVE v[j] <= v[k + 1]
    <3>1. v[j] <= v[k] /\ v[j] \in Int
      BY <1>3, <2>1
    <3> QED
      BY <2>2, <3>1, SMTT(30)
  <2>4. v[k + 1] \in Nat /\ v[k + 1] <= v[k + 1]
    BY <2>2
  <2>5. \A j \in 0..(k + 1) : j \in 0..k \/ j = k + 1
    OBVIOUS
  <2> QED
    BY <2>3, <2>4, <2>5
<1>4. Nat \subseteq T
  <2> HIDE DEF T
  <2> QED
    BY <1>2, <1>3, Induction
<1>5. v \in [0..n -> Nat]
  BY <1>4
<1>6. \A k \in 0..n : v[k] <= v[n]
  BY <1>4
<1> QED
  BY <1>1, <1>5, <1>6

\* Naturals add up to a natural.
LEMMA SumIsNat ==
  ASSUME NEW n \in Nat, NEW a \in [1..n -> Nat]
  PROVE  SumOf(a) \in Nat
  BY PartialSumsOfNat

\* Sums subtract term by term.
LEMMA SumMinus ==
  ASSUME NEW n \in Nat, NEW a \in [1..n -> Int], NEW b \in [1..n -> Int], NEW c \in [1..n -> Int],
         \A k \in 1..n : c[k] = a[k] - b[k]
  PROVE  SumOf(c) = SumOf(a) - SumOf(b)
<1>1. PICK v \in [0..n -> Int] :
        v[0] = 0 /\ v[n] = SumOf(a) /\ \A k \in 1..n : v[k] = v[k - 1] + a[k]
  BY PartialSums
<1>2. PICK w \in [0..n -> Int] :
        w[0] = 0 /\ w[n] = SumOf(b) /\ \A k \in 1..n : w[k] = w[k - 1] + b[k]
  BY PartialSums
<1> DEFINE left == [k \in 0..n |-> w[k] - v[k]]
<1>3. left \in [0..n -> Int]
  OBVIOUS
<1>4. ASSUME NEW k \in 1..n PROVE c[k] = left[k - 1] - left[k]
  <2>1. k \in 0..n /\ k - 1 \in 0..n /\ a[k] \in Int /\ b[k] \in Int
    OBVIOUS
  <2>2. v[k] = v[k - 1] + a[k] /\ w[k] = w[k - 1] + b[k] /\ v[k - 1] \in Int /\ w[k - 1] \in Int
    BY <1>1, <1>2, <2>1
  <2>3. left[k - 1] = w[k - 1] - v[k - 1] /\ left[k] = w[k] - v[k]
    BY <2>1
  <2> HIDE DEF left
  <2> QED
    BY <2>1, <2>2, <2>3, SMTT(60)
<1>5. left[0] = 0 /\ left[n] = SumOf(b) - SumOf(a)
  BY <1>1, <1>2
<1> HIDE DEF left
<1>6. SumOf(c) = left[0] - left[n]
  BY <1>3, <1>4, SumTelescopes
<1>7. SumOf(a) \in Int /\ SumOf(b) \in Int
  BY <1>1, <1>2
<1> QED
  BY <1>5, <1>6, <1>7

-----------------------------------------------------------------------------
(* The split of a discount over lines *)

Cuts == INSTANCE FoldSteps WITH Op <- Shared

Runs == [left : Nat, shares : Seq(Nat)]

SharesOf(amount, asked) == FoldLeft(Shared, [left |-> amount, shares |-> <<>>], asked).shares

\* What is left before and after each line, and what the line takes.
AreSteps(n, amount, asked, left, shares) ==
  /\ left \in [0..n -> Nat] /\ shares \in [1..n -> Nat]
  /\ shares = SharesOf(amount, asked)
  /\ left[0] = amount
  /\ \A k \in 1..n : shares[k] = Capped(left[k - 1], asked[k]) /\ left[k] = left[k - 1] - shares[k]

\* The shares are the steps down of what is left.
LEMMA SharesAreSteps ==
  ASSUME NEW n \in Nat, NEW asked \in [1..n -> Nat], NEW amount \in Nat
  PROVE  \E left, shares : AreSteps(n, amount, asked, left, shares)
<1>0. PICK start : start = [left |-> amount, shares |-> <<>>]
  OBVIOUS
<1>1. FoldLeft(Shared, start, asked) = Cuts!Folded(start, asked, 1..n)
  <2>0. DOMAIN asked = 1..n
    OBVIOUS
  <2>1. FoldLeft(Shared, start, asked) = (CHOOSE g : g = [T \in SUBSET (DOMAIN asked) |->
          IF T = {} THEN start ELSE Shared(g[T \ {Max(T)}], asked[Max(T)])])[DOMAIN asked]
    BY DEF FoldLeft, MapThenFoldSet
  <2> QED
    BY <2>0, <2>1, Zenon DEF Cuts!Folded, Cuts!IsFoldOn, Cuts!FoldStep, Cuts!Greatest, Max
<1>2. PICK v : /\ v[0] = start
               /\ \A k \in 1..n : v[k] = Shared(v[k - 1], asked[k])
               /\ Cuts!Folded(start, asked, 1..n) = v[n]
  <2>1. \E v : Cuts!IsRun(start, asked, n, v)
    BY Cuts!FoldIsRun
  <2> QED
    BY <2>1 DEF Cuts!IsRun
<1> DEFINE T == {k \in Nat : k <= n =>
                   /\ v[k] \in Runs /\ Len(v[k].shares) = k
                   /\ \A j \in 1..k : v[k].shares[j] = Capped(v[j - 1].left, asked[j])}
<1>3. 0 \in T
  <2>1. v[0] = [left |-> amount, shares |-> <<>>]
    BY <1>0, <1>2
  <2>2. v[0].left = amount /\ v[0].shares = <<>>
    BY <2>1
  <2>3. v[0] \in Runs /\ Len(v[0].shares) = 0
    BY <2>1, <2>2 DEF Runs
  <2>4. 1..0 = {}
    OBVIOUS
  <2> QED
    BY <2>3, <2>4
<1>4. ASSUME NEW k \in Nat, k \in T PROVE k + 1 \in T
  <2> SUFFICES ASSUME k + 1 <= n
               PROVE  /\ v[k + 1] \in Runs /\ Len(v[k + 1].shares) = k + 1
                      /\ \A j \in 1..(k + 1) :
                           v[k + 1].shares[j] = Capped(v[j - 1].left, asked[j])
    OBVIOUS
  <2>1. k + 1 \in 1..n /\ (k + 1) - 1 = k /\ k <= n /\ asked[k + 1] \in Nat
    OBVIOUS
  <2>2. PICK run : run = v[k]
    OBVIOUS
  <2>3. run \in Runs /\ Len(run.shares) = k
        /\ \A j \in 1..k : run.shares[j] = Capped(v[j - 1].left, asked[j])
    BY <1>4, <2>1, <2>2
  <2>4. v[k + 1] = Shared(run, asked[k + 1])
    BY <1>2, <2>1, <2>2
  <2>5. PICK share : share = Capped(run.left, asked[k + 1])
    OBVIOUS
  <2>6. share \in Nat /\ share <= run.left /\ run.left \in Nat /\ run.shares \in Seq(Nat)
    BY <2>1, <2>3, <2>5 DEF Capped, Runs
  <2>7. v[k + 1] = [left |-> run.left - share, shares |-> Append(run.shares, share)]
    BY <2>4, <2>5 DEF Shared
  <2>8. /\ Append(run.shares, share) \in Seq(Nat) /\ Len(Append(run.shares, share)) = k + 1
        /\ Append(run.shares, share)[k + 1] = share
        /\ \A j \in 1..k : Append(run.shares, share)[j] = run.shares[j]
    BY <2>3, <2>6
  <2>9. v[k + 1] \in Runs
    BY <2>6, <2>7, <2>8 DEF Runs
  <2>10. ASSUME NEW j \in 1..(k + 1)
         PROVE  v[k + 1].shares[j] = Capped(v[j - 1].left, asked[j])
    <3>1. CASE j = k + 1
      BY <2>1, <2>2, <2>5, <2>7, <2>8, <3>1
    <3>2. CASE j \in 1..k
      BY <2>3, <2>7, <2>8, <3>2
    <3> QED
      BY <3>1, <3>2
  <2>11. Len(v[k + 1].shares) = k + 1
    BY <2>7, <2>8
  <2> QED
    BY <2>9, <2>10, <2>11, Zenon
<1>5. Nat \subseteq T
  <2> HIDE DEF T
  <2> QED
    BY <1>3, <1>4, Induction
<1> DEFINE left == [k \in 0..n |-> v[k].left]
<1>6. ASSUME NEW k \in 0..n PROVE v[k] \in Runs
  <2>1. k \in Nat /\ k <= n
    OBVIOUS
  <2> QED
    BY <1>5, <2>1
<1>7. left \in [0..n -> Nat]
  BY <1>6 DEF Runs
<1>8. PICK shares : shares = v[n].shares
  OBVIOUS
<1>9. shares \in Seq(Nat) /\ Len(shares) = n
      /\ \A j \in 1..n : shares[j] = Capped(v[j - 1].left, asked[j])
  BY <1>5, <1>8 DEF Runs
<1>10. shares \in [1..n -> Nat]
  BY <1>9
<1>11. left[0] = amount
  BY <1>0, <1>2
<1>12. ASSUME NEW k \in 1..n
       PROVE  shares[k] = Capped(left[k - 1], asked[k]) /\ left[k] = left[k - 1] - shares[k]
  <2>1. k - 1 \in 0..n /\ k \in 0..n
    OBVIOUS
  <2>2. left[k - 1] = v[k - 1].left /\ left[k] = v[k].left
    BY <2>1
  <2> HIDE DEF left
  <2>3. v[k] = Shared(v[k - 1], asked[k])
    BY <1>2
  <2>4. v[k].left = v[k - 1].left - Capped(v[k - 1].left, asked[k])
    BY <2>3 DEF Shared
  <2> QED
    BY <1>9, <2>2, <2>4
<1>13. shares = SharesOf(amount, asked)
  BY <1>0, <1>1, <1>2, <1>8 DEF SharesOf
<1> HIDE DEF left
<1> QED
  BY <1>7, <1>10, <1>11, <1>12, <1>13, ZenonT(90) DEF AreSteps

\* A quotient rounded to whole cents, from above and below.
LEMMA RoundedBounds ==
  ASSUME NEW a \in Nat, NEW p \in Nat, p > 0
  PROVE  /\ Rounded(a, p) \in Nat
         /\ 2 * (p * Rounded(a, p)) <= 2 * a + p
         /\ 2 * (p * Rounded(a, p)) >= 2 * a - p + 1
<1> DEFINE x == 2 * a + p
           y == 2 * p
           q == x \div y
           r == x % y
<1>1. x \in Nat /\ y \in Nat /\ y > 0
  OBVIOUS
<1> HIDE DEF x, y
<1>2. q \in Nat /\ r \in 0..(y - 1) /\ x = y * q + r
  BY <1>1
<1>3. y * q = 2 * (p * q)
  BY <1>2 DEF y
<1> HIDE DEF q, r
<1>4. p * q \in Nat
  BY <1>2
<1>5. 2 * (p * q) <= x /\ 2 * (p * q) >= x - (2 * p - 1)
  BY <1>1, <1>2, <1>3, <1>4 DEF y
<1>6. Rounded(a, p) = q
  BY DEF Rounded, q, x, y
<1> QED
  BY <1>2, <1>4, <1>5, <1>6 DEF x

\* A share never exceeds its base when the whole does not.
LEMMA RoundedWithin ==
  ASSUME NEW b \in Nat, NEW amount \in Nat, NEW p \in Nat, p > 0, amount <= p
  PROVE  Rounded(b * amount, p) \in Nat /\ Rounded(b * amount, p) <= b
<1>1. b * amount \in Nat /\ b * amount <= b * p
  OBVIOUS
<1> DEFINE q == Rounded(b * amount, p)
<1>2. q \in Nat /\ 2 * (p * q) <= 2 * (b * amount) + p
  BY <1>1, RoundedBounds
<1> HIDE DEF q
<1>3. ASSUME q >= b + 1 PROVE FALSE
  <2>1. p * q >= p * (b + 1)
    BY <1>2, <1>3
  <2>2. p * (b + 1) = b * p + p
    OBVIOUS
  <2>3. p * q \in Nat /\ b * p \in Nat
    BY <1>2
  <2> QED
    BY <1>1, <1>2, <2>1, <2>2, <2>3
<1>4. q <= b
  BY <1>2, <1>3
<1> QED
  BY <1>2, <1>4 DEF q

\* What is left after k lines follows the exact shares closely: each rounding
\* keeps back less than half a cent.
LEMMA LeftAfterShare ==
  ASSUME NEW p \in Nat, p > 0, NEW amount \in Nat, NEW b \in Nat, NEW B \in Nat,
         NEW left \in Nat, NEW k \in Nat, NEW share,
         left <= amount, B + b <= p,
         2 * (p * (amount - left)) >= 2 * (amount * B) - k * (p - 1),
         share = Capped(left, Rounded(b * amount, p))
  PROVE  2 * (p * (amount - (left - share))) >= 2 * (amount * (B + b)) - (k + 1) * (p - 1)
<1> DEFINE q == Rounded(b * amount, p)
<1>1. b * amount \in Nat
  OBVIOUS
<1>2. q \in Nat /\ 2 * (p * q) >= 2 * (b * amount) - p + 1
  BY <1>1, RoundedBounds
<1>3. share = Capped(left, q)
  OBVIOUS
<1> HIDE DEF q
<1>4. k * (p - 1) \in Nat /\ (k + 1) * (p - 1) = k * (p - 1) + (p - 1) /\ p - 1 \in Nat
  OBVIOUS
<1>5. amount * (B + b) = amount * B + b * amount /\ amount * B \in Nat
  OBVIOUS
<1>6. CASE share = q
  <2>1. p * (amount - (left - share)) = p * (amount - left) + p * q
    BY <1>2, <1>6
  <2>2. p * (amount - left) \in Nat /\ p * q \in Nat
    BY <1>2
  <2> QED
    BY <1>1, <1>2, <1>4, <1>5, <2>1, <2>2
<1>7. CASE share = left
  <2>1. amount - (left - share) = amount
    BY <1>7
  <2>2. amount * (B + b) <= p * amount
    OBVIOUS
  <2>3. p * amount \in Nat /\ amount * (B + b) \in Nat
    OBVIOUS
  <2> QED
    BY <1>4, <2>1, <2>2, <2>3
<1> QED
  BY <1>2, <1>3, <1>6, <1>7 DEF Capped

\* So the remainder exceeds the last base by less than half a cent a line before it.
LEMMA LastRemainder ==
  ASSUME NEW p \in Nat, p > 0, NEW amount \in Nat, amount <= p, NEW b \in Nat, NEW B \in Nat,
         NEW left \in Nat, NEW k \in Nat, left <= amount, B + b = p,
         2 * (p * (amount - left)) >= 2 * (amount * B) - k * (p - 1)
  PROVE  left <= b \/ 2 * (left - b) < k
<1> SUFFICES ASSUME left > b, 2 * (left - b) >= k PROVE FALSE
  OBVIOUS
<1>1. amount * B = amount * p - amount * b
  <2>1. B = p - b
    OBVIOUS
  <2> QED
    BY <2>1
<1>2. p * (amount - left) = amount * p - p * left
  OBVIOUS
<1>3. amount * b <= p * b
  OBVIOUS
<1>4. p * left \in Nat /\ amount * p \in Nat /\ amount * b \in Nat /\ p * b \in Nat
      /\ k * (p - 1) \in Nat
  OBVIOUS
<1>5. 2 * (p * left) <= 2 * (p * b) + k * (p - 1)
  BY <1>1, <1>2, <1>3, <1>4
<1>6. p * left = p * b + p * (left - b) /\ p * (left - b) \in Nat
  OBVIOUS
<1>7. 2 * (p * (left - b)) <= k * (p - 1)
  BY <1>4, <1>5, <1>6
<1>8. 2 * (p * (left - b)) >= p * k
  <2>1. p * (2 * (left - b)) >= p * k
    OBVIOUS
  <2>2. p * (2 * (left - b)) = 2 * (p * (left - b))
    OBVIOUS
  <2> QED
    BY <2>1, <2>2
<1>9. k * (p - 1) = p * k - k /\ p * k \in Nat
  OBVIOUS
<1>10. k = 0
  BY <1>6, <1>7, <1>8, <1>9
<1>11. p * (left - b) >= p
  OBVIOUS
<1> QED
  BY <1>6, <1>7, <1>9, <1>10, <1>11

\* A split shares out the whole amount.  No line but the last gets more than its
\* base; the last may, by less than half a cent for each line before it.
LEMMA SplitIs ==
  ASSUME NEW n \in Nat, n > 0, NEW bases \in [1..n -> Nat], NEW amount \in Nat,
         amount <= SumOf(bases)
  PROVE  /\ Split(bases, amount) \in [1..n -> Nat]
         /\ SumOf(Split(bases, amount)) = amount
         /\ \A k \in 1..(n - 1) : Split(bases, amount)[k] <= bases[k]
         /\ \/ Split(bases, amount)[n] <= bases[n]
            \/ 2 * (Split(bases, amount)[n] - bases[n]) < n - 1
<1>0. DOMAIN bases = 1..n /\ Len(bases) = n /\ bases \in Seq(Nat)
  OBVIOUS
<1>1. PICK p : p = SumOf(bases)
  OBVIOUS
<1>2. p \in Nat
  BY <1>1, SumIsNat
<1>3. CASE p = 0 \/ amount = 0
  <2>1. amount = 0
    BY <1>1, <1>2, <1>3
  <2>2. PICK zeros : zeros = [i \in 1..n |-> 0]
    OBVIOUS
  <2>3. Split(bases, amount) = zeros
    BY <1>0, <1>1, <1>3, <2>2 DEF Split
  <2>4. PICK left : left = [k \in 0..n |-> 0]
    OBVIOUS
  <2>5. zeros \in [1..n -> Int] /\ left \in [0..n -> Int]
        /\ \A k \in 1..n : zeros[k] = left[k - 1] - left[k]
    BY <2>2, <2>4
  <2>6. SumOf(zeros) = left[0] - left[n]
    BY <2>5, SumTelescopes
  <2>7. SumOf(zeros) = 0
    BY <2>4, <2>6
  <2>8. zeros \in [1..n -> Nat] /\ \A k \in 1..n : zeros[k] = 0 /\ zeros[k] <= bases[k]
    BY <2>2
  <2> QED
    BY <2>1, <2>3, <2>7, <2>8
<1>4. CASE p # 0 /\ amount # 0
  <2>1. PICK asked : asked = Asked(bases, amount)
    OBVIOUS
  <2>2. asked = [i \in 1..n |-> IF i = n THEN amount ELSE Rounded(bases[i] * amount, p)]
    BY <1>0, <1>1, <2>1 DEF Asked
  <2>3. ASSUME NEW i \in 1..n, i # n
        PROVE  asked[i] \in Nat /\ asked[i] <= bases[i] /\ asked[i] = Rounded(bases[i] * amount, p)
    <3>1. Rounded(bases[i] * amount, p) \in Nat /\ Rounded(bases[i] * amount, p) <= bases[i]
      BY <1>1, <1>2, <1>4, RoundedWithin
    <3> QED
      BY <2>2, <2>3, <3>1
  <2>4. asked[n] = amount
    BY <2>2
  <2>5. asked \in [1..n -> Nat]
    BY <2>2, <2>3, <2>4
  <2>0. PICK left, shares : AreSteps(n, amount, asked, left, shares)
    BY <2>5, SharesAreSteps
  <2>6. /\ left \in [0..n -> Nat] /\ shares \in [1..n -> Nat]
        /\ shares = SharesOf(amount, asked)
        /\ left[0] = amount
        /\ \A k \in 1..n : /\ shares[k] = Capped(left[k - 1], asked[k])
                           /\ left[k] = left[k - 1] - shares[k]
    BY <2>0 DEF AreSteps
  <2>7. Split(bases, amount) = shares
    BY <1>1, <1>4, <2>1, <2>6 DEF Split, SharesOf
  <2>8. ASSUME NEW k \in 1..(n - 1) PROVE shares[k] <= bases[k]
    <3>1. k \in 1..n /\ k # n /\ k - 1 \in 0..n
      OBVIOUS
    <3>2. shares[k] = Capped(left[k - 1], asked[k]) /\ asked[k] <= bases[k]
          /\ asked[k] \in Nat /\ left[k - 1] \in Nat /\ bases[k] \in Nat
      BY <2>3, <2>6, <3>1
    <3> QED
      BY <3>2 DEF Capped
  <2>9. PICK B \in [0..n -> Nat] :
          /\ B[0] = 0 /\ B[n] = p
          /\ \A k \in 1..n : B[k] = B[k - 1] + bases[k]
          /\ \A k \in 0..n : B[k] <= B[n]
    BY <1>1, PartialSumsOfNat
  <2> DEFINE T == {k \in Nat : k < n =>
                     /\ left[k] <= amount
                     /\ 2 * (p * (amount - left[k])) >= 2 * (amount * B[k]) - k * (p - 1)}
  <2>10. 0 \in T
    <3>1. amount - left[0] = 0 /\ left[0] = amount /\ B[0] = 0
      BY <2>6, <2>9
    <3>2. p * 0 = 0 /\ amount * 0 = 0 /\ 0 * (p - 1) = 0
      BY <1>2
    <3> QED
      BY <3>1, <3>2
  <2>11. ASSUME NEW k \in Nat, k \in T PROVE k + 1 \in T
    <3> SUFFICES ASSUME k + 1 < n
                 PROVE  /\ left[k + 1] <= amount
                        /\ 2 * (p * (amount - left[k + 1]))
                             >= 2 * (amount * B[k + 1]) - (k + 1) * (p - 1)
      OBVIOUS
    <3>1. k + 1 \in 1..n /\ k + 1 # n /\ (k + 1) - 1 = k /\ k < n /\ k \in 0..n /\ k + 1 \in 0..n
      OBVIOUS
    <3>2. PICK l, b, share : l = left[k] /\ b = bases[k + 1] /\ share = shares[k + 1]
      OBVIOUS
    <3>3. l \in Nat /\ b \in Nat /\ share \in Nat /\ B[k] \in Nat /\ B[k + 1] = B[k] + b
          /\ B[k] + b <= p /\ l <= amount
          /\ 2 * (p * (amount - l)) >= 2 * (amount * B[k]) - k * (p - 1)
      BY <2>6, <2>9, <2>11, <3>1, <3>2
    <3>4. share = Capped(l, Rounded(b * amount, p)) /\ left[k + 1] = l - share
      BY <2>3, <2>6, <3>1, <3>2
    <3>5. 2 * (p * (amount - (l - share))) >= 2 * (amount * (B[k] + b)) - (k + 1) * (p - 1)
      <4>1. PICK before : before = B[k]
        OBVIOUS
      <4>2. before \in Nat /\ before + b <= p /\ p > 0 /\ share = Capped(l, Rounded(b * amount, p))
            /\ 2 * (p * (amount - l)) >= 2 * (amount * before) - k * (p - 1)
        BY <1>2, <1>4, <3>3, <3>4, <4>1
      <4>3. 2 * (p * (amount - (l - share))) >= 2 * (amount * (before + b)) - (k + 1) * (p - 1)
        BY <1>2, <3>3, <4>2, LeftAfterShare
      <4> QED
        BY <4>1, <4>3
    <3>6. l - share <= amount
      BY <3>3
    <3> QED
      BY <3>3, <3>4, <3>5, <3>6
  <2>12. n - 1 \in Nat /\ n - 1 \in T /\ n - 1 \in 0..n /\ n \in 1..n
    <3>1. n - 1 \in Nat /\ n - 1 \in 0..n /\ n \in 1..n
      OBVIOUS
    <3> HIDE DEF T
    <3>2. Nat \subseteq T
      BY <2>10, <2>11, Induction
    <3> QED
      BY <3>1, <3>2
  <2>13. PICK l, b : l = left[n - 1] /\ b = bases[n]
    OBVIOUS
  <2>14. l \in Nat /\ b \in Nat /\ l <= amount /\ B[n - 1] \in Nat /\ B[n - 1] + b = p
         /\ 2 * (p * (amount - l)) >= 2 * (amount * B[n - 1]) - (n - 1) * (p - 1)
    BY <2>6, <2>9, <2>12, <2>13
  <2> HIDE DEF T
  <2>15. l <= b \/ 2 * (l - b) < n - 1
    <3>1. PICK before, k : before = B[n - 1] /\ k = n - 1
      OBVIOUS
    <3>2. before \in Nat /\ k \in Nat /\ before + b = p /\ p > 0 /\ amount <= p
          /\ 2 * (p * (amount - l)) >= 2 * (amount * before) - k * (p - 1)
      BY <1>1, <1>2, <1>4, <2>12, <2>14, <3>1
    <3>3. l <= b \/ 2 * (l - b) < k
      BY <1>2, <2>14, <3>2, LastRemainder
    <3> QED
      BY <3>1, <3>3
  <2>16. shares[n] = l /\ left[n] = 0
    <3>1. shares[n] = Capped(left[n - 1], asked[n]) /\ left[n] = left[n - 1] - shares[n]
      BY <2>6, <2>12
    <3>2. shares[n] = Capped(l, amount) /\ left[n] = l - shares[n]
      BY <2>4, <2>13, <3>1
    <3> QED
      BY <2>14, <3>2 DEF Capped
  <2>17. SumOf(shares) = left[0] - left[n]
    <3>1. left \in [0..n -> Int] /\ shares \in [1..n -> Int]
      BY <2>6, SMTT(60)
    <3>2. \A k \in 1..n : shares[k] = left[k - 1] - left[k]
      <4> SUFFICES ASSUME NEW k \in 1..n PROVE shares[k] = left[k - 1] - left[k]
        OBVIOUS
      <4>1. k - 1 \in 0..n /\ k \in 0..n
        OBVIOUS
      <4>2. left[k - 1] \in Nat /\ shares[k] \in Nat /\ left[k] = left[k - 1] - shares[k]
        BY <2>6, <4>1
      <4> QED
        BY <4>2, SMTT(40)
    <3> QED
      BY <3>1, <3>2, SumTelescopes
  <2>18. SumOf(shares) = amount
    BY <2>6, <2>16, <2>17
  <2> QED
    BY <2>6, <2>7, <2>8, <2>13, <2>15, <2>16, <2>18
<1> QED
  BY <1>3, <1>4

-----------------------------------------------------------------------------
(* Discounts taken one after the other *)

Takes == INSTANCE FoldSteps WITH Op <- Less

\* What the validation of requests lets through.
IsDiscount(d) ==
  /\ d.type \in {"percentage", "fixed"} /\ d.value \in Nat
  /\ d.type = "percentage" => d.value <= 100

\* No discount takes more than there is.
LEMMA TakenIs ==
  ASSUME NEW d, IsDiscount(d), NEW base \in Nat
  PROVE  Taken(d, base) \in 0..base
<1>1. CASE d.type = "percentage"
  <2>1. d.value \in Nat /\ d.value <= 100
    BY <1>1 DEF IsDiscount
  <2>2. Rounded(base * d.value, 100) \in Nat /\ Rounded(base * d.value, 100) <= base
    <3>1. PICK value, p : value = d.value /\ p = 100
      OBVIOUS
    <3>2. value \in Nat /\ p \in Nat /\ p > 0 /\ value <= p
      BY <2>1, <3>1
    <3>3. Rounded(base * value, p) \in Nat /\ Rounded(base * value, p) <= base
      BY <3>2, RoundedWithin
    <3> QED
      BY <3>1, <3>3
  <2> QED
    BY <1>1, <2>2 DEF Taken
<1>2. CASE d.type # "percentage"
  <2>1. d.value \in Nat
    BY DEF IsDiscount
  <2> QED
    BY <1>2, <2>1 DEF Taken, Capped
<1> QED
  BY <1>1, <1>2

\* Nor do several.
LEMMA AfterDiscountsIs ==
  ASSUME NEW n \in Nat, NEW items, DOMAIN items = 1..n,
         \A k \in 1..n : IsDiscount(items[k]), NEW base \in Nat
  PROVE  AfterDiscounts(base, items) \in 0..base
<1>1. AfterDiscounts(base, items) = Takes!Folded(base, items, 1..n)
  <2>1. AfterDiscounts(base, items) = (CHOOSE g : g = [T \in SUBSET (DOMAIN items) |->
          IF T = {} THEN base ELSE Less(g[T \ {Max(T)}], items[Max(T)])])[DOMAIN items]
    BY DEF AfterDiscounts, FoldLeft, MapThenFoldSet
  <2> QED
    BY <2>1, Zenon DEF Takes!Folded, Takes!IsFoldOn, Takes!FoldStep, Takes!Greatest, Max
<1>2. PICK v : /\ v[0] = base
               /\ \A k \in 1..n : v[k] = Less(v[k - 1], items[k])
               /\ Takes!Folded(base, items, 1..n) = v[n]
  BY Takes!FoldIsRun DEF Takes!IsRun
<1> DEFINE T == {k \in Nat : k <= n => v[k] \in 0..base}
<1>3. 0 \in T
  BY <1>2
<1>4. ASSUME NEW k \in Nat, k \in T PROVE k + 1 \in T
  <2> SUFFICES ASSUME k + 1 <= n PROVE v[k + 1] \in 0..base
    OBVIOUS
  <2>1. k + 1 \in 1..n /\ (k + 1) - 1 = k /\ k <= n
    OBVIOUS
  <2>2. v[k + 1] = v[k] - Taken(items[k + 1], v[k]) /\ v[k] \in 0..base
    BY <1>2, <1>4, <2>1 DEF Less
  <2>3. Taken(items[k + 1], v[k]) \in 0..v[k]
    <3>1. v[k] \in Nat /\ IsDiscount(items[k + 1])
      BY <2>1, <2>2
    <3> QED
      BY <3>1, TakenIs
  <2> QED
    BY <2>2, <2>3
<1>5. n \in T
  <2> HIDE DEF T
  <2> QED
    BY <1>3, <1>4, Induction
<1> QED
  BY <1>1, <1>2, <1>5

-----------------------------------------------------------------------------
(* Totals *)

N == Len(DraftLines)

\* A draft has lines, and their totals are amounts.
LEMMA LinesAre ==
  /\ N \in Nat /\ N > 0 /\ LineIdx = 1..N /\ DraftLines \in [1..N -> Nat]
  /\ Eligible \in Nat
<1>1. N \in Nat /\ N > 0 /\ LineIdx = 1..N /\ DraftLines \in [1..N -> Nat]
  BY DraftAssumption DEF N, LineIdx
<1> QED
  BY <1>1, SumIsNat DEF Eligible

\* What the assumption says of each constant.
LEMMA ConstantsOfDraft ==
  /\ Balance \in Nat /\ Scalars \subseteq Nat /\ PointRequests \subseteq Nat
  /\ \A d \in Discounts : IsDiscount(d)
  /\ MinPoints \in Nat /\ MaxPercentage \in Nat /\ PointValue \in Nat /\ MaxVersion \in Nat
  BY DraftAssumption DEF IsDiscount

Totals ==
  [discountTotal : Nat, payable : Nat,
   lineDiscount : [LineIdx -> Nat], linePayable : [LineIdx -> Nat]]

\* Header and lines of an invoice of any number of lines: the discounts of the lines
\* and the loyalty discount add up to the header's, and a line may be discounted
\* below zero by less than half a cent for each of the others.
Agree(t, loyalty) ==
  /\ t.payable = Eligible - t.discountTotal
  /\ t.discountTotal - SumOf(t.lineDiscount) \in 0..loyalty
  /\ \A l \in LineIdx :
       /\ \/ t.lineDiscount[l] <= DraftLines[l]
          \/ 2 * (t.lineDiscount[l] - DraftLines[l]) < N - 1
       /\ t.linePayable[l] = IF t.lineDiscount[l] > DraftLines[l]
                               THEN 0 ELSE DraftLines[l] - t.lineDiscount[l]

\* The totals of a scalar discount.
LEMMA ScalarTotalsAre ==
  ASSUME NEW desired \in Nat, NEW loyalty \in Nat
  PROVE  ScalarTotals(desired) \in Totals /\ Agree(ScalarTotals(desired), loyalty)
<1> DEFINE effective == Capped(Eligible, desired)
           shares == Split(DraftLines, effective)
           t == ScalarTotals(desired)
<1>1. effective \in Nat /\ effective <= Eligible
  BY LinesAre DEF Capped
<1>2. t = [discountTotal |-> effective, payable |-> Eligible - effective,
           lineDiscount |-> shares,
           linePayable |-> [i \in LineIdx |-> IF shares[i] > DraftLines[i]
                                                THEN 0 ELSE DraftLines[i] - shares[i]]]
  BY DEF ScalarTotals
<1> HIDE DEF effective
<1>3. /\ shares \in [1..N -> Nat] /\ SumOf(shares) = effective
      /\ \A k \in 1..(N - 1) : shares[k] <= DraftLines[k]
      /\ shares[N] <= DraftLines[N] \/ 2 * (shares[N] - DraftLines[N]) < N - 1
  BY <1>1, LinesAre, SplitIs DEF Eligible
<1> HIDE DEF shares, t
<1>4. \A l \in LineIdx : \/ shares[l] <= DraftLines[l]
                         \/ 2 * (shares[l] - DraftLines[l]) < N - 1
  BY <1>3, LinesAre
<1>5. ASSUME NEW l \in LineIdx
      PROVE  (IF shares[l] > DraftLines[l] THEN 0 ELSE DraftLines[l] - shares[l]) \in Nat
  BY <1>3, LinesAre
<1>6. t \in Totals
  BY <1>1, <1>2, <1>3, <1>5, LinesAre DEF Totals
<1>7. t.discountTotal - SumOf(t.lineDiscount) = 0
  BY <1>1, <1>2, <1>3
<1>8. Agree(t, loyalty)
  BY <1>2, <1>4, <1>7, LinesAre DEF Agree
<1> QED
  BY <1>6, <1>8 DEF t

IsList(items) == \E n \in Nat : DOMAIN items = 1..n /\ \A k \in 1..n : IsDiscount(items[k])

\* The totals of itemised discounts.
LEMMA ItemisedTotalsAre ==
  ASSUME NEW lineDiscounts, \A l \in LineIdx : IsList(lineDiscounts[l]),
         NEW invoiceDiscounts, IsList(invoiceDiscounts), NEW loyalty \in Nat
  PROVE  /\ ItemisedTotals(lineDiscounts, invoiceDiscounts, loyalty) \in Totals
         /\ Agree(ItemisedTotals(lineDiscounts, invoiceDiscounts, loyalty), loyalty)
<1> DEFINE net == [i \in LineIdx |-> AfterDiscounts(DraftLines[i], lineDiscounts[i])]
           pool == SumOf(net)
           left == AfterDiscounts(pool, invoiceDiscounts)
           shares == Split(net, pool - left)
           off == [i \in LineIdx |-> DraftLines[i] - net[i] + shares[i]]
           taken == LoyaltyTaken(left, loyalty)
           total == (Eligible - left) + taken
           t == ItemisedTotals(lineDiscounts, invoiceDiscounts, loyalty)
<1>1. t = [discountTotal |-> total, payable |-> Eligible - total, lineDiscount |-> off,
           linePayable |-> [i \in LineIdx |-> IF off[i] > DraftLines[i]
                                                THEN 0 ELSE DraftLines[i] - off[i]]]
  BY DEF ItemisedTotals
<1>2. ASSUME NEW l \in LineIdx PROVE net[l] \in 0..DraftLines[l]
  <2>1. DraftLines[l] \in Nat
    BY LinesAre
  <2>2. AfterDiscounts(DraftLines[l], lineDiscounts[l]) \in 0..DraftLines[l]
    BY <2>1, AfterDiscountsIs DEF IsList
  <2> QED
    BY <2>2
<1>3. net \in [1..N -> Nat]
  <2>1. \A l \in LineIdx : net[l] \in Nat
    BY <1>2
  <2> QED
    BY <2>1, LinesAre
<1> HIDE DEF net
<1>4. pool \in Nat
  BY <1>3, LinesAre, SumIsNat
<1>5. left \in 0..pool
  BY <1>4, AfterDiscountsIs DEF IsList
<1> HIDE DEF left
<1>6. /\ shares \in [1..N -> Nat] /\ SumOf(shares) = pool - left
      /\ \A k \in 1..(N - 1) : shares[k] <= net[k]
      /\ shares[N] <= net[N] \/ 2 * (shares[N] - net[N]) < N - 1
  <2>1. pool - left \in Nat /\ pool - left <= SumOf(net)
    BY <1>4, <1>5
  <2> QED
    BY <1>3, <2>1, LinesAre, SplitIs
<1> HIDE DEF shares
<1>7. ASSUME NEW l \in LineIdx
      PROVE  /\ off[l] = DraftLines[l] - net[l] + shares[l] /\ off[l] \in Nat
             /\ off[l] <= DraftLines[l] \/ 2 * (off[l] - DraftLines[l]) < N - 1
  <2>1. l \in 1..N /\ DraftLines[l] \in Nat /\ net[l] \in Nat /\ shares[l] \in Nat
        /\ net[l] <= DraftLines[l]
    BY <1>2, <1>3, <1>6, LinesAre
  <2>2. shares[l] <= net[l] \/ 2 * (shares[l] - net[l]) < N - 1
    BY <1>6, <2>1, LinesAre, SMTT(60)
  <2>3. off[l] = DraftLines[l] - net[l] + shares[l]
    OBVIOUS
  <2> HIDE DEF off
  <2> QED
    BY <2>1, <2>2, <2>3, LinesAre, SMTT(60)
<1>8. off \in [1..N -> Nat]
  BY <1>7, LinesAre
<1> HIDE DEF off
<1>9. SumOf(off) = Eligible - left
  <2>1. PICK rest : rest = [k \in 1..N |-> net[k] - shares[k]]
    OBVIOUS
  <2>2. rest \in [1..N -> Int] /\ net \in [1..N -> Int] /\ shares \in [1..N -> Int]
        /\ DraftLines \in [1..N -> Int] /\ off \in [1..N -> Int]
    BY <1>3, <1>6, <1>8, <2>1, LinesAre, SMTT(60)
  <2>3. SumOf(rest) = pool - SumOf(shares)
    <3>1. \A k \in 1..N : rest[k] = net[k] - shares[k]
      BY <2>1
    <3> QED
      BY <2>2, <3>1, LinesAre, SumMinus
  <2>4. \A k \in 1..N : off[k] = DraftLines[k] - rest[k]
    <3> SUFFICES ASSUME NEW k \in 1..N PROVE off[k] = DraftLines[k] - rest[k]
      OBVIOUS
    <3>1. k \in LineIdx /\ net[k] \in Nat /\ shares[k] \in Nat /\ DraftLines[k] \in Nat
      BY <1>3, <1>6, LinesAre
    <3>2. rest[k] = net[k] - shares[k]
      BY <2>1
    <3> QED
      BY <1>7, <3>1, <3>2
  <2>5. SumOf(off) = SumOf(DraftLines) - SumOf(rest)
    BY <2>2, <2>4, LinesAre, SumMinus, ZenonT(60)
  <2> QED
    BY <1>4, <1>5, <1>6, <2>3, <2>5, LinesAre DEF Eligible
<1>10. taken \in Nat /\ taken <= loyalty /\ taken <= left
  BY <1>4, <1>5 DEF LoyaltyTaken, Capped
<1> HIDE DEF taken
<1>11. left <= Eligible
  <2>1. SumOf(off) \in Nat
    BY <1>8, LinesAre, SumIsNat
  <2> QED
    BY <1>4, <1>5, <1>9, <2>1, LinesAre
<1> HIDE DEF pool
<1>12. total \in Nat /\ Eligible - total \in Nat /\ total - SumOf(off) = taken
  BY <1>4, <1>5, <1>9, <1>10, <1>11, LinesAre
<1> HIDE DEF total, t
<1>13. ASSUME NEW l \in LineIdx
       PROVE  (IF off[l] > DraftLines[l] THEN 0 ELSE DraftLines[l] - off[l]) \in Nat
  BY <1>8, LinesAre
<1>14. t \in Totals
  BY <1>1, <1>8, <1>12, <1>13, LinesAre DEF Totals
<1>15. t.discountTotal - SumOf(t.lineDiscount) \in 0..loyalty
  BY <1>1, <1>10, <1>12
<1>16. Agree(t, loyalty)
  BY <1>1, <1>7, <1>15 DEF Agree
<1> QED
  BY <1>14, <1>16 DEF t

\* Up to three lines, that is an exact reconciliation.
LEMMA AgreeIsExact ==
  ASSUME N <= 3, NEW t, t.discountTotal \in Nat, t.payable \in Nat,
         t.lineDiscount \in [LineIdx -> Nat], t.linePayable \in [LineIdx -> Nat],
         NEW loyalty \in Nat, Agree(t, loyalty)
  PROVE  /\ \A l \in LineIdx : t.lineDiscount[l] + t.linePayable[l] = DraftLines[l]
         /\ SumOf(t.linePayable) - t.payable \in 0..loyalty
<1>1. ASSUME NEW l \in LineIdx
      PROVE  /\ t.linePayable[l] = DraftLines[l] - t.lineDiscount[l]
             /\ t.lineDiscount[l] + t.linePayable[l] = DraftLines[l]
  <2>1. DraftLines[l] \in Nat /\ t.lineDiscount[l] \in Nat
    BY LinesAre
  <2>2. \/ t.lineDiscount[l] <= DraftLines[l]
        \/ 2 * (t.lineDiscount[l] - DraftLines[l]) < N - 1
    BY DEF Agree
  <2>3. t.lineDiscount[l] <= DraftLines[l]
    BY <2>1, <2>2, LinesAre, SMTT(40)
  <2> QED
    BY <2>1, <2>3 DEF Agree
<1>2. SumOf(t.linePayable) = SumOf(DraftLines) - SumOf(t.lineDiscount)
  <2>1. t.linePayable \in [1..N -> Int] /\ t.lineDiscount \in [1..N -> Int]
        /\ DraftLines \in [1..N -> Int]
    BY LinesAre
  <2>2. \A k \in 1..N : t.linePayable[k] = DraftLines[k] - t.lineDiscount[k]
    BY <1>1, LinesAre
  <2> QED
    BY <2>1, <2>2, LinesAre, SumMinus
<1>3. SumOf(t.lineDiscount) \in Nat
  BY LinesAre, SumIsNat
<1>4. t.payable = Eligible - t.discountTotal /\ t.discountTotal - SumOf(t.lineDiscount) \in 0..loyalty
  BY DEF Agree
<1>5. SumOf(t.linePayable) - t.payable = t.discountTotal - SumOf(t.lineDiscount)
  BY <1>2, <1>3, <1>4, LinesAre, SMTT(90) DEF Eligible
<1> QED
  BY <1>1, <1>4, <1>5

-----------------------------------------------------------------------------
(* Documents *)

Sheets ==
  [status : {"draft", "finalized"}, version : Nat, points : Nat, loyalty : Nat,
   lineItems : [LineIdx -> Seq(ItemType)], invoiceItems : Seq(ItemType),
   discountTotal : Nat, payable : Nat,
   lineDiscount : [LineIdx -> Nat], linePayable : [LineIdx -> Nat]]

\* A list of records, named after versions up to m, each of them once.
Lists(m) ==
  {q \in Seq(ItemType) :
     /\ \A i \in DOMAIN q : IsDiscount(q[i]) /\ q[i].id \in 1..m \cup {LegacyId}
     /\ \A i, j \in DOMAIN q : q[i].id = q[j].id => i = j}

Ids(q) == {q[i].id : i \in DOMAIN q}

\* The records of an invoice: none is both on a line and at the root.
Contents(onLines, atRoot, m) ==
  /\ onLines \in [LineIdx -> Lists(m)] /\ atRoot \in Lists(m)
  /\ \A l \in LineIdx : Ids(onLines[l]) \cap Ids(atRoot) = {}

\* The identities of the records, but for the legacy one.
Named(onLines, atRoot) == ((UNION {Ids(onLines[l]) : l \in LineIdx}) \cup Ids(atRoot)) \ {LegacyId}

Sound(s) ==
  /\ s \in Sheets /\ Contents(s.lineItems, s.invoiceItems, s.version)
  /\ Agree(s, s.loyalty)

\* What ItemIds says of an invoice, list by list.
LEMMA ItemIdsAre ==
  ASSUME NEW s
  PROVE  ItemIds(s) = (UNION {Ids(s.lineItems[l]) : l \in LineIdx}) \cup Ids(s.invoiceItems)
<1>1. ASSUME NEW q PROVE Ids(q) = {x.id : x \in Range(q)}
  BY DEF Ids, Range
<1> QED
  BY <1>1 DEF ItemIds, Records

\* A list is one that discounts can be taken from.
LEMMA ListIs ==
  ASSUME NEW m \in Nat, NEW q \in Lists(m)
  PROVE  IsList(q)
<1>1. Len(q) \in Nat /\ DOMAIN q = 1..Len(q)
  BY DEF Lists
<1> QED
  BY <1>1 DEF Lists, IsList

\* A later version allows more names.
LEMMA ListsGrow ==
  ASSUME NEW m \in Nat, NEW q \in Lists(m)
  PROVE  q \in Lists(m + 1)
<1>1. 1..m \subseteq 1..(m + 1)
  OBVIOUS
<1> QED
  BY <1>1 DEF Lists

\* Totals written into a copy.
LEMMA WithTotalsIs ==
  ASSUME NEW s \in Sheets, NEW t \in Totals, Agree(t, s.loyalty)
  PROVE  /\ WithTotals(s, t) \in Sheets /\ Agree(WithTotals(s, t), s.loyalty)
         /\ WithTotals(s, t).status = s.status /\ WithTotals(s, t).version = s.version
         /\ WithTotals(s, t).loyalty = s.loyalty
         /\ WithTotals(s, t).lineItems = s.lineItems
         /\ WithTotals(s, t).invoiceItems = s.invoiceItems
<1>1. PICK u : u = WithTotals(s, t)
  OBVIOUS
<1>2. u = [s EXCEPT !.discountTotal = t.discountTotal, !.payable = t.payable,
                    !.lineDiscount = t.lineDiscount, !.linePayable = t.linePayable]
  BY <1>1 DEF WithTotals
<1>3. /\ u \in Sheets /\ u.status = s.status /\ u.version = s.version /\ u.loyalty = s.loyalty
      /\ u.lineItems = s.lineItems /\ u.invoiceItems = s.invoiceItems
      /\ u.discountTotal = t.discountTotal /\ u.payable = t.payable
      /\ u.lineDiscount = t.lineDiscount /\ u.linePayable = t.linePayable
  BY <1>2 DEF Sheets, Totals
<1>4. Agree(u, s.loyalty)
  BY <1>3 DEF Agree
<1> QED
  BY <1>1, <1>3, <1>4

\* New records, and totals computed anew from them.
LEMMA ItemisedIs ==
  ASSUME NEW s, Sound(s), NEW m \in Nat, NEW onLines, NEW atRoot, Contents(onLines, atRoot, m)
  PROVE  /\ Itemised(s, onLines, atRoot) \in Sheets
         /\ Agree(Itemised(s, onLines, atRoot), s.loyalty)
         /\ Itemised(s, onLines, atRoot).status = s.status
         /\ Itemised(s, onLines, atRoot).version = s.version
         /\ Itemised(s, onLines, atRoot).loyalty = s.loyalty
         /\ Itemised(s, onLines, atRoot).lineItems = onLines
         /\ Itemised(s, onLines, atRoot).invoiceItems = atRoot
<1>1. PICK r : r = [s EXCEPT !.lineItems = onLines, !.invoiceItems = atRoot]
  OBVIOUS
<1>2. onLines \in [LineIdx -> Seq(ItemType)] /\ atRoot \in Seq(ItemType)
  BY DEF Contents, Lists
<1>3. /\ r \in Sheets /\ r.loyalty = s.loyalty /\ r.status = s.status /\ r.version = s.version
      /\ r.lineItems = onLines /\ r.invoiceItems = atRoot /\ s.loyalty \in Nat
  BY <1>1, <1>2 DEF Sound, Sheets
<1>4. PICK t : t = ItemisedTotals(onLines, atRoot, s.loyalty)
  OBVIOUS
<1>5. t \in Totals /\ Agree(t, s.loyalty)
  <2>1. \A l \in LineIdx : IsList(onLines[l])
    BY ListIs DEF Contents
  <2>2. IsList(atRoot)
    BY ListIs DEF Contents
  <2> QED
    BY <1>3, <1>4, <2>1, <2>2, ItemisedTotalsAre
<1>6. Itemised(s, onLines, atRoot) = WithTotals(r, t)
  BY <1>1, <1>4 DEF Itemised
<1> QED
  BY <1>3, <1>5, <1>6, WithTotalsIs

\* The legacy record stands for a scalar on an invoice that has no others.
LEMMA MaterializedIs ==
  ASSUME NEW s, Sound(s)
  PROVE  /\ Contents(s.lineItems, Materialized(s), s.version)
         /\ Ids(Materialized(s)) \ {LegacyId} = Ids(s.invoiceItems) \ {LegacyId}
         /\ Materialized(s) = s.invoiceItems \/ s.lineItems = NoItems
<1> DEFINE legacy == [id |-> LegacyId, level |-> "invoice", type |-> "fixed",
                      value |-> s.discountTotal]
<1>1. CASE Materialized(s) = s.invoiceItems
  BY <1>1 DEF Sound
<1>2. CASE Materialized(s) # s.invoiceItems
  <2>1. Materialized(s) = <<legacy>> /\ s.lineItems = NoItems /\ s.invoiceItems = <<>>
    BY <1>2 DEF Materialized
  <2>2. s.discountTotal \in Nat /\ s.version \in Nat
    BY DEF Sound, Sheets
  <2>3. legacy \in ItemType /\ IsDiscount(legacy) /\ legacy.id = LegacyId
    BY <2>2 DEF ItemType, IsDiscount, LegacyId
  <2> HIDE DEF legacy
  <2>4. <<legacy>> \in Seq(ItemType) /\ DOMAIN <<legacy>> = {1} /\ <<legacy>>[1] = legacy
    BY <2>3
  <2>5. <<legacy>> \in Lists(s.version)
    BY <2>3, <2>4 DEF Lists
  <2>6. Ids(<<legacy>>) = {LegacyId}
    BY <2>3, <2>4 DEF Ids
  <2>7. \A l \in LineIdx : Ids(NoItems[l]) = {}
    BY DEF NoItems, Ids
  <2>8. Ids(<<>>) = {}
    BY DEF Ids
  <2>9. s.lineItems \in [LineIdx -> Lists(s.version)]
    BY DEF Sound, Contents
  <2> QED
    BY <2>1, <2>5, <2>6, <2>7, <2>8, <2>9 DEF Contents
<1> QED
  BY <1>1, <1>2

-----------------------------------------------------------------------------
(* Changes *)

\* What a change leads to: a sound document under the next version, with these names.
Changed(s, u, names) ==
  /\ u \in Sheets /\ Agree(u, u.loyalty)
  /\ Contents(u.lineItems, u.invoiceItems, s.version + 1)
  /\ Named(u.lineItems, u.invoiceItems) = names

Names(s) == Named(s.lineItems, s.invoiceItems)

\* What a change of the records has to show.
LEMMA ItemisedChanges ==
  ASSUME NEW s, Sound(s), NEW onLines, NEW atRoot,
         Contents(onLines, atRoot, s.version + 1)
  PROVE  Changed(s, Itemised(s, onLines, atRoot), Named(onLines, atRoot))
<1>1. s.version + 1 \in Nat
  BY DEF Sound, Sheets
<1>2. PICK u : u = Itemised(s, onLines, atRoot)
  OBVIOUS
<1>3. u \in Sheets /\ Agree(u, s.loyalty) /\ u.loyalty = s.loyalty
      /\ u.lineItems = onLines /\ u.invoiceItems = atRoot
  BY <1>1, <1>2, ItemisedIs
<1> QED
  BY <1>2, <1>3 DEF Changed

\* The records of a copy under its next version.
LEMMA ContentsGrow ==
  ASSUME NEW onLines, NEW atRoot, NEW m \in Nat, Contents(onLines, atRoot, m)
  PROVE  Contents(onLines, atRoot, m + 1)
  BY ListsGrow DEF Contents

\* A list with a record of a new name.
LEMMA AppendedIs ==
  ASSUME NEW m \in Nat, NEW q \in Lists(m), NEW x \in ItemType, IsDiscount(x), x.id = m + 1
  PROVE  /\ Append(q, x) \in Lists(m + 1)
         /\ Ids(Append(q, x)) = Ids(q) \cup {m + 1}
         /\ m + 1 \notin Ids(q)
<1>1. PICK n : n = Len(q)
  OBVIOUS
<1>2. n \in Nat /\ DOMAIN q = 1..n /\ q \in Seq(ItemType)
  BY <1>1 DEF Lists
<1>3. PICK r : r = Append(q, x)
  OBVIOUS
<1>4. /\ r \in Seq(ItemType) /\ DOMAIN r = 1..(n + 1) /\ r[n + 1] = x
      /\ \A i \in 1..n : r[i] = q[i]
  BY <1>1, <1>2, <1>3
<1>5. \A i \in 1..n : IsDiscount(q[i]) /\ q[i].id \in 1..m \cup {LegacyId}
  BY <1>2 DEF Lists
<1>6. m + 1 \notin 1..m \cup {LegacyId} /\ 1..m \subseteq 1..(m + 1) /\ m + 1 \in 1..(m + 1)
  BY DEF LegacyId
<1>7. \A i \in 1..(n + 1) : i \in 1..n \/ i = n + 1
  BY <1>2
<1>8. \A i \in 1..(n + 1) : IsDiscount(r[i]) /\ r[i].id \in 1..(m + 1) \cup {LegacyId}
  BY <1>4, <1>5, <1>6, <1>7
<1>9. ASSUME NEW i \in 1..(n + 1), NEW j \in 1..(n + 1), r[i].id = r[j].id PROVE i = j
  <2>1. CASE i \in 1..n /\ j \in 1..n
    <3>1. q[i].id = q[j].id
      BY <1>4, <1>9, <2>1
    <3> QED
      BY <1>2, <2>1, <3>1 DEF Lists
  <2>2. CASE i \in 1..n /\ j = n + 1
    BY <1>4, <1>5, <1>6, <1>9, <2>2
  <2>3. CASE i = n + 1 /\ j \in 1..n
    BY <1>4, <1>5, <1>6, <1>9, <2>3
  <2> QED
    BY <1>7, <2>1, <2>2, <2>3
<1>10. r \in Lists(m + 1)
  BY <1>4, <1>8, <1>9 DEF Lists
<1>11. Ids(r) = Ids(q) \cup {m + 1}
  <2>1. \A i \in 1..n : r[i].id = q[i].id
    BY <1>4
  <2>2. r[n + 1].id = m + 1 /\ n + 1 \in 1..(n + 1) /\ 1..n \subseteq 1..(n + 1)
    BY <1>2, <1>4
  <2> QED
    BY <1>2, <1>4, <1>7, <2>1, <2>2 DEF Ids
<1>12. m + 1 \notin Ids(q)
  BY <1>2, <1>5, <1>6 DEF Ids
<1> QED
  BY <1>3, <1>10, <1>11, <1>12

\* No name of a copy is beyond its version.
LEMMA NamesWithin ==
  ASSUME NEW m \in Nat, NEW q \in Lists(m)
  PROVE  Ids(q) \subseteq 1..m \cup {LegacyId}
  BY DEF Lists, Ids

NewItem(x, s) == x \in ItemType /\ IsDiscount(x) /\ x.id = s.version + 1

\* A new record on some lines, the same or not on each of them.
LEMMA GrantedOnLines ==
  ASSUME NEW s, Sound(s), NEW chosen, chosen \subseteq LineIdx, chosen # {},
         NEW onLines, onLines = [l \in LineIdx |-> onLines[l]],
         \A l \in LineIdx \ chosen : onLines[l] = s.lineItems[l],
         \A l \in chosen : \E x : NewItem(x, s) /\ onLines[l] = Append(s.lineItems[l], x)
  PROVE  Changed(s, Itemised(s, onLines, Materialized(s)), Names(s) \cup {s.version + 1})
<1>1. PICK m : m = s.version
  OBVIOUS
<1>2. m \in Nat
  BY <1>1 DEF Sound, Sheets
<1>3. PICK root : root = Materialized(s)
  OBVIOUS
<1>4. /\ Contents(s.lineItems, root, m)
      /\ Ids(root) \ {LegacyId} = Ids(s.invoiceItems) \ {LegacyId}
  BY <1>1, <1>3, MaterializedIs
<1>5. ASSUME NEW l \in chosen
      PROVE  /\ onLines[l] \in Lists(m + 1)
             /\ Ids(onLines[l]) = Ids(s.lineItems[l]) \cup {m + 1}
  <2>1. s.lineItems[l] \in Lists(m)
    BY <1>4 DEF Contents
  <2>2. PICK x : NewItem(x, s) /\ onLines[l] = Append(s.lineItems[l], x)
    OBVIOUS
  <2> QED
    <3>1. x \in ItemType /\ IsDiscount(x) /\ x.id = m + 1
      BY <1>1, <2>2 DEF NewItem
    <3>2. PICK q : q = s.lineItems[l]
      OBVIOUS
    <3>3. Append(q, x) \in Lists(m + 1) /\ Ids(Append(q, x)) = Ids(q) \cup {m + 1}
      BY <1>2, <2>1, <3>1, <3>2, AppendedIs
    <3> QED
      BY <2>2, <3>2, <3>3
<1>6. ASSUME NEW l \in LineIdx, l \notin chosen
      PROVE  onLines[l] \in Lists(m + 1) /\ Ids(onLines[l]) = Ids(s.lineItems[l])
  <2>1. s.lineItems[l] \in Lists(m)
    BY <1>4 DEF Contents
  <2>2. onLines[l] = s.lineItems[l]
    BY <1>6
  <2> QED
    BY <1>2, <2>1, <2>2, ListsGrow
<1>7. onLines \in [LineIdx -> Lists(m + 1)]
  BY <1>5, <1>6
<1>8. root \in Lists(m) /\ root \in Lists(m + 1)
  BY <1>2, <1>4, ListsGrow DEF Contents
<1>9. m + 1 \notin Ids(root) /\ m + 1 # LegacyId
  <2>1. m + 1 \notin 1..m \cup {LegacyId} /\ m + 1 # LegacyId
    BY <1>2 DEF LegacyId
  <2> QED
    BY <1>2, <1>8, <2>1, NamesWithin
<1>10. \A l \in LineIdx : Ids(onLines[l]) \cap Ids(root) = {}
  <2>1. \A l \in LineIdx : Ids(s.lineItems[l]) \cap Ids(root) = {}
    BY <1>4 DEF Contents
  <2>2. \A l \in LineIdx : Ids(onLines[l]) \subseteq Ids(s.lineItems[l]) \cup {m + 1}
    BY <1>5, <1>6
  <2> QED
    BY <1>9, <2>1, <2>2
<1>11. Contents(onLines, root, m + 1)
  BY <1>7, <1>8, <1>10 DEF Contents
<1>12. Named(onLines, root) = Names(s) \cup {m + 1}
  <2>1. UNION {Ids(onLines[l]) : l \in LineIdx}
          = (UNION {Ids(s.lineItems[l]) : l \in LineIdx}) \cup {m + 1}
    <3>1. \A l \in LineIdx : Ids(onLines[l]) \subseteq Ids(s.lineItems[l]) \cup {m + 1}
      BY <1>5, <1>6
    <3>2. \A l \in LineIdx : Ids(s.lineItems[l]) \subseteq Ids(onLines[l])
      BY <1>5, <1>6
    <3>3. PICK l \in LineIdx : m + 1 \in Ids(onLines[l])
      BY <1>5
    <3> QED
      BY <3>1, <3>2, <3>3
  <2> QED
    BY <1>4, <1>9, <2>1 DEF Named, Names
<1> QED
  <2>1. m + 1 = s.version + 1
    BY <1>1
  <2>2. Changed(s, Itemised(s, onLines, root), Named(onLines, root))
    BY <1>11, <2>1, ItemisedChanges
  <2> QED
    BY <1>3, <1>12, <2>1, <2>2

\* The record a discount makes.
LEMMA ItemIs ==
  ASSUME NEW d \in Discounts, NEW s, Sound(s), NEW level \in {"line", "selected_lines", "invoice"},
         NEW value \in Nat, d.type = "percentage" => value = d.value
  PROVE  NewItem(Item(s.version + 1, level, d, value), s)
<1>1. IsDiscount(d)
  BY ConstantsOfDraft
<1>2. s.version + 1 \in Int
  BY DEF Sound, Sheets
<1>3. PICK x : x = Item(s.version + 1, level, d, value)
  OBVIOUS
<1>4. x = [id |-> s.version + 1, level |-> level, type |-> d.type, value |-> value]
  BY <1>3 DEF Item
<1>5. x \in ItemType
  BY <1>1, <1>2, <1>4 DEF IsDiscount, ItemType
<1>6. IsDiscount(x)
  BY <1>1, <1>4 DEF IsDiscount
<1> QED
  BY <1>3, <1>4, <1>5, <1>6 DEF NewItem

\* applyInvoiceDiscount on a line: the copy with one record more.
LEMMA ApplyToLineIs ==
  ASSUME NEW s, Sound(s), NEW l \in LineIdx, NEW d \in Discounts
  PROVE  Changed(s, ApplyToLine(s, l, d, s.version + 1), Names(s) \cup {s.version + 1})
<1>1. PICK x : x = Item(s.version + 1, "line", d, d.value)
  OBVIOUS
<1>2. NewItem(x, s)
  <2>1. d.value \in Nat
    BY ConstantsOfDraft DEF IsDiscount
  <2> QED
    BY <1>1, <2>1, ItemIs
<1>3. PICK onLines : onLines = WithItem(s, l, x)
  OBVIOUS
<1>4. DOMAIN s.lineItems = LineIdx
  BY DEF Sound, Contents
<1>5. /\ onLines = [k \in LineIdx |-> onLines[k]]
      /\ onLines[l] = Append(s.lineItems[l], x)
      /\ \A k \in LineIdx : k # l => onLines[k] = s.lineItems[k]
  BY <1>3, <1>4 DEF WithItem
<1>6. Changed(s, Itemised(s, onLines, Materialized(s)), Names(s) \cup {s.version + 1})
  <2> DEFINE chosen == {l}
  <2>1. chosen \subseteq LineIdx /\ chosen # {}
    OBVIOUS
  <2>2. \A k \in LineIdx \ chosen : onLines[k] = s.lineItems[k]
    BY <1>5
  <2>3. \A k \in chosen : \E y : NewItem(y, s) /\ onLines[k] = Append(s.lineItems[k], y)
    BY <1>2, <1>5
  <2> HIDE DEF chosen
  <2> QED
    BY <1>5, <2>1, <2>2, <2>3, GrantedOnLines
<1> QED
  BY <1>1, <1>3, <1>6 DEF ApplyToLine

\* applyInvoiceDiscount on the whole invoice: one record more at the root.
LEMMA ApplyToInvoiceIs ==
  ASSUME NEW s, Sound(s), NEW d \in Discounts
  PROVE  Changed(s, ApplyToInvoice(s, d, s.version + 1), Names(s) \cup {s.version + 1})
<1>1. PICK x : x = Item(s.version + 1, "invoice", d, d.value)
  OBVIOUS
<1>2. NewItem(x, s)
  <2>1. d.value \in Nat
    BY ConstantsOfDraft DEF IsDiscount
  <2> QED
    BY <1>1, <2>1, ItemIs
<1>3. PICK m, root : m = s.version /\ root = Materialized(s)
  OBVIOUS
<1>4. m \in Nat /\ m + 1 # LegacyId
  BY <1>3 DEF Sound, Sheets, LegacyId
<1>5. /\ Contents(s.lineItems, root, m)
      /\ Ids(root) \ {LegacyId} = Ids(s.invoiceItems) \ {LegacyId}
  BY <1>3, MaterializedIs
<1>6. Append(root, x) \in Lists(m + 1) /\ Ids(Append(root, x)) = Ids(root) \cup {m + 1}
  BY <1>2, <1>3, <1>4, <1>5, AppendedIs DEF NewItem, Contents
<1>7. Contents(s.lineItems, Append(root, x), m + 1)
  <2>1. s.lineItems \in [LineIdx -> Lists(m + 1)]
    BY <1>4, <1>5, ContentsGrow DEF Contents
  <2>2. ASSUME NEW l \in LineIdx PROVE Ids(s.lineItems[l]) \cap Ids(Append(root, x)) = {}
    <3>1. Ids(s.lineItems[l]) \cap Ids(root) = {} /\ s.lineItems[l] \in Lists(m)
      BY <1>5 DEF Contents
    <3>2. m + 1 \notin Ids(s.lineItems[l])
      <4>1. Ids(s.lineItems[l]) \subseteq 1..m \cup {LegacyId}
        BY <1>4, <3>1, NamesWithin
      <4> QED
        BY <1>4, <4>1
    <3> QED
      BY <1>6, <3>1, <3>2
  <2> QED
    BY <1>6, <2>1, <2>2 DEF Contents
<1>8. Named(s.lineItems, Append(root, x)) = Names(s) \cup {m + 1}
  BY <1>4, <1>5, <1>6 DEF Named, Names
<1>9. ApplyToInvoice(s, d, s.version + 1) = Itemised(s, s.lineItems, Append(root, x))
  BY <1>1, <1>3 DEF ApplyToInvoice
<1> QED
  BY <1>3, <1>7, <1>8, <1>9, ItemisedChanges

\* What the selected lines get of a fixed amount.
LEMMA SelectedSharesAre ==
  ASSUME NEW m \in Nat, m > 0, NEW order \in [1..m -> LineIdx], NEW cost \in [LineIdx -> Nat],
         NEW amount \in Nat, NEW l \in Range(order)
  PROVE  SelectedShares(order, cost, amount)[l] \in Nat
<1>1. PICK bases : bases = [k \in 1..m |-> cost[order[k]]]
  OBVIOUS
<1>2. bases \in [1..m -> Nat]
  BY <1>1
<1>3. PICK shares : shares = Split(bases, Capped(amount, SumOf(bases)))
  OBVIOUS
<1>4. shares \in [1..m -> Nat]
  <2>1. SumOf(bases) \in Nat
    BY <1>2, SumIsNat
  <2>2. Capped(amount, SumOf(bases)) \in Nat /\ Capped(amount, SumOf(bases)) <= SumOf(bases)
    BY <2>1 DEF Capped
  <2> QED
    BY <1>2, <1>3, <2>2, SplitIs
<1>5. SelectedShares(order, cost, amount) =
        [j \in Range(order) |-> LET k == CHOOSE k \in 1..m : order[k] = j
                                IN  Capped(shares[k], bases[k])]
  BY <1>1, <1>3 DEF SelectedShares
<1>6. PICK k : k = CHOOSE i \in 1..m : order[i] = l
  OBVIOUS
<1>7. k \in 1..m
  <2>1. \E i \in 1..m : order[i] = l
    BY DEF Range
  <2> QED
    BY <1>6, <2>1
<1>8. SelectedShares(order, cost, amount)[l] = Capped(shares[k], bases[k])
  BY <1>5, <1>6
<1> QED
  BY <1>2, <1>4, <1>7, <1>8 DEF Capped

\* What the lines still cost.
LEMMA CostIs ==
  ASSUME NEW s, Sound(s), NEW l \in LineIdx
  PROVE  AfterDiscounts(DraftLines[l], s.lineItems[l]) \in Nat
<1>1. s.lineItems[l] \in Lists(s.version) /\ s.version \in Nat
  BY DEF Sound, Contents, Sheets
<1>2. PICK n \in Nat : DOMAIN s.lineItems[l] = 1..n /\ \A k \in 1..n : IsDiscount(s.lineItems[l][k])
  BY <1>1, ListIs DEF IsList
<1>3. DraftLines[l] \in Nat
  BY LinesAre
<1>4. AfterDiscounts(DraftLines[l], s.lineItems[l]) \in 0..DraftLines[l]
  BY <1>2, <1>3, AfterDiscountsIs
<1> QED
  BY <1>3, <1>4

\* applyInvoiceDiscount on selected lines: one name more, on each of them.
LEMMA ApplyToSelectedLinesIs ==
  ASSUME NEW s, Sound(s), NEW order \in Selections, NEW d \in Discounts
  PROVE  Changed(s, ApplyToSelectedLines(s, order, d, s.version + 1),
                 Names(s) \cup {s.version + 1})
<1>1. PICK m \in 1..N : order \in [1..m -> LineIdx]
  BY LinesAre DEF Selections
<1>2. m \in Nat /\ m > 0
  BY <1>1, LinesAre
<1>3. PICK cost : cost = [l \in LineIdx |-> AfterDiscounts(DraftLines[l], s.lineItems[l])]
  OBVIOUS
<1>4. cost \in [LineIdx -> Nat]
  BY <1>3, CostIs
<1>5. PICK shares : shares = SelectedShares(order, cost, d.value)
  OBVIOUS
<1>6. d.value \in Nat
  BY ConstantsOfDraft DEF IsDiscount
<1>7. \A l \in Range(order) : shares[l] \in Nat
  BY <1>1, <1>2, <1>4, <1>5, <1>6, SelectedSharesAre
<1> DEFINE value(l) == IF d.type = "percentage" THEN d.value ELSE shares[l]
           x(l) == Item(s.version + 1, "selected_lines", d, value(l))
<1>8. PICK onLines : onLines = [l \in LineIdx |-> IF l \in Range(order)
                                                   THEN Append(s.lineItems[l], x(l))
                                                   ELSE s.lineItems[l]]
  OBVIOUS
<1>9. ASSUME NEW l \in Range(order) PROVE NewItem(x(l), s)
  <2>1. value(l) \in Nat /\ (d.type = "percentage" => value(l) = d.value)
    BY <1>6, <1>7
  <2> HIDE DEF value
  <2> QED
    BY <2>1, ItemIs
<1>10. ApplyToSelectedLines(s, order, d, s.version + 1) = Itemised(s, onLines, Materialized(s))
  BY <1>3, <1>5, <1>8 DEF ApplyToSelectedLines
<1> HIDE DEF x
<1>11. Range(order) \subseteq LineIdx /\ Range(order) # {}
  <2>1. 1 \in 1..m
    BY <1>2
  <2> QED
    BY <1>1, <2>1 DEF Range
<1>12. \A l \in Range(order) : \E y : NewItem(y, s) /\ onLines[l] = Append(s.lineItems[l], y)
  BY <1>8, <1>9, <1>11
<1>13. \A l \in LineIdx \ Range(order) : onLines[l] = s.lineItems[l]
  BY <1>8
<1>14. onLines = [l \in LineIdx |-> onLines[l]]
  BY <1>8
<1>15. Changed(s, Itemised(s, onLines, Materialized(s)), Names(s) \cup {s.version + 1})
  <2> DEFINE chosen == Range(order)
  <2>1. /\ chosen \subseteq LineIdx /\ chosen # {}
        /\ \A l \in LineIdx \ chosen : onLines[l] = s.lineItems[l]
        /\ \A l \in chosen : \E y : NewItem(y, s) /\ onLines[l] = Append(s.lineItems[l], y)
    BY <1>11, <1>12, <1>13
  <2> HIDE DEF chosen
  <2> QED
    BY <1>14, <2>1, GrantedOnLines
<1> QED
  BY <1>10, <1>15

\* The lines that carry a record are listed.
Finds == INSTANCE FoldSteps WITH Op <- Listed

\* The carriers found line by line are the lines that carry the record.
LEMMA CarriersAre ==
  ASSUME NEW s, NEW id
  PROVE  \E m \in Nat : /\ Carriers(s, id) \in [1..m -> LineIdx]
                        /\ Range(Carriers(s, id)) = {l \in LineIdx : Carries(s, l, id)}
<1> DEFINE entry(l) == [index |-> l, carries |-> Carries(s, l, id)]
           p == [l \in LineIdx |-> entry(l)]
<1>1. DOMAIN p = 1..N
  BY LinesAre
<1>2. ASSUME NEW l \in 1..N, NEW lines
      PROVE  /\ Carries(s, l, id) => Listed(lines, p[l]) = Append(lines, l)
             /\ ~Carries(s, l, id) => Listed(lines, p[l]) = lines
  <2>1. p[l] = [index |-> l, carries |-> Carries(s, l, id)]
    BY LinesAre
  <2>2. p[l].index = l /\ (p[l].carries <=> Carries(s, l, id))
    BY <2>1
  <2> HIDE DEF p
  <2> QED
    BY <2>2 DEF Listed
<1>3. Carriers(s, id) = FoldLeft(Listed, <<>>, p)
  BY DEF Carriers
<1> HIDE DEF p
<1>4. FoldLeft(Listed, <<>>, p) = Finds!Folded(<<>>, p, 1..N)
  <2>1. FoldLeft(Listed, <<>>, p) = (CHOOSE g : g = [T \in SUBSET (DOMAIN p) |->
          IF T = {} THEN <<>> ELSE Listed(g[T \ {Max(T)}], p[Max(T)])])[DOMAIN p]
    BY DEF FoldLeft, MapThenFoldSet
  <2> QED
    BY <1>1, <2>1, Zenon DEF Finds!Folded, Finds!IsFoldOn, Finds!FoldStep, Finds!Greatest, Max
<1>5. PICK v : /\ v[0] = <<>>
               /\ \A k \in 1..N : v[k] = Listed(v[k - 1], p[k])
               /\ Finds!Folded(<<>>, p, 1..N) = v[N]
  BY LinesAre, Finds!FoldIsRun DEF Finds!IsRun
<1> DEFINE found(k) == {l \in 1..k : Carries(s, l, id)}
           T == {k \in Nat : k <= N => v[k] \in Seq(LineIdx) /\ Range(v[k]) = found(k)}
<1>6. 0 \in T
  <2>1. <<>> \in Seq(LineIdx) /\ Range(<<>>) = {} /\ found(0) = {}
    BY DEF Range
  <2> QED
    BY <1>5, <2>1
<1>7. ASSUME NEW k \in Nat, k \in T PROVE k + 1 \in T
  <2> SUFFICES ASSUME k + 1 <= N
               PROVE  v[k + 1] \in Seq(LineIdx) /\ Range(v[k + 1]) = found(k + 1)
    OBVIOUS
  <2>1. k + 1 \in 1..N /\ (k + 1) - 1 = k /\ k <= N /\ k + 1 \in LineIdx
    BY LinesAre
  <2>2. PICK w : w = v[k]
    OBVIOUS
  <2>3. w \in Seq(LineIdx) /\ Range(w) = found(k)
    BY <1>7, <2>1, <2>2
  <2>4. v[k + 1] = Listed(w, p[k + 1])
    BY <1>5, <2>1, <2>2
  <2>5. CASE Carries(s, k + 1, id)
    <3>1. v[k + 1] = Append(w, k + 1)
      BY <1>2, <2>1, <2>4, <2>5
    <3>2. Append(w, k + 1) \in Seq(LineIdx) /\ Range(Append(w, k + 1)) = Range(w) \cup {k + 1}
      <4>1. PICK n : n = Len(w)
        OBVIOUS
      <4>2. n \in Nat /\ DOMAIN w = 1..n /\ DOMAIN Append(w, k + 1) = 1..(n + 1)
            /\ Append(w, k + 1)[n + 1] = k + 1
            /\ \A i \in 1..n : Append(w, k + 1)[i] = w[i]
        BY <2>1, <2>3, <4>1
      <4>3. \A i \in 1..(n + 1) : i \in 1..n \/ i = n + 1
        BY <4>2
      <4>4. n + 1 \in 1..(n + 1) /\ 1..n \subseteq 1..(n + 1)
        BY <4>2
      <4>5. Append(w, k + 1) \in Seq(LineIdx)
        BY <2>1, <2>3
      <4> QED
        BY <4>2, <4>3, <4>4, <4>5 DEF Range
    <3>3. found(k + 1) = found(k) \cup {k + 1}
      BY <2>5
    <3> QED
      BY <2>3, <3>1, <3>2, <3>3
  <2>6. CASE ~Carries(s, k + 1, id)
    <3>1. v[k + 1] = w
      BY <1>2, <2>1, <2>4, <2>6
    <3>2. found(k + 1) = found(k)
      BY <2>6
    <3> QED
      BY <2>3, <3>1, <3>2
  <2> QED
    BY <2>5, <2>6
<1>8. N \in T
  <2> HIDE DEF T
  <2> QED
    BY <1>6, <1>7, LinesAre, Induction
<1>9. v[N] \in Seq(LineIdx) /\ Range(v[N]) = {l \in LineIdx : Carries(s, l, id)}
  BY <1>8, LinesAre
<1>10. v[N] \in [1..Len(v[N]) -> LineIdx] /\ Len(v[N]) \in Nat
  BY <1>9
<1> QED
  BY <1>3, <1>4, <1>5, <1>9, <1>10

\* A line carries a record when it is among its identities.
LEMMA CarriesIs ==
  ASSUME NEW s, NEW l, NEW id
  PROVE  Carries(s, l, id) <=> id \in Ids(s.lineItems[l])
  BY DEF Carries, Ids, Range

\* None does when the list is empty.
LEMMA NoCarriers ==
  ASSUME NEW s, NEW id
  PROVE  Carriers(s, id) = <<>> <=> \A l \in LineIdx : id \notin Ids(s.lineItems[l])
<1>1. PICK m \in Nat : /\ Carriers(s, id) \in [1..m -> LineIdx]
                       /\ Range(Carriers(s, id)) = {l \in LineIdx : Carries(s, l, id)}
  BY CarriersAre
<1>2. Carriers(s, id) = <<>> <=> Range(Carriers(s, id)) = {}
  <2>1. CASE m = 0
    <3>1. 1..0 = {}
      OBVIOUS
    <3>2. Carriers(s, id) = <<>>
      BY <1>1, <2>1, <3>1
    <3>3. Range(<<>>) = {}
      BY DEF Range
    <3> QED
      BY <3>2, <3>3
  <2>2. CASE m > 0
    <3>1. 1 \in 1..m
      BY <2>2
    <3>2. Carriers(s, id)[1] \in Range(Carriers(s, id))
      BY <1>1, <3>1 DEF Range
    <3>3. DOMAIN <<>> = {}
      OBVIOUS
    <3>4. Carriers(s, id) # <<>>
      BY <1>1, <3>1, <3>3
    <3> QED
      BY <3>2, <3>4
  <2> QED
    BY <1>1, <2>1, <2>2
<1> QED
  BY <1>1, <1>2, CarriesIs

\* A list whose records have new values.
LEMMA RevaluedIs ==
  ASSUME NEW m \in Nat, NEW q \in Lists(m), NEW r, NEW n \in Nat, DOMAIN q = 1..n,
         r = [i \in 1..n |-> r[i]],
         \A i \in 1..n : r[i] \in ItemType /\ IsDiscount(r[i]) /\ r[i].id = q[i].id
  PROVE  r \in Lists(m) /\ Ids(r) = Ids(q)
<1>1. r \in Seq(ItemType) /\ DOMAIN r = 1..n
  BY SMT
<1>2. \A i \in 1..n : q[i].id \in 1..m \cup {LegacyId}
  BY DEF Lists
<1>3. \A i, j \in 1..n : q[i].id = q[j].id => i = j
  BY DEF Lists
<1>4. \A i \in 1..n : r[i].id \in 1..m \cup {LegacyId}
  BY <1>2
<1>5. \A i, j \in 1..n : r[i].id = r[j].id => i = j
  BY <1>3
<1>6. r \in Lists(m)
  BY <1>1, <1>4, <1>5 DEF Lists
<1>7. Ids(r) = Ids(q)
  BY <1>1 DEF Ids
<1> QED
  BY <1>6, <1>7

\* What a line costs but for one discount.
LEMMA OthersCostIs ==
  ASSUME NEW s, Sound(s), NEW l \in LineIdx, NEW id
  PROVE  AfterDiscounts(DraftLines[l], Others(s.lineItems[l], id)) \in Nat
<1>1. s.lineItems[l] \in Lists(s.version) /\ s.version \in Nat
  BY DEF Sound, Contents, Sheets
<1>2. PICK n \in Nat : DOMAIN s.lineItems[l] = 1..n /\ \A k \in 1..n : IsDiscount(s.lineItems[l][k])
  BY <1>1, ListIs DEF IsList
<1>3. PICK rest : rest = Others(s.lineItems[l], id)
  OBVIOUS
<1>4. DOMAIN rest = 1..n
      /\ \A k \in 1..n : rest[k] = IF s.lineItems[l][k].id = id
                                     THEN [type |-> "fixed", value |-> 0] ELSE s.lineItems[l][k]
  BY <1>2, <1>3 DEF Others
<1>5. IsDiscount([type |-> "fixed", value |-> 0])
  BY DEF IsDiscount
<1>6. \A k \in 1..n : IsDiscount(rest[k])
  BY <1>2, <1>4, <1>5
<1>7. DraftLines[l] \in Nat
  BY LinesAre
<1>8. AfterDiscounts(DraftLines[l], rest) \in 0..DraftLines[l]
  BY <1>4, <1>6, <1>7, AfterDiscountsIs
<1> QED
  BY <1>3, <1>7, <1>8

\* A percentage at the root is one of the records stored.
LEMMA RootPercentage ==
  ASSUME NEW s, NEW i \in DOMAIN Materialized(s), Materialized(s)[i].type = "percentage"
  PROVE  Materialized(s)[i] \in Records(s)
<1>1. Materialized(s) = s.invoiceItems
  <2> DEFINE legacy == [id |-> LegacyId, level |-> "invoice", type |-> "fixed",
                        value |-> s.discountTotal]
  <2>1. CASE Materialized(s) = <<legacy>>
    <3>1. legacy.type = "fixed"
      OBVIOUS
    <3> HIDE DEF legacy
    <3>2. DOMAIN <<legacy>> = {1} /\ <<legacy>>[1] = legacy
      OBVIOUS
    <3>3. i = 1
      BY <2>1, <3>2
    <3>4. Materialized(s)[i] = legacy
      BY <2>1, <3>2, <3>3
    <3> QED
      BY <3>1, <3>4
  <2>2. Materialized(s) = <<legacy>> \/ Materialized(s) = s.invoiceItems
    BY DEF Materialized
  <2> HIDE DEF legacy
  <2> QED
    BY <2>1, <2>2
<1>2. i \in DOMAIN s.invoiceItems /\ Materialized(s)[i] = s.invoiceItems[i]
  BY <1>1
<1>3. s.invoiceItems[i] \in Range(s.invoiceItems)
  BY <1>2 DEF Range
<1> QED
  BY <1>2, <1>3 DEF Records

\* modifyInvoiceDiscount: the same records, one of them with another value.
LEMMA ModifyItemIs ==
  ASSUME NEW s, Sound(s), NEW id, NEW value \in Nat,
         \A x \in Records(s) : x.id = id /\ x.type = "percentage" => value <= 100
  PROVE  Changed(s, ModifyItem(s, id, value), Names(s))
<1>1. PICK lines : lines = Carriers(s, id)
  OBVIOUS
<1>2. PICK m \in Nat : lines \in [1..m -> LineIdx]
                       /\ Range(lines) = {l \in LineIdx : Carries(s, l, id)}
  BY <1>1, CarriersAre
<1>3. PICK cost : cost = [l \in LineIdx |-> AfterDiscounts(DraftLines[l], Others(s.lineItems[l], id))]
  OBVIOUS
<1>4. cost \in [LineIdx -> Nat]
  BY <1>3, OthersCostIs
<1>5. PICK shares : shares = SelectedShares(lines, cost, value)
  OBVIOUS
<1>6. ASSUME NEW l \in Range(lines) PROVE shares[l] \in Nat
  <2>1. m > 0
    BY <1>2 DEF Range
  <2> QED
    BY <1>2, <1>4, <1>5, <2>1, SelectedSharesAre
<1> DEFINE new(x, l) == [x EXCEPT !.value = IF x.level = "selected_lines" /\ x.type = "fixed"
                                              THEN shares[l] ELSE value]
           changed(l) == [i \in DOMAIN s.lineItems[l] |->
                            IF s.lineItems[l][i].id = id THEN new(s.lineItems[l][i], l)
                                                         ELSE s.lineItems[l][i]]
<1>7. PICK v, root : v = s.version /\ root = Materialized(s)
  OBVIOUS
<1>8. PICK onLines, atRoot :
        /\ onLines = [l \in LineIdx |-> changed(l)]
        /\ atRoot = [i \in DOMAIN root |-> IF root[i].id = id THEN [root[i] EXCEPT !.value = value]
                                                              ELSE root[i]]
  OBVIOUS
<1>9. ModifyItem(s, id, value) = Itemised(s, onLines, IF lines = <<>> THEN atRoot ELSE root)
  BY <1>1, <1>3, <1>5, <1>7, <1>8 DEF ModifyItem
<1> HIDE DEF changed
<1>10. v \in Nat /\ Contents(s.lineItems, root, v)
       /\ Ids(root) \ {LegacyId} = Ids(s.invoiceItems) \ {LegacyId}
  <2>1. v \in Nat
    BY <1>7 DEF Sound, Sheets
  <2> QED
    BY <1>7, <2>1, MaterializedIs
<1>11. ASSUME NEW l \in LineIdx
       PROVE  onLines[l] \in Lists(v) /\ Ids(onLines[l]) = Ids(s.lineItems[l])
  <2>1. PICK q, r : q = s.lineItems[l] /\ r = onLines[l]
    OBVIOUS
  <2>2. q \in Lists(v)
    BY <1>10, <2>1 DEF Contents
  <2>3. PICK n : n = Len(q)
    OBVIOUS
  <2>4. n \in Nat /\ DOMAIN q = 1..n /\ q \in Seq(ItemType)
    BY <2>2, <2>3 DEF Lists
  <2>5. r = [i \in 1..n |-> IF q[i].id = id THEN new(q[i], l) ELSE q[i]]
    BY <1>8, <2>1, <2>4 DEF changed
  <2>6. ASSUME NEW i \in 1..n
        PROVE  r[i] \in ItemType /\ IsDiscount(r[i]) /\ r[i].id = q[i].id
    <3>1. q[i] \in ItemType /\ IsDiscount(q[i])
      BY <2>2, <2>4 DEF Lists
    <3>2. CASE q[i].id # id
      BY <2>5, <3>1, <3>2
    <3>3. CASE q[i].id = id
      <4>1. l \in Range(lines)
        <5>1. Carries(s, l, id)
          BY <2>1, <2>4, <3>3 DEF Carries, Range
        <5> QED
          BY <1>2, <5>1
      <4>2. q[i] \in Records(s)
        <5>1. q[i] \in Range(s.lineItems[l])
          BY <2>1, <2>4 DEF Range
        <5> QED
          BY <5>1 DEF Records
      <4>3. shares[l] \in Nat /\ (q[i].type = "percentage" => value <= 100)
        BY <1>6, <3>3, <4>1, <4>2
      <4>4. r[i] = [q[i] EXCEPT !.value = IF q[i].level = "selected_lines" /\ q[i].type = "fixed"
                                            THEN shares[l] ELSE value]
        BY <2>5, <3>3
      <4>5. PICK y : y = IF q[i].level = "selected_lines" /\ q[i].type = "fixed"
                           THEN shares[l] ELSE value
        OBVIOUS
      <4>6. y \in Nat /\ (q[i].type = "percentage" => y <= 100)
        BY <4>3, <4>5
      <4>7. r[i] = [q[i] EXCEPT !.value = y]
        BY <4>4, <4>5
      <4>8. r[i] \in ItemType /\ r[i].id = q[i].id /\ r[i].type = q[i].type /\ r[i].value = y
        BY <3>1, <4>6, <4>7 DEF ItemType
      <4> QED
        BY <3>1, <4>6, <4>8 DEF IsDiscount
    <3> QED
      BY <3>2, <3>3
  <2>7. r = [i \in 1..n |-> r[i]]
    BY <2>5
  <2>8. r \in Lists(v) /\ Ids(r) = Ids(q)
    BY <1>10, <2>2, <2>4, <2>6, <2>7, RevaluedIs
  <2> QED
    BY <2>1, <2>8
<1>12. atRoot \in Lists(v) /\ Ids(atRoot) = Ids(root)
  <2>1. root \in Lists(v)
    BY <1>10 DEF Contents
  <2>2. PICK n : n = Len(root)
    OBVIOUS
  <2>3. n \in Nat /\ DOMAIN root = 1..n /\ root \in Seq(ItemType)
    BY <2>1, <2>2 DEF Lists
  <2>4. atRoot = [i \in 1..n |-> IF root[i].id = id THEN [root[i] EXCEPT !.value = value] ELSE root[i]]
    BY <1>8, <2>3
  <2>5. ASSUME NEW i \in 1..n
        PROVE  atRoot[i] \in ItemType /\ IsDiscount(atRoot[i]) /\ atRoot[i].id = root[i].id
    <3>1. root[i] \in ItemType /\ IsDiscount(root[i])
      BY <2>1, <2>3 DEF Lists
    <3>2. CASE root[i].id # id
      BY <2>4, <3>1, <3>2
    <3>3. CASE root[i].id = id
      <4>1. root[i].type = "percentage" => value <= 100
        BY <1>7, <2>3, <3>3, RootPercentage
      <4>2. atRoot[i] = [root[i] EXCEPT !.value = value]
        BY <2>4, <3>3
      <4>3. atRoot[i] \in ItemType /\ atRoot[i].id = root[i].id /\ atRoot[i].type = root[i].type
            /\ atRoot[i].value = value
        BY <3>1, <4>2 DEF ItemType
      <4> QED
        BY <3>1, <4>1, <4>3 DEF IsDiscount
    <3> QED
      BY <3>2, <3>3
  <2>6. atRoot = [i \in 1..n |-> atRoot[i]]
    BY <2>4
  <2> QED
    BY <1>10, <2>1, <2>3, <2>5, <2>6, RevaluedIs
<1>13. PICK rest : rest = IF lines = <<>> THEN atRoot ELSE root
  OBVIOUS
<1>14. rest \in Lists(v) /\ Ids(rest) = Ids(root)
  BY <1>10, <1>12, <1>13 DEF Contents
<1>15. onLines \in [LineIdx -> Lists(v)]
  BY <1>8, <1>11
<1>16. Contents(onLines, rest, v)
  BY <1>10, <1>11, <1>14, <1>15 DEF Contents
<1>17. Named(onLines, rest) = Names(s)
  <2>1. (UNION {Ids(onLines[l]) : l \in LineIdx}) = UNION {Ids(s.lineItems[l]) : l \in LineIdx}
    BY <1>11
  <2> QED
    BY <1>10, <1>14, <2>1 DEF Named, Names
<1>18. Contents(onLines, rest, s.version + 1)
  BY <1>7, <1>10, <1>16, ContentsGrow
<1> QED
  BY <1>9, <1>13, <1>17, <1>18, ItemisedChanges

\* A list without one of its records.
LEMMA WithoutIs ==
  ASSUME NEW m \in Nat, NEW q \in Lists(m), NEW id
  PROVE  /\ Without(q, id) \in Lists(m)
         /\ Ids(Without(q, id)) = Ids(q) \ {id}
         /\ id \notin Ids(q) => Without(q, id) = q
<1>1. PICK n : n = Len(q)
  OBVIOUS
<1>2. n \in Nat /\ DOMAIN q = 1..n /\ q \in Seq(ItemType)
  BY <1>1 DEF Lists
<1>3. (\E x \in Range(q) : x.id = id) <=> id \in Ids(q)
  BY DEF Ids, Range
<1>4. CASE id \notin Ids(q)
  BY <1>3, <1>4 DEF Without
<1>5. CASE id \in Ids(q)
  <2>1. PICK k \in 1..n : q[k].id = id
    BY <1>2, <1>5 DEF Ids
  <2>2. \A i, j \in 1..n : q[i].id = q[j].id => i = j
    BY <1>2 DEF Lists
  <2>3. \A j \in 1..(k - 1) : q[j].id # id
    <3> SUFFICES ASSUME NEW j \in 1..(k - 1), q[j].id = id PROVE FALSE
      OBVIOUS
    <3>1. j \in 1..n /\ j # k
      BY <1>2
    <3> QED
      BY <2>1, <2>2, <3>1
  <2>4. PICK i : i = FirstOf(q, id)
    OBVIOUS
  <2>5. i \in 1..n /\ q[i].id = id
    <3>1. \E j \in DOMAIN q : q[j].id = id /\ \A h \in 1..(j - 1) : q[h].id # id
      BY <1>2, <2>1, <2>3
    <3> QED
      BY <1>2, <2>4, <3>1 DEF FirstOf
  <2>6. PICK r : r = RemoveAt(q, i)
    OBVIOUS
  <2>7. Without(q, id) = r
    BY <1>3, <1>5, <2>4, <2>6 DEF Without
  <2>8. /\ r \in Seq(ItemType) /\ Len(r) = n - 1
        /\ \A j \in 1..(n - 1) : r[j] = IF j < i THEN q[j] ELSE q[j + 1]
    BY <1>1, <1>2, <2>5, <2>6, RemovedAt
  <2> DEFINE At(j) == IF j < i THEN j ELSE j + 1
  <2>9. /\ DOMAIN r = 1..(n - 1)
        /\ \A j \in 1..(n - 1) : At(j) \in 1..n /\ At(j) # i /\ r[j] = q[At(j)]
    BY <1>2, <2>5, <2>8
  <2>10. \A j, h \in 1..(n - 1) : At(j) = At(h) => j = h
    BY <1>2, <2>5
  <2>11. ASSUME NEW h \in 1..n, h # i PROVE \E j \in 1..(n - 1) : At(j) = h
    <3>1. CASE h < i
      <4>1. h \in 1..(n - 1) /\ At(h) = h
        BY <1>2, <2>5, <3>1
      <4> QED
        BY <4>1
    <3>2. CASE h > i
      <4>1. h - 1 \in 1..(n - 1) /\ At(h - 1) = h
        BY <1>2, <2>5, <3>2
      <4> QED
        BY <4>1
    <3> QED
      BY <1>2, <2>5, <2>11, <3>1, <3>2
  <2> HIDE DEF At
  <2>12. \A j \in 1..(n - 1) : IsDiscount(r[j]) /\ r[j].id \in 1..m \cup {LegacyId}
    BY <1>2, <2>9 DEF Lists
  <2>13. \A j, h \in 1..(n - 1) : r[j].id = r[h].id => j = h
    BY <2>2, <2>9, <2>10
  <2>14. r \in Lists(m)
    BY <2>8, <2>9, <2>12, <2>13 DEF Lists
  <2>15. Ids(r) \subseteq Ids(q) \ {id}
    <3> SUFFICES ASSUME NEW j \in 1..(n - 1) PROVE r[j].id \in Ids(q) \ {id}
      BY <2>9 DEF Ids
    <3>1. r[j] = q[At(j)] /\ At(j) \in 1..n /\ At(j) # i
      BY <2>9
    <3>2. q[At(j)].id # id
      BY <2>2, <2>5, <3>1
    <3> QED
      BY <1>2, <3>1, <3>2 DEF Ids
  <2>16. Ids(q) \ {id} \subseteq Ids(r)
    <3> SUFFICES ASSUME NEW h \in 1..n, q[h].id # id PROVE q[h].id \in Ids(r)
      BY <1>2 DEF Ids
    <3>1. PICK j \in 1..(n - 1) : At(j) = h
      BY <2>5, <2>11
    <3> QED
      BY <2>9, <3>1 DEF Ids
  <2> QED
    BY <1>5, <2>7, <2>14, <2>15, <2>16
<1> QED
  BY <1>4, <1>5

\* removeInvoiceDiscount: the copy without one name.
LEMMA RemoveItemIs ==
  ASSUME NEW s, Sound(s), NEW id
  PROVE  Changed(s, RemoveItem(s, id), Names(s) \ {id})
<1>1. PICK v, root : v = s.version /\ root = Materialized(s)
  OBVIOUS
<1>2. /\ v \in Nat /\ Contents(s.lineItems, root, v)
      /\ Ids(root) \ {LegacyId} = Ids(s.invoiceItems) \ {LegacyId}
  <2>1. v \in Nat
    BY <1>1 DEF Sound, Sheets
  <2> QED
    BY <1>1, <2>1, MaterializedIs
<1>3. /\ s.lineItems \in [LineIdx -> Lists(v)] /\ root \in Lists(v)
      /\ \A l \in LineIdx : Ids(s.lineItems[l]) \cap Ids(root) = {}
  BY <1>2 DEF Contents
<1>4. PICK onLines : onLines = [l \in LineIdx |-> Without(s.lineItems[l], id)]
  OBVIOUS
<1>5. ASSUME NEW l \in LineIdx
      PROVE  onLines[l] \in Lists(v) /\ Ids(onLines[l]) = Ids(s.lineItems[l]) \ {id}
  BY <1>2, <1>3, <1>4, WithoutIs
<1>6. PICK rest : rest = IF Carriers(s, id) = <<>> THEN Without(root, id) ELSE root
  OBVIOUS
<1>7. rest \in Lists(v) /\ Ids(rest) = Ids(root) \ {id}
  <2>1. CASE Carriers(s, id) = <<>>
    BY <1>2, <1>3, <1>6, <2>1, WithoutIs
  <2>2. CASE Carriers(s, id) # <<>>
    <3>1. PICK l \in LineIdx : id \in Ids(s.lineItems[l])
      BY <2>2, NoCarriers
    <3>2. id \notin Ids(root)
      BY <1>3, <3>1
    <3> QED
      BY <1>3, <1>6, <2>2, <3>2
  <2> QED
    BY <2>1, <2>2
<1>8. RemoveItem(s, id) = Itemised(s, onLines, rest)
  BY <1>1, <1>4, <1>6 DEF RemoveItem
<1>9. Contents(onLines, rest, v)
  <2>1. onLines \in [LineIdx -> Lists(v)]
    BY <1>4, <1>5
  <2>2. \A l \in LineIdx : Ids(onLines[l]) \cap Ids(rest) = {}
    BY <1>3, <1>5, <1>7
  <2> QED
    BY <1>7, <2>1, <2>2 DEF Contents
<1>10. Named(onLines, rest) = Names(s) \ {id}
  <2>1. (UNION {Ids(onLines[l]) : l \in LineIdx}) = (UNION {Ids(s.lineItems[l]) : l \in LineIdx}) \ {id}
    BY <1>5
  <2> QED
    BY <1>2, <1>7, <2>1 DEF Named, Names
<1>11. Contents(onLines, rest, s.version + 1)
  BY <1>1, <1>2, <1>9, ContentsGrow
<1> QED
  BY <1>8, <1>10, <1>11, ItemisedChanges

\* Points redeemed, if any.
LEMMA RedeemedIs ==
  ASSUME NEW standard, NEW points \in Nat
  PROVE  Redeemed(standard, points) \in Nat /\ Redeemed(standard, points) * PointValue \in Nat
<1>1. Redeemed(standard, points) \in Nat
  BY DEF Redeemed, PointsApplied
<1> QED
  BY <1>1, ConstantsOfDraft

\* updateDraftInvoice: other totals, the same records.
LEMMA UpdateScalarIs ==
  ASSUME NEW s, Sound(s), NEW standard \in Nat, NEW points \in Nat
  PROVE  Changed(s, UpdateScalar(s, standard, points), Names(s))
<1>1. PICK redeemed, loyalty : redeemed = Redeemed(standard, points) /\ loyalty = redeemed * PointValue
  OBVIOUS
<1>2. redeemed \in Nat /\ loyalty \in Nat
  BY <1>1, RedeemedIs
<1>3. PICK r, t : r = [s EXCEPT !.points = redeemed, !.loyalty = loyalty]
                  /\ t = ScalarTotals(standard + loyalty)
  OBVIOUS
<1>4. /\ r \in Sheets /\ r.loyalty = loyalty /\ r.version = s.version
      /\ r.lineItems = s.lineItems /\ r.invoiceItems = s.invoiceItems
  BY <1>2, <1>3 DEF Sound, Sheets
<1>5. t \in Totals /\ Agree(t, loyalty)
  <2>1. standard + loyalty \in Nat
    BY <1>2
  <2> QED
    BY <1>2, <1>3, <2>1, ScalarTotalsAre
<1>6. UpdateScalar(s, standard, points) = WithTotals(r, t)
  BY <1>1, <1>3 DEF UpdateScalar
<1>7. PICK u : u = WithTotals(r, t)
  OBVIOUS
<1>8. u \in Sheets /\ Agree(u, loyalty) /\ u.loyalty = loyalty
      /\ u.lineItems = s.lineItems /\ u.invoiceItems = s.invoiceItems
  BY <1>4, <1>5, <1>7, WithTotalsIs
<1>9. Contents(s.lineItems, s.invoiceItems, s.version + 1)
  BY ContentsGrow DEF Sound, Sheets
<1> QED
  BY <1>6, <1>7, <1>8, <1>9 DEF Changed, Names

\* finalizeInvoice changes the status alone.
LEMMA FinalizedIs ==
  ASSUME NEW s, Sound(s)
  PROVE  Changed(s, [s EXCEPT !.status = "finalized"], Names(s))
<1>1. PICK u : u = [s EXCEPT !.status = "finalized"]
  OBVIOUS
<1>2. /\ u \in Sheets /\ u.loyalty = s.loyalty /\ u.lineItems = s.lineItems
      /\ u.invoiceItems = s.invoiceItems /\ u.payable = s.payable
      /\ u.discountTotal = s.discountTotal /\ u.lineDiscount = s.lineDiscount
      /\ u.linePayable = s.linePayable
  BY <1>1 DEF Sound, Sheets
<1>3. Agree(u, u.loyalty)
  BY <1>2 DEF Sound, Agree
<1>4. Contents(s.lineItems, s.invoiceItems, s.version + 1)
  BY ContentsGrow DEF Sound, Sheets
<1> QED
  BY <1>1, <1>2, <1>3, <1>4 DEF Changed, Names

\* The draft an appointment starts with: sound, and without records.
LEMMA NewDraftIs ==
  ASSUME NEW standard \in Nat, NEW points \in Nat
  PROVE  /\ Sound(NewDraft(standard, points)) /\ NewDraft(standard, points).version = 0
         /\ Names(NewDraft(standard, points)) = {}
<1>1. PICK redeemed, loyalty : redeemed = Redeemed(standard, points) /\ loyalty = redeemed * PointValue
  OBVIOUS
<1>2. redeemed \in Nat /\ loyalty \in Nat
  BY <1>1, RedeemedIs
<1>3. PICK t : t = ScalarTotals(standard + loyalty)
  OBVIOUS
<1>4. t \in Totals /\ Agree(t, loyalty)
  <2>1. standard + loyalty \in Nat
    BY <1>2
  <2> QED
    BY <1>2, <1>3, <2>1, ScalarTotalsAre
<1>5. PICK u : u = NewDraft(standard, points)
  OBVIOUS
<1>6. u = [status |-> "draft", version |-> 0, points |-> redeemed, loyalty |-> loyalty,
           lineItems |-> NoItems, invoiceItems |-> <<>>,
           discountTotal |-> t.discountTotal, payable |-> t.payable,
           lineDiscount |-> t.lineDiscount, linePayable |-> t.linePayable]
  BY <1>1, <1>3, <1>5 DEF NewDraft
<1>7. <<>> \in Lists(0) /\ Ids(<<>>) = {}
  BY DEF Lists, Ids
<1>8. NoItems \in [LineIdx -> Lists(0)] /\ \A l \in LineIdx : NoItems[l] = <<>>
  BY <1>7 DEF NoItems
<1>9. NoItems \in [LineIdx -> Seq(ItemType)]
  BY DEF NoItems
<1>10. u \in Sheets
  BY <1>2, <1>4, <1>6, <1>9 DEF Sheets, Totals
<1>11. Agree(u, u.loyalty)
  <2>1. u.loyalty = loyalty /\ u.payable = t.payable /\ u.discountTotal = t.discountTotal
        /\ u.lineDiscount = t.lineDiscount /\ u.linePayable = t.linePayable
    BY <1>6
  <2> QED
    BY <1>4, <2>1 DEF Agree
<1>12. u.lineItems = NoItems /\ u.invoiceItems = <<>> /\ u.version = 0
  BY <1>6
<1>13. Contents(u.lineItems, u.invoiceItems, u.version)
  BY <1>7, <1>8, <1>12 DEF Contents
<1>14. Names(u) = {}
  BY <1>7, <1>8, <1>12 DEF Names, Named
<1> QED
  BY <1>5, <1>10, <1>11, <1>12, <1>13, <1>14 DEF Sound

-----------------------------------------------------------------------------
(* The invariant *)

\* A copy that still has the version of the invoice is the invoice.
CopySound(s) ==
  /\ Sound(s) /\ s.version <= sheet.version /\ s.version < MaxVersion
  /\ s.version = sheet.version => s = sheet

DraftInv ==
  /\ Sound(sheet) /\ sheet.version <= MaxVersion
  /\ granted = Names(sheet)
  /\ editing = [e \in Editors |-> editing[e]]
  /\ \A e \in Editors : editing[e] # NoEdit => CopySound(editing[e])

\* It holds of a new draft, which nobody edits yet.
LEMMA DraftInitInv ==
  ASSUME DraftInit
  PROVE  DraftInv
<1>1. PICK standard \in Scalars, points \in PointRequests : sheet = NewDraft(standard, points)
  BY DEF DraftInit
<1>2. standard \in Nat /\ points \in Nat
  BY ConstantsOfDraft
<1>3. Sound(sheet) /\ sheet.version = 0 /\ Names(sheet) = {}
  BY <1>1, <1>2, NewDraftIs
<1> QED
  BY <1>3, ConstantsOfDraft DEF DraftInit, DraftInv

\* A write keeps it, whatever the change.
LEMMA WriteKeeps ==
  ASSUME DraftInv, NEW e \in Editors, NEW new, editing[e] # NoEdit, Write(e, new),
         Changed(editing[e], new, granted')
  PROVE  DraftInv'
<1>1. editing[e] = sheet /\ sheet.version < MaxVersion /\ sheet.version \in Nat
  BY DEF DraftInv, CopySound, Write, WriteGuard, Sound, Sheets
<1>2. /\ new \in Sheets /\ Agree(new, new.loyalty)
      /\ Contents(new.lineItems, new.invoiceItems, sheet.version + 1)
      /\ Named(new.lineItems, new.invoiceItems) = granted'
  BY <1>1 DEF Changed
<1>3. sheet' = [new EXCEPT !.version = sheet.version + 1]
  BY DEF Write
<1>4. /\ sheet' \in Sheets /\ sheet'.version = sheet.version + 1
      /\ sheet'.lineItems = new.lineItems /\ sheet'.invoiceItems = new.invoiceItems
      /\ sheet'.loyalty = new.loyalty /\ sheet'.payable = new.payable
      /\ sheet'.discountTotal = new.discountTotal /\ sheet'.lineDiscount = new.lineDiscount
      /\ sheet'.linePayable = new.linePayable
  <2>1. PICK u, v : u = sheet' /\ v = sheet.version + 1
    OBVIOUS
  <2>2. v \in Nat /\ u = [new EXCEPT !.version = v]
    BY <1>1, <1>3, <2>1
  <2>3. /\ u.version = v /\ u.status = new.status /\ u.points = new.points
        /\ u.lineItems = new.lineItems /\ u.invoiceItems = new.invoiceItems
        /\ u.loyalty = new.loyalty /\ u.payable = new.payable
        /\ u.discountTotal = new.discountTotal /\ u.lineDiscount = new.lineDiscount
        /\ u.linePayable = new.linePayable
    BY <1>2, <2>2 DEF Sheets
  <2>4. u \in Sheets
    BY <1>2, <2>2 DEF Sheets
  <2> QED
    BY <2>1, <2>3, <2>4
<1>5. Agree(sheet', sheet'.loyalty)
  BY <1>2, <1>4 DEF Agree
<1>6. Sound(sheet')
  BY <1>2, <1>4, <1>5 DEF Sound
<1>7. granted' = Names(sheet')
  BY <1>2, <1>4 DEF Names
<1>8. /\ editing' = [editing EXCEPT ![e] = NoEdit] /\ DOMAIN editing = Editors
  BY DEF Write, DraftInv
<1>9. ASSUME NEW f \in Editors, editing'[f] # NoEdit PROVE CopySound(editing[f])' 
  <2>1. f # e /\ editing'[f] = editing[f]
    BY <1>8, <1>9
  <2>2. CopySound(editing[f])
    BY <1>9, <2>1 DEF DraftInv
  <2>3. editing[f].version \in Nat
    BY <2>2 DEF CopySound, Sound, Sheets
  <2> QED
    BY <1>1, <1>4, <2>1, <2>2, <2>3 DEF CopySound
<1> QED
  BY <1>1, <1>4, <1>6, <1>7, <1>8, <1>9, ConstantsOfDraft DEF DraftInv

\* What an editor that holds a copy holds, when its write goes through.
LEMMA HeldCopy ==
  ASSUME DraftInv, NEW e \in Editors, editing[e] # NoEdit
  PROVE  /\ Sound(editing[e])
         /\ editing[e].version = sheet.version => editing[e] = sheet /\ granted = Names(editing[e])
  BY DEF DraftInv, CopySound

\* A copy just read is the invoice.
LEMMA ReadKeeps ==
  ASSUME DraftInv, NEW e \in Editors, ReadDraft(e)
  PROVE  DraftInv'
<1>1. /\ editing' = [editing EXCEPT ![e] = sheet] /\ DOMAIN editing = Editors
      /\ sheet' = sheet /\ granted' = granted /\ sheet.version < MaxVersion
  BY DEF ReadDraft, DraftInv
<1>2. Sound(sheet) /\ sheet.version \in Nat
  BY DEF DraftInv, Sound, Sheets
<1>3. ASSUME NEW f \in Editors, editing'[f] # NoEdit PROVE CopySound(editing[f])'
  <2>1. CASE f = e
    <3>1. editing'[f] = sheet
      BY <1>1, <2>1
    <3> QED
      BY <1>1, <1>2, <3>1 DEF CopySound
  <2>2. CASE f # e
    <3>1. editing'[f] = editing[f]
      BY <1>1, <2>2
    <3> QED
      BY <1>1, <1>3, <3>1 DEF CopySound, DraftInv
  <2> QED
    BY <2>1, <2>2
<1>4. editing' = [f \in Editors |-> editing'[f]]
  BY <1>1
<1>5. Sound(sheet') /\ sheet'.version <= MaxVersion /\ granted' = Names(sheet')
  BY <1>1 DEF DraftInv
<1> QED
  BY <1>3, <1>4, <1>5 DEF DraftInv

\* An editor whose write matched nothing holds nothing.
LEMMA ConflictKeeps ==
  ASSUME DraftInv, NEW e \in Editors, EditConflict(e)
  PROVE  DraftInv'
<1>1. /\ editing' = [editing EXCEPT ![e] = NoEdit] /\ DOMAIN editing = Editors
      /\ sheet' = sheet /\ granted' = granted
  BY DEF EditConflict, DraftInv
<1>2. ASSUME NEW f \in Editors, editing'[f] # NoEdit PROVE CopySound(editing[f])'
  <2>1. f # e /\ editing'[f] = editing[f]
    BY <1>1, <1>2
  <2> QED
    BY <1>1, <1>2, <2>1 DEF CopySound, DraftInv
<1>3. editing' = [f \in Editors |-> editing'[f]]
  BY <1>1
<1>4. Sound(sheet') /\ sheet'.version <= MaxVersion /\ granted' = Names(sheet')
  BY <1>1 DEF DraftInv
<1> QED
  BY <1>2, <1>3, <1>4 DEF DraftInv

\* Every write comes from the copy that is still current, so its change is a change
\* of the invoice, and the names it leaves are those granted.
LEMMA DraftStep ==
  ASSUME DraftInv, [DraftNext]_draftVars
  PROVE  DraftInv'
<1>1. CASE UNCHANGED draftVars
  <2>1. sheet' = sheet /\ editing' = editing /\ granted' = granted
    BY <1>1 DEF draftVars
  <2>2. \A e \in Editors : editing'[e] # NoEdit => CopySound(editing[e])'
    BY <2>1 DEF DraftInv, CopySound
  <2>3. Sound(sheet') /\ sheet'.version <= MaxVersion /\ granted' = Names(sheet')
        /\ editing' = [e \in Editors |-> editing'[e]]
    BY <2>1 DEF DraftInv
  <2> QED
    BY <2>2, <2>3 DEF DraftInv
<1>2. ASSUME NEW e \in Editors, ReadDraft(e) PROVE DraftInv'
  BY <1>2, ReadKeeps
<1>3. ASSUME NEW e \in Editors, NEW d \in Discounts, ApplyInvoiceDiscount(e, d) PROVE DraftInv'
  <2>1. editing[e] # NoEdit /\ granted' = granted \cup {NewId(e)}
    BY <1>3 DEF ApplyInvoiceDiscount
  <2>2. PICK s : s = editing[e]
    OBVIOUS
  <2>3. Sound(s) /\ NewId(e) = s.version + 1
    BY <2>1, <2>2, HeldCopy DEF NewId
  <2>4. ASSUME NEW new, Write(e, new), Changed(s, new, Names(s) \cup {s.version + 1})
        PROVE  DraftInv'
    <3>1. granted = Names(s)
      BY <2>1, <2>2, <2>4, HeldCopy DEF Write, WriteGuard
    <3>2. Changed(editing[e], new, granted')
      BY <2>1, <2>2, <2>3, <2>4, <3>1
    <3> QED
      BY <2>1, <2>4, <3>2, WriteKeeps
  <2>5. CASE \E l \in LineIdx : Write(e, ApplyToLine(editing[e], l, d, NewId(e)))
    <3>1. PICK l \in LineIdx : Write(e, ApplyToLine(s, l, d, s.version + 1))
      BY <2>2, <2>3, <2>5
    <3> QED
      BY <2>3, <2>4, <3>1, ApplyToLineIs
  <2>6. CASE \E order \in Selections : Write(e, ApplyToSelectedLines(editing[e], order, d, NewId(e)))
    <3>1. PICK order \in Selections : Write(e, ApplyToSelectedLines(s, order, d, s.version + 1))
      BY <2>2, <2>3, <2>6
    <3> QED
      BY <2>3, <2>4, <3>1, ApplyToSelectedLinesIs
  <2>7. CASE Write(e, ApplyToInvoice(editing[e], d, NewId(e)))
    <3>1. Write(e, ApplyToInvoice(s, d, s.version + 1))
      BY <2>2, <2>3, <2>7
    <3> QED
      BY <2>3, <2>4, <3>1, ApplyToInvoiceIs
  <2> QED
    BY <1>3, <2>5, <2>6, <2>7 DEF ApplyInvoiceDiscount
<1>4. ASSUME NEW e \in Editors, NEW id, NEW d \in Discounts, ModifyInvoiceDiscount(e, id, d.value)
      PROVE  DraftInv'
  <2>1. PICK s, value : s = editing[e] /\ value = d.value
    OBVIOUS
  <2>2. /\ s # NoEdit /\ granted' = granted /\ Write(e, ModifyItem(s, id, value))
        /\ \A x \in Records(s) : x.id = id /\ x.type = "percentage" => value <= 100
    BY <1>4, <2>1 DEF ModifyInvoiceDiscount
  <2>3. Sound(s) /\ granted = Names(s)
    BY <2>1, <2>2, HeldCopy DEF Write, WriteGuard
  <2>4. value \in Nat
    BY <2>1, ConstantsOfDraft DEF IsDiscount
  <2>5. Changed(s, ModifyItem(s, id, value), Names(s))
    BY <2>2, <2>3, <2>4, ModifyItemIs
  <2> QED
    BY <2>1, <2>2, <2>3, <2>5, WriteKeeps
<1>5. ASSUME NEW e \in Editors, NEW id, RemoveInvoiceDiscount(e, id) PROVE DraftInv'
  <2>1. PICK s : s = editing[e]
    OBVIOUS
  <2>2. s # NoEdit /\ granted' = granted \ {id} /\ Write(e, RemoveItem(s, id))
    BY <1>5, <2>1 DEF RemoveInvoiceDiscount
  <2>3. Sound(s) /\ granted = Names(s)
    BY <2>1, <2>2, HeldCopy DEF Write, WriteGuard
  <2>4. Changed(s, RemoveItem(s, id), Names(s) \ {id})
    BY <2>3, RemoveItemIs
  <2> QED
    BY <2>1, <2>2, <2>3, <2>4, WriteKeeps
<1>6. ASSUME NEW e \in Editors, NEW standard, NEW points, UpdateDraftInvoice(e, standard, points)
      PROVE  DraftInv'
  <2>1. PICK s : s = editing[e]
    OBVIOUS
  <2>2. /\ s # NoEdit /\ granted' = granted /\ Write(e, UpdateScalar(s, standard, points))
        /\ <<standard, points>> \in Updates(s) /\ standard >= 0
    BY <1>6, <2>1 DEF UpdateDraftInvoice
  <2>3. Sound(s) /\ granted = Names(s)
    BY <2>1, <2>2, HeldCopy DEF Write, WriteGuard
  <2>4. s.points \in Nat /\ s.discountTotal - s.loyalty \in Int
    BY <2>3 DEF Sound, Sheets
  <2>5. \/ standard \in Scalars /\ points \in PointRequests \cup {s.points}
        \/ standard = s.discountTotal - s.loyalty /\ points \in PointRequests
    BY <2>2 DEF Updates
  <2>6. standard \in Nat /\ points \in Nat
    <3>1. CASE standard \in Scalars /\ points \in PointRequests \cup {s.points}
      BY <2>4, <3>1, ConstantsOfDraft
    <3>2. CASE standard = s.discountTotal - s.loyalty /\ points \in PointRequests
      BY <2>2, <2>4, <3>2, ConstantsOfDraft
    <3> QED
      BY <2>5, <3>1, <3>2
  <2>7. Changed(s, UpdateScalar(s, standard, points), Names(s))
    BY <2>3, <2>6, UpdateScalarIs
  <2> QED
    BY <2>1, <2>2, <2>3, <2>7, WriteKeeps
<1>7. ASSUME NEW e \in Editors, FinalizeDraft(e) PROVE DraftInv'
  <2>1. PICK s : s = editing[e]
    OBVIOUS
  <2>2. s # NoEdit /\ granted' = granted /\ Write(e, [s EXCEPT !.status = "finalized"])
    BY <1>7, <2>1 DEF FinalizeDraft
  <2>3. Sound(s) /\ granted = Names(s)
    BY <2>1, <2>2, HeldCopy DEF Write, WriteGuard
  <2>4. Changed(s, [s EXCEPT !.status = "finalized"], Names(s))
    BY <2>3, FinalizedIs
  <2> QED
    BY <2>1, <2>2, <2>3, <2>4, WriteKeeps
<1>8. ASSUME NEW e \in Editors, EditConflict(e) PROVE DraftInv'
  BY <1>8, ConflictKeeps
<1> QED
  BY <1>1, <1>2, <1>3, <1>4, <1>5, <1>6, <1>7, <1>8 DEF DraftNext

\* The invariant the three properties rest on.
THEOREM DraftInvariant == DraftSpec => []DraftInv
<1>1. DraftInit => DraftInv
  BY DraftInitInv
<1>2. DraftInv /\ [DraftNext]_draftVars => DraftInv'
  BY DraftStep
<1> QED
  BY <1>1, <1>2, PTL DEF DraftSpec

-----------------------------------------------------------------------------
(* The properties *)

\* The types are in the invariant, the identities in its lists of records.
LEMMA DraftInvTypes ==
  ASSUME DraftInv
  PROVE  DraftTypeOK
<1>1. Sound(sheet) /\ sheet \in Sheets /\ sheet.version \in 0..MaxVersion /\ granted = Names(sheet)
  <2>1. Sound(sheet) /\ sheet.version <= MaxVersion /\ granted = Names(sheet)
    BY DEF DraftInv
  <2>2. sheet \in Sheets
    BY <2>1 DEF Sound
  <2>3. sheet.version \in Nat
    BY <2>2 DEF Sheets
  <2> QED
    BY <2>1, <2>2, <2>3, ConstantsOfDraft
<1>2. ASSUME NEW q \in Seq(ItemType) PROVE Range(q) \subseteq ItemType
  BY DEF Range
<1>3. \A l \in LineIdx : /\ Range(sheet.lineItems[l]) \subseteq ItemType
                         /\ {sheet.lineDiscount[l], sheet.linePayable[l]} \subseteq Nat
  <2>1. ASSUME NEW l \in LineIdx
        PROVE  sheet.lineItems[l] \in Seq(ItemType) /\ sheet.lineDiscount[l] \in Nat
               /\ sheet.linePayable[l] \in Nat
    BY <1>1 DEF Sheets
  <2> QED
    BY <1>2, <2>1
<1>4. Range(sheet.invoiceItems) \subseteq ItemType
  <2>1. sheet.invoiceItems \in Seq(ItemType)
    BY <1>1 DEF Sheets
  <2> QED
    BY <1>2, <2>1
<1>5. granted \subseteq 1..MaxVersion
  <2>1. ASSUME NEW x \in granted PROVE x \in 1..sheet.version
    <3>1. x \in (UNION {Ids(sheet.lineItems[l]) : l \in LineIdx}) \cup Ids(sheet.invoiceItems)
          /\ x # LegacyId
      BY <1>1 DEF Names, Named
    <3>2. \A l \in LineIdx : sheet.lineItems[l] \in Lists(sheet.version)
      BY <1>1 DEF Sound, Contents
    <3>3. sheet.invoiceItems \in Lists(sheet.version)
      BY <1>1 DEF Sound, Contents
    <3>4. sheet.version \in Nat
      BY <1>1
    <3> QED
      BY <3>1, <3>2, <3>3, <3>4, NamesWithin
  <2>2. 1..sheet.version \subseteq 1..MaxVersion
    BY <1>1, ConstantsOfDraft
  <2> QED
    BY <2>1, <2>2
<1>6. sheet.status \in {"draft", "finalized"}
      /\ {sheet.discountTotal, sheet.payable, sheet.points, sheet.loyalty} \subseteq Nat
  BY <1>1 DEF Sheets
<1> QED
  BY <1>1, <1>3, <1>4, <1>5, <1>6 DEF DraftTypeOK

\* A draft keeps its shape: totals that are no less than nothing, records of the
\* kinds the schema allows, identities a write has given out.
THEOREM DraftTypes == DraftSpec => []DraftTypeOK
<1>1. DraftInv => DraftTypeOK
  BY DraftInvTypes
<1> QED
  BY <1>1, DraftInvariant, PTL

\* For any number of editors, lines and writes, the discounts an invoice shows are
\* those granted and not removed since: the version in the condition of every write
\* is what keeps two editors from undoing each other's.
THEOREM DiscountsKept == DraftSpec => []NoDiscountLost
<1>1. DraftInv => NoDiscountLost
  BY ItemIdsAre DEF DraftInv, Names, Named, NoDiscountLost
<1> QED
  BY <1>1, DraftInvariant, PTL

\* For any number of lines: the header's total is the lines' discounts and at most
\* the loyalty discount, no line pays less than nothing, and none but by a rounding
\* of less than half a cent a line takes more than it costs.
THEOREM TotalsAgree == DraftSpec => []Agree(sheet, sheet.loyalty)
<1>1. DraftInv => Agree(sheet, sheet.loyalty)
  BY DEF DraftInv, Sound
<1> QED
  BY <1>1, DraftInvariant, PTL

\* A line can cost less than the remainder the last one takes: three lines of one
\* cent and a free one, one cent off, and the free line is discounted by that cent.
LEMMA OverdrawnLine == Split(<<1, 1, 1, 0>>, 1) = <<0, 0, 0, 1>>
<1>1. PICK bases : bases = <<1, 1, 1, 0>>
  OBVIOUS
<1>2. /\ bases \in [1..4 -> Nat] /\ bases \in [1..4 -> Int] /\ DOMAIN bases = 1..4 /\ Len(bases) = 4
      /\ bases[1] = 1 /\ bases[2] = 1 /\ bases[3] = 1 /\ bases[4] = 0
  BY <1>1
<1>3. SumOf(bases) = 3
  <2>1. PICK v \in [0..4 -> Int] :
          v[0] = 0 /\ v[4] = SumOf(bases) /\ \A k \in 1..4 : v[k] = v[k - 1] + bases[k]
    BY <1>2, PartialSums
  <2>2. v[1] = v[1 - 1] + 1 /\ v[2] = v[2 - 1] + 1 /\ v[3] = v[3 - 1] + 1 /\ v[4] = v[4 - 1] + 0
    BY <1>2, <2>1
  <2> QED
    BY <2>1, <2>2
<1>4. PICK asked : asked = Asked(bases, 1)
  OBVIOUS
<1>5. /\ asked \in [1..4 -> Nat]
      /\ asked[1] = 0 /\ asked[2] = 0 /\ asked[3] = 0 /\ asked[4] = 1
  BY <1>2, <1>3, <1>4 DEF Asked, Rounded
<1>6. PICK left, shares : AreSteps(4, 1, asked, left, shares)
  BY <1>5, SharesAreSteps
<1>7. Split(bases, 1) = shares
  BY <1>3, <1>4, <1>6 DEF Split, SharesOf, AreSteps
<1>8. /\ left[0] = 1 /\ shares \in [1..4 -> Nat]
      /\ shares[1] = Capped(left[0], 0) /\ left[1] = left[0] - shares[1]
      /\ shares[2] = Capped(left[1], 0) /\ left[2] = left[1] - shares[2]
      /\ shares[3] = Capped(left[2], 0) /\ left[3] = left[2] - shares[3]
      /\ shares[4] = Capped(left[3], 1)
  <2>1. \A k \in 1..4 : shares[k] = Capped(left[k - 1], asked[k]) /\ left[k] = left[k - 1] - shares[k]
    BY <1>6 DEF AreSteps
  <2>2. 1 - 1 = 0 /\ 2 - 1 = 1 /\ 3 - 1 = 2 /\ 4 - 1 = 3
    OBVIOUS
  <2> QED
    BY <1>5, <1>6, <2>1, <2>2 DEF AreSteps
<1>9. shares[1] = 0 /\ shares[2] = 0 /\ shares[3] = 0 /\ shares[4] = 1
  BY <1>8 DEF Capped
<1>10. shares = <<0, 0, 0, 1>>
  BY <1>8, <1>9
<1> QED
  BY <1>1, <1>7, <1>10

\* Header and lines of an invoice of up to three uncovered lines agree after any
\* edits, whatever their amounts.  With four they need not: see OverdrawnLine.
THEOREM LinesReconciled == Len(DraftLines) <= 3 /\ DraftSpec => []LinesReconcile
<1>1. ASSUME Len(DraftLines) <= 3, DraftInv PROVE LinesReconcile
  <2>1. sheet \in Sheets /\ Agree(sheet, sheet.loyalty)
    BY <1>1 DEF DraftInv, Sound
  <2>2. /\ sheet.discountTotal \in Nat /\ sheet.payable \in Nat /\ sheet.loyalty \in Nat
        /\ sheet.lineDiscount \in [LineIdx -> Nat] /\ sheet.linePayable \in [LineIdx -> Nat]
    BY <2>1 DEF Sheets
  <2>3. N <= 3
    BY <1>1 DEF N
  <2>4. /\ \A l \in LineIdx : sheet.lineDiscount[l] + sheet.linePayable[l] = DraftLines[l]
        /\ SumOf(sheet.linePayable) - sheet.payable \in 0..sheet.loyalty
    BY <2>1, <2>2, <2>3, AgreeIsExact
  <2> QED
    BY <2>2, <2>4 DEF LinesReconcile
<1>2. Len(DraftLines) <= 3 /\ DraftInv => LinesReconcile
  BY <1>1
<1>3. (Len(DraftLines) <= 3)' <=> Len(DraftLines) <= 3
  OBVIOUS
<1> QED
  BY <1>2, <1>3, DraftInvariant, PTL
=============================================================================
