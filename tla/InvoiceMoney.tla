----------------------------- MODULE InvoiceMoney -----------------------------
(***************************************************************************)
(* The arithmetic of billing.service.js and loyalty.service.js, in cents:  *)
(* sequential discounts, the proportional split of a discount over lines   *)
(* whose last line takes the remainder, and the limits of a redemption.    *)
(*                                                                         *)
(* Number(x.toFixed(2)) is rounding half up to whole cents.  A binary      *)
(* floating-point tie may fall the other way; the properties do not depend *)
(* on which way it falls.                                                  *)
(***************************************************************************)
EXTENDS Integers, SequencesExt

\* toFixed(2) of the quotient a / b, for a, b >= 0.
Rounded(a, b) == (2 * a + b) \div (2 * b)

Capped(a, b) == IF a <= b THEN a ELSE b

Plus(sum, a) == sum + a
SumOf(amounts) == FoldLeft(Plus, 0, amounts)

\* Mutant of Split: the last line is rounded like the others.
SplitRounded(bases, amount) ==
  [i \in DOMAIN bases |->
     IF SumOf(bases) = 0 THEN 0 ELSE Rounded(bases[i] * amount, SumOf(bases))]

\* Each line takes the share it asks for, cut to what is left.
Shared(run, asked) ==
  LET share == Capped(run.left, asked)
  IN  [left |-> run.left - share, shares |-> Append(run.shares, share)]

\* A line asks for its proportional share, rounded; the last one for all there is.
Asked(bases, amount) ==
  [i \in DOMAIN bases |-> IF i = Len(bases) THEN amount
                          ELSE Rounded(bases[i] * amount, SumOf(bases))]

Split(bases, amount) ==
  IF SumOf(bases) = 0 \/ amount = 0
    THEN [i \in DOMAIN bases |-> 0]
    ELSE FoldLeft(Shared, [left |-> amount, shares |-> <<>>], Asked(bases, amount)).shares

\* A discount takes a percentage of what is left, or a fixed amount capped at it.
Taken(discount, base) ==
  IF discount.type = "percentage"
    THEN Rounded(base * discount.value, 100)
    ELSE Capped(base, discount.value)

\* What several discounts, in the order they were applied, leave of a base.
Less(left, discount) == left - Taken(discount, left)
AfterDiscounts(base, discounts) == FoldLeft(Less, base, discounts)

\* The most points a bill allows: the balance, and the cap as whole points.
MaxRedeemable(available, bill, maxPercentage, rate) ==
  Capped(available, Rounded(bill * maxPercentage, 100) \div rate)

RedemptionOpen(available, bill, minimum, maxPercentage, rate) ==
  /\ available >= minimum
  /\ bill > 0
  /\ MaxRedeemable(available, bill, maxPercentage, rate) >= minimum

\* A request outside the limits of an open redemption is an error; when no
\* redemption is possible at all, it silently applies nothing.
RedemptionRefused(requested, available, bill, minimum, maxPercentage, rate) ==
  /\ RedemptionOpen(available, bill, minimum, maxPercentage, rate)
  /\ \/ requested < minimum
     \/ requested > MaxRedeemable(available, bill, maxPercentage, rate)

PointsApplied(requested, available, bill, minimum, maxPercentage, rate) ==
  IF RedemptionOpen(available, bill, minimum, maxPercentage, rate)
    THEN requested
    ELSE 0
=============================================================================
