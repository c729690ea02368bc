---------------------------- MODULE LoyaltyAccount ----------------------------
(***************************************************************************)
(* A customer's points as loyalty.service.js keeps them: a balance and a   *)
(* debt on the customer document, and a ledger of transactions whose       *)
(* sourceEventKey (or idempotencyKey) is unique.  An account is            *)
(*     [points, debt, version, ledger]                                     *)
(* with ledger a set of [key, delta].  The operators are single writes of  *)
(* the handlers, which the settlement protocol chains.                     *)
(***************************************************************************)
EXTENDS Integers, FiniteSetsExt, Functions

EarnKey(inv) == <<"EARN_INV", inv>>
RedeemKey(inv) == <<"REDEEM_INV", inv>>
RestoreKey(inv) == <<"RESTORE_REDEEM_INV", inv>>
ReverseKey(pay) == <<"REVERSE_PAY", pay>>
AdjustKey(key) == <<"ADJUST", key>>

Recorded(account, key) == \E t \in account.ledger : t.key = key
LedgerTotal(account) == SumFunctionOnSet([t \in account.ledger |-> t.delta], account.ledger)

\* The unique index on sourceEventKey refuses a second entry.
Entered(account, key, delta) ==
  [account EXCEPT !.ledger = @ \cup {[key |-> key, delta |-> delta]}]

\* Mutant of CanSpend: the filter on loyaltyPoints is left out.
CanAlwaysSpend(account, n) == n > 0

\* commitRedemption, adjustCustomerPoints DEBIT: a guarded $inc, which does not
\* move the document's version.
CanSpend(account, n) == account.points >= n
Spent(account, n) == [account EXCEPT !.points = @ - n]

\* restoreRedemptionForCancelledInvoice, adjustCustomerPoints CREDIT: a plain
\* $inc of the balance, whatever the debt.
Credited(account, n) == [account EXCEPT !.points = @ + n]

\* Mutant of Awarded: the debt is paid off and the points are given as well.
AwardedTwice(account, n) ==
  [account EXCEPT !.points = @ + n,
                  !.debt = IF n >= @ THEN 0 ELSE @ - n,
                  !.version = @ + 1]

\* awardPointsForSettledInvoice: earned points pay the debt off first.
Awarded(account, n) ==
  [account EXCEPT !.points = IF n > account.debt THEN @ + n - account.debt ELSE @,
                  !.debt = IF n >= @ THEN 0 ELSE @ - n,
                  !.version = @ + 1]

\* reverseEarningForVoidedPayment: what the balance cannot give becomes debt.
Reversed(account, n) ==
  [account EXCEPT !.points = IF @ >= n THEN @ - n ELSE 0,
                  !.debt = IF account.points >= n THEN @ ELSE @ + n - account.points,
                  !.version = @ + 1]
=============================================================================
