------------------------- MODULE SubscriptionLifecycle -------------------------
(***************************************************************************)
(* A subscription shared by several members from its sale to its end:      *)
(* creation and renewal, activation and return to pending_payment through  *)
(* billing, lazy expiry, cancellation, and redemption at the counter by    *)
(* code or by hand (subscription.service.js), on a database with           *)
(* transactions.  Each member holds an allocation; the document repeats    *)
(* the first member's as "root" entitlements, which every decrement lowers *)
(* and which a post-init hook reconciles on every read.                    *)
(***************************************************************************)
EXTENDS Integers, FiniteSets

CONSTANTS
  Subs,          \* subscriptions sold, each followed through its renewals
  NoSub,         \* the subscription of a request that has none
  Members,       \* the enrolled customers
  Payer,         \* the member who pays: customerId, and the first member
  Allotment,     \* totalQuantity of each member
  Counters,      \* redemption requests
  MaxCodes,      \* bound on the codes sent to one member
  CodeAttempts   \* wrong codes a customer may enter (5 in the code)

ASSUME LifecycleAssumption ==
  /\ Payer \in Members
  /\ Allotment \in [Members -> Nat \ {0}]
  /\ MaxCodes \in Nat /\ CodeAttempts \in Nat \ {0}

VARIABLES
  sub,        \* the subscription documents
  customer,   \* the code fields of the customer documents
  counter,    \* redemption requests under way
  office,     \* a cancellation or an expiry that has read and not yet written
  usages      \* SubscriptionUsage records, counted by subscription and member

lifeVars == <<sub, customer, counter, office, usages>>

Open == {"active", "pending_payment"}

Free == [phase |-> "free", sub |-> NoSub, member |-> Payer, code |-> 0, current |-> FALSE]
NoOffice ==
  [phase |-> "free", sub |-> NoSub, left |-> Allotment, synced |-> FALSE, current |-> FALSE]

\* A subscription always has a price, so it starts by waiting for payment.
NewSub ==
  [status |-> "pending_payment", member |-> [m \in Members |-> "pending_payment"],
   left |-> Allotment, root |-> Allotment[Payer], ended |-> FALSE, paid |-> FALSE]

AbsentSub == [NewSub EXCEPT !.status = "absent"]

NewCustomer == [code |-> 0, live |-> FALSE, attempts |-> 0, uses |-> [c \in 1..MaxCodes |-> 0]]

-----------------------------------------------------------------------------
(* The document as mongoose presents it *)

\* Mutant of Shown: the hook looks for no particular member.
ShownToAll(d) == [m \in Members |-> IF d.root < d.left[m] THEN d.root ELSE d.left[m]]

\* The post-init hook: a lower root balance replaces the payer's.
Shown(d) == [d.left EXCEPT ![Payer] = IF d.root < @ THEN d.root ELSE @]

\* Mutant of Savable: the schema has no minimum.
SavableAlways(d) == d.status # "absent"

\* A save of a loaded document writes what the hook changed as well, under the
\* version; the schema (min: 0) refuses a negative balance.
Savable(d) == \A m \in Members : Shown(d)[m] >= 0
Saved(d) == [d EXCEPT !.left = Shown(d), !.root = Shown(d)[Payer]]

\* A versioned save makes the copies others hold out of date: their own saves
\* will fail.  A $inc does not.
OutdatedOffice(s) == [office EXCEPT !.current = @ /\ office.sub # s]
OutdatedCounters(m) ==
  [c \in Counters |-> [counter[c] EXCEPT !.current = @ /\ counter[c].member # m]]

\* Mutant of Exhausted: the root balance closes the subscription and its members.
ExhaustedAtRoot(d) ==
  IF d.root > 0 THEN d
  ELSE [d EXCEPT !.member = [m \in Members |-> "exhausted"], !.status = "exhausted"]

\* Members and then the subscription are closed when nothing shows any more.
Exhausted(d) ==
  LET over == {m \in Members : Shown(d)[m] = 0}
      member == [m \in Members |-> IF m \in over THEN "exhausted" ELSE d.member[m]]
      all == \A m \in Members : member[m] \in {"exhausted", "cancelled"}
  IN  [d EXCEPT !.member = member, !.status = IF all THEN "exhausted" ELSE @]

\* Mutant of Decremented: the balance is not part of the filter.
DecrementedUnguarded(d, m) == [d EXCEPT !.left[m] = @ - 1, !.root = @ - 1]

\* atomicDecrementMemberEntitlement: one unit of the member, and of the root.
Decremented(d, m) ==
  IF d.status \in Open /\ d.member[m] \in Open /\ d.left[m] >= 1
    THEN [d EXCEPT !.left[m] = @ - 1, !.root = @ - 1]
    ELSE d

-----------------------------------------------------------------------------
LifeInit ==
  /\ sub = [s \in Subs |-> AbsentSub]
  /\ customer = [m \in Members |-> NewCustomer]
  /\ counter = [c \in Counters |-> Free]
  /\ office = NoOffice
  /\ usages = [s \in Subs |-> [m \in Members |-> 0]]

CreateSubscription(s) ==
  /\ sub[s].status = "absent"
  /\ sub' = [sub EXCEPT ![s] = NewSub]
  /\ UNCHANGED <<customer, counter, office, usages>>

\* renewSubscription: a new document with full allotments, whatever is left of
\* the old one, which only must not be cancelled (and has been marked expired if
\* its end has passed).  From here on the model follows the new document; nobody
\* is half-way through a request on the old one.
RenewSubscription(s) ==
  /\ sub[s].status \notin {"absent", "cancelled"}
  /\ ~(sub[s].ended /\ sub[s].status \in Open)
  /\ office.sub # s /\ \A c \in Counters : counter[c].sub # s
  /\ sub' = [sub EXCEPT ![s] = NewSub]
  /\ usages' = [usages EXCEPT ![s] = [m \in Members |-> 0]]
  /\ UNCHANGED <<customer, counter, office>>

\* recordPayment, settling the sale's invoice.
Settle(s) ==
  /\ sub[s].status # "absent" /\ ~sub[s].paid
  /\ LET opened == [sub[s] EXCEPT !.status = "active",
                      !.member = [m \in Members |-> IF @[m] = "pending_payment"
                                                      THEN "active" ELSE @[m]]]
     IN  IF sub[s].status = "pending_payment"
           THEN /\ Savable(sub[s])
                /\ sub' = [sub EXCEPT ![s] = [Saved(opened) EXCEPT !.paid = TRUE]]
                /\ office' = OutdatedOffice(s)
           ELSE /\ sub' = [sub EXCEPT ![s].paid = TRUE]
                /\ UNCHANGED office
  /\ UNCHANGED <<customer, counter, usages>>

\* voidPayment of the settling payment: back to pending_payment from any status
\* but cancelled.
Unsettle(s) ==
  /\ sub[s].paid
  /\ LET shut == [sub[s] EXCEPT !.status = "pending_payment",
                    !.member = [m \in Members |-> IF @[m] = "active"
                                                    THEN "pending_payment" ELSE @[m]]]
     IN  IF sub[s].status # "cancelled"
           THEN /\ Savable(sub[s])
                /\ sub' = [sub EXCEPT ![s] = [Saved(shut) EXCEPT !.paid = FALSE]]
                /\ office' = OutdatedOffice(s)
           ELSE /\ sub' = [sub EXCEPT ![s].paid = FALSE]
                /\ UNCHANGED office
  /\ UNCHANGED <<customer, counter, usages>>

\* Time, and updateSubscription setting a later endDate.
EndDatePasses(s) ==
  /\ sub[s].status \in Open /\ ~sub[s].ended
  /\ sub' = [sub EXCEPT ![s].ended = TRUE]
  /\ UNCHANGED <<customer, counter, office, usages>>

UpdateSubscription(s) ==
  /\ sub[s].status \notin {"absent", "cancelled", "expired"} /\ sub[s].ended
  /\ Savable(sub[s])
  /\ sub' = [sub EXCEPT ![s] = [Saved(sub[s]) EXCEPT !.ended = FALSE]]
  /\ office' = OutdatedOffice(s)
  /\ UNCHANGED <<customer, counter, usages>>

\* checkAndUpdateExpiry: reads, and saves on the version read.  A decrement is a
\* $inc, which moves no version, so the save may follow decrements it has not
\* seen; it then rewrites the payer's balance if the hook had changed it.
ReadEnded(s) ==
  /\ office = NoOffice
  /\ sub[s].status \in Open /\ sub[s].ended
  /\ office' = [phase |-> "expire", sub |-> s, left |-> Shown(sub[s]),
                synced |-> Shown(sub[s]) # sub[s].left, current |-> TRUE]
  /\ UNCHANGED <<sub, customer, counter, usages>>

CheckAndUpdateExpiry ==
  /\ office.phase = "expire"
  /\ LET s == office.sub
     IN  IF office.current /\ office.left[Payer] >= 0
           THEN sub' = [sub EXCEPT ![s].status = "expired",
                          ![s].left[Payer] = IF office.synced THEN office.left[Payer] ELSE @]
           ELSE UNCHANGED sub
  /\ office' = NoOffice
  /\ UNCHANGED <<customer, counter, usages>>

\* cancelSubscription: the members are read, and found unused, before the
\* transaction that loads the document again and writes them back whole.
ReadForCancellation(s) ==
  /\ office = NoOffice
  /\ sub[s].status \notin {"absent", "cancelled"}
  /\ Shown(sub[s]) = Allotment
  /\ office' = [NoOffice EXCEPT !.phase = "cancel", !.sub = s]
  /\ UNCHANGED <<sub, customer, counter, usages>>

CancelSubscription ==
  /\ office.phase = "cancel"
  /\ LET d == sub[office.sub]
     IN  IF Savable(d)
           THEN sub' = [sub EXCEPT ![office.sub] =
                  [Saved(d) EXCEPT !.status = "cancelled", !.left = Allotment,
                                   !.member = [m \in Members |-> "cancelled"]]]
           ELSE UNCHANGED sub
  /\ office' = NoOffice
  /\ UNCHANGED <<customer, counter, usages>>

-----------------------------------------------------------------------------
(* Redemption at the counter *)

Redeemable(s, m) ==
  sub[s].status \in Open /\ ~sub[s].ended /\ sub[s].member[m] \in Open

\* sendRedemptionOTP (a minute after the last one).
SendRedemptionOTP(s, m) ==
  /\ Redeemable(s, m)
  /\ customer[m].code < MaxCodes
  /\ customer' = [customer EXCEPT ![m].code = @ + 1, ![m].live = TRUE,
                                  ![m].attempts = 0]
  /\ counter' = OutdatedCounters(m)
  /\ UNCHANGED <<sub, office, usages>>

\* A wrong code counts; past the limit, or late, the code is cleared.
WrongCode(s, m) ==
  /\ Redeemable(s, m)
  /\ customer[m].live
  /\ customer' = [customer EXCEPT ![m].live = customer[m].attempts < CodeAttempts,
                                  ![m].attempts = IF @ < CodeAttempts THEN @ + 1 ELSE @]
  /\ counter' = OutdatedCounters(m)
  /\ UNCHANGED <<sub, office, usages>>

CodeExpires(m) ==
  /\ customer[m].live
  /\ customer' = [customer EXCEPT ![m].live = FALSE]
  /\ counter' = OutdatedCounters(m)
  /\ UNCHANGED <<sub, office, usages>>

\* redeemSubscription up to its first write: by hand, or with the code the
\* customer holds.
BeginRedemption(c, s, m, byCode) ==
  /\ counter[c].phase = "free"
  /\ Redeemable(s, m)
  /\ Shown(sub[s])[m] >= 1
  /\ byCode => customer[m].live /\ customer[m].attempts < CodeAttempts
  /\ counter' = [counter EXCEPT ![c] =
       [phase |-> IF byCode THEN "verified" ELSE "spend", sub |-> s, member |-> m,
        code |-> IF byCode THEN customer[m].code ELSE 0,
        current |-> TRUE]]
  /\ UNCHANGED <<sub, customer, office, usages>>

\* Mutant of CodeFree: the save does not look at the version.
CodeSaved(c) == counter[c].phase = "verified"

\* customer.save(): the version read must still be there.
CodeFree(c) == counter[c].current

ClearCode(c) ==
  /\ counter[c].phase = "verified"
  /\ LET m == counter[c].member
     IN  IF CodeFree(c)
           THEN /\ customer' = [customer EXCEPT ![m].live = FALSE, ![m].attempts = 0]
                /\ counter' = [OutdatedCounters(m) EXCEPT ![c].phase = "spend"]
           ELSE /\ counter' = [counter EXCEPT ![c] = Free]
                /\ UNCHANGED customer
  /\ UNCHANGED <<sub, office, usages>>

\* The transaction: decrement, usage record, exhaustion; or nothing.
Redeem(c) ==
  /\ counter[c].phase = "spend"
  /\ LET s == counter[c].sub
         m == counter[c].member
         lower == Decremented(sub[s], m)
         closed == Exhausted(lower)
         dirty == closed # lower
     IN  IF lower = sub[s] \/ (dirty /\ ~Savable(lower))
           THEN UNCHANGED <<sub, usages, customer, office>>
           ELSE /\ sub' = [sub EXCEPT ![s] = IF dirty THEN Saved(closed) ELSE lower]
                /\ usages' = [usages EXCEPT ![s][m] = @ + 1]
                /\ office' = IF dirty THEN OutdatedOffice(s) ELSE office
                /\ customer' = IF counter[c].code = 0 THEN customer
                               ELSE [customer EXCEPT ![m].uses[counter[c].code] = @ + 1]
  /\ counter' = [counter EXCEPT ![c] = Free]

LifeNext ==
  \/ \E s \in Subs :
       \/ CreateSubscription(s) \/ RenewSubscription(s)
       \/ Settle(s) \/ Unsettle(s)
       \/ EndDatePasses(s) \/ UpdateSubscription(s)
       \/ ReadEnded(s)
       \/ ReadForCancellation(s)
  \/ CheckAndUpdateExpiry
  \/ CancelSubscription
  \/ \E s \in Subs, m \in Members :
       \/ SendRedemptionOTP(s, m)
       \/ WrongCode(s, m)
       \/ \E c \in Counters, byCode \in BOOLEAN : BeginRedemption(c, s, m, byCode)
  \/ \E m \in Members : CodeExpires(m)
  \/ \E c \in Counters : ClearCode(c) \/ Redeem(c)

LifeSpec == LifeInit /\ [][LifeNext]_lifeVars

-----------------------------------------------------------------------------
(* Properties *)

LifeTypeOK ==
  /\ \A s \in Subs :
       /\ sub[s].status \in {"absent", "pending_payment", "active", "expired",
                             "exhausted", "cancelled"}
       /\ \A m \in Members : sub[s].member[m] \in Open \cup {"exhausted", "cancelled"}
       /\ \A m \in Members : sub[s].left[m] \in 0..Allotment[m]
       /\ sub[s].root \in Int
  /\ \A m \in Members : customer[m].attempts \in 0..CodeAttempts
  /\ \A c \in Counters : counter[c].phase \in {"free", "verified", "spend"}
  /\ office.phase \in {"free", "expire", "cancel"}

\* No member ever redeems more than was sold to them, through any order of
\* redemptions, cancellations written from an old copy, expiry, voids, renewals
\* and late payments that reopen a subscription.
NeverOverdrawn == \A s \in Subs, m \in Members : usages[s][m] <= Allotment[m]

\* While a subscription is not cancelled, a member other than the payer has
\* exactly what was not redeemed: no save from a stale copy gives units back or
\* takes them away.
OthersAreExact ==
  \A s \in Subs, m \in Members \ {Payer} :
    sub[s].status # "cancelled" /\ sub[s].member[m] # "cancelled" =>
      sub[s].left[m] = Allotment[m] - usages[s][m]

\* One code redeems at most once, whatever two counters do with it at a time.
CodeRedeemsOnce == \A m \in Members, c \in 1..MaxCodes : customer[m].uses[c] <= 1

\* A member other than the payer is closed as exhausted only after redeeming the
\* whole allotment: the root balance, which the others' redemptions lower too,
\* closes nobody but the payer.
ExhaustedIsSpent ==
  \A s \in Subs, m \in Members \ {Payer} :
    sub[s].member[m] = "exhausted" => usages[s][m] = Allotment[m]
=============================================================================
