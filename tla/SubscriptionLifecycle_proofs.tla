---------------------- MODULE SubscriptionLifecycle_proofs ----------------------
(***************************************************************************)
(* Proofs about SubscriptionLifecycle, for any subscriptions, members,     *)
(* allotments and counters.                                                *)
(*                                                                         *)
(* The inductive invariant has two parts that do not depend on each other. *)
(* Books relates a document to its usage records; what carries it is the   *)
(* root balance, which never exceeds what the payer has not redeemed, so   *)
(* that whatever the hook copies into the payer's allocation is safe, and  *)
(* the one state in which the payer's own allocation may be too high is    *)
(* "expired", which no redemption accepts and only a save leaves.  Codes   *)
(* says which codes can no longer have been used: those not yet sent, the  *)
(* one that is live, and the one a counter has cleared and not yet spent.  *)
(***************************************************************************)
EXTENDS SubscriptionLifecycle, TLAPS

Statuses == {"absent", "pending_payment", "active", "expired", "exhausted", "cancelled"}
MemberStatuses == Open \cup {"exhausted", "cancelled"}

Doc == [status : Statuses, member : [Members -> MemberStatuses], left : [Members -> Int],
        root : Int, ended : BOOLEAN, paid : BOOLEAN]

Others == Members \ {Payer}

\* A document d with the usage records u, per member.
Books(d, u) ==
  /\ d \in Doc /\ u \in [Members -> Nat]
  /\ \A m \in Members : u[m] <= Allotment[m] /\ d.left[m] >= 0 /\ d.left[m] <= Allotment[m]
  /\ d.status # "cancelled" =>
       /\ d.root + u[Payer] <= Allotment[Payer]
       /\ \A m \in Others : d.left[m] = Allotment[m] - u[m]
       /\ \A m \in Others : d.member[m] = "exhausted" => u[m] = Allotment[m]
       /\ d.status # "expired" => d.left[Payer] + u[Payer] <= Allotment[Payer]
  /\ d.status = "cancelled" => \A m \in Members : d.member[m] = "cancelled"
  /\ d.status = "absent" => u = [m \in Members |-> 0]

OfficeShape == [phase : {"free", "expire", "cancel"}, sub : Subs \cup {NoSub},
                left : [Members -> Int], synced : BOOLEAN, current : BOOLEAN]

OfficeSound ==
  /\ office \in OfficeShape
  /\ office.phase # "free" => office.sub \in Subs
  /\ office.phase = "expire" =>
       sub[office.sub].status # "cancelled" /\ office.left[Payer] <= Allotment[Payer]

Customer == [code : 0..MaxCodes, live : BOOLEAN, attempts : 0..CodeAttempts,
             uses : [1..MaxCodes -> Nat]]
Request == [phase : {"free", "verified", "spend"}, sub : Subs \cup {NoSub},
            member : Members, code : 0..MaxCodes, current : BOOLEAN]

DocInv ==
  /\ sub \in [Subs -> Doc]
  /\ usages \in [Subs -> [Members -> Nat]]
  /\ \A s \in Subs : Books(sub[s], usages[s])
  /\ OfficeSound

\* Counter c has cleared code k of member m and not yet redeemed with it.
Holds(c, m, k) ==
  counter[c].phase = "spend" /\ counter[c].member = m /\ counter[c].code = k

\* Code k of member m has redeemed nothing, and no counter is about to.
Fresh(m, k) == customer[m].uses[k] = 0 /\ \A c \in Counters : ~Holds(c, m, k)

\* Code k of member m is the live one, or has yet to be sent.
Unspent(m, k) == k > customer[m].code \/ (customer[m].live /\ k = customer[m].code)

Codes ==
  \A m \in Members :
    /\ customer[m].live => customer[m].code \in 1..MaxCodes
    /\ \A k \in 1..MaxCodes :
         /\ customer[m].uses[k] <= 1
         /\ Unspent(m, k) => Fresh(m, k)
         /\ \A c \in Counters : Holds(c, m, k) =>
              customer[m].uses[k] = 0 /\ \A d \in Counters \ {c} : ~Holds(d, m, k)

\* What a verified counter that is still current knows of its customer.
Verified ==
  \A c \in Counters :
    counter[c].phase = "verified" /\ counter[c].current =>
      /\ customer[counter[c].member].live
      /\ customer[counter[c].member].code = counter[c].code

CodeInv ==
  /\ customer \in [Members -> Customer]
  /\ counter \in [Counters -> Request]
  /\ \A c \in Counters : counter[c].phase # "free" => counter[c].sub \in Subs
  /\ Codes
  /\ Verified

LifeInv == DocInv /\ CodeInv

-----------------------------------------------------------------------------
(* One document *)

\* The payer is a member, with an allotment.
LEMMA PayerIsMember == Payer \in Members /\ Allotment \in [Members -> Nat] /\ Allotment[Payer] \in Nat
  BY LifecycleAssumption

\* The hook shows the payer the root balance when it is lower, and leaves the
\* others their own.
LEMMA ShownValues ==
  ASSUME NEW d \in Doc
  PROVE  /\ Shown(d) \in [Members -> Int]
         /\ Shown(d)[Payer] <= d.root /\ Shown(d)[Payer] <= d.left[Payer]
         /\ \A m \in Members : Shown(d)[m] <= d.left[m]
         /\ \A m \in Others : Shown(d)[m] = d.left[m]
<1>1. d.left \in [Members -> Int] /\ d.root \in Int
  BY DEF Doc
<1> QED
  BY <1>1, PayerIsMember DEF Shown, Others

\* A sale has its full allotment and nothing redeemed.
LEMMA NewBooks == Books(NewSub, [m \in Members |-> 0]) /\ Books(AbsentSub, [m \in Members |-> 0])
<1>1. NewSub \in Doc /\ AbsentSub \in Doc
  <2> DEFINE waiting == [m \in Members |-> "pending_payment"]
  <2>1. /\ waiting \in [Members -> MemberStatuses] /\ Allotment \in [Members -> Int]
        /\ Allotment[Payer] \in Int
    BY PayerIsMember DEF MemberStatuses, Open
  <2>2. NewSub = [status |-> "pending_payment", member |-> waiting, left |-> Allotment,
                  root |-> Allotment[Payer], ended |-> FALSE, paid |-> FALSE]
    BY DEF NewSub
  <2> HIDE DEF waiting
  <2>3. NewSub \in Doc
    BY <2>1, <2>2 DEF Doc, Statuses
  <2> QED
    BY <2>3 DEF AbsentSub, Doc, Statuses
<1> QED
  BY <1>1, PayerIsMember DEF Books, NewSub, AbsentSub, Others

\* Saving a document that only had its statuses changed keeps the books.
LEMMA SaveKeepsBooks ==
  ASSUME NEW d, NEW u, NEW e \in Doc, Books(d, u), Savable(d),
         d.status # "cancelled", e.status \notin {"cancelled", "absent"},
         e.left = d.left, e.root = d.root,
         \A m \in Others : e.member[m] = "exhausted" => u[m] = Allotment[m]
  PROVE  Books(Saved(e), u)
<1>1. d \in Doc /\ u \in [Members -> Nat]
  BY DEF Books
<1>2. Shown(e) = Shown(d)
  BY DEF Shown
<1>3. /\ Shown(d) \in [Members -> Int]
      /\ Shown(d)[Payer] <= d.root /\ Shown(d)[Payer] <= d.left[Payer]
      /\ \A m \in Members : Shown(d)[m] <= d.left[m] /\ Shown(d)[m] >= 0
      /\ \A m \in Others : Shown(d)[m] = d.left[m]
  BY <1>1, ShownValues DEF Savable
<1>4. /\ Saved(e).left = Shown(d) /\ Saved(e).root = Shown(d)[Payer]
      /\ Saved(e).status = e.status /\ Saved(e).member = e.member
      /\ Saved(e) \in Doc
  BY <1>2, <1>3, PayerIsMember DEF Saved, Doc
<1>5. \A m \in Members : d.left[m] \in Int /\ u[m] \in Nat /\ Allotment[m] \in Nat
  BY <1>1, PayerIsMember DEF Doc
<1>6. \A m \in Members : /\ u[m] <= Allotment[m] /\ Saved(e).left[m] >= 0
                         /\ Saved(e).left[m] <= Allotment[m]
  BY <1>3, <1>4, <1>5 DEF Books
<1>7. d.root \in Int /\ Shown(d)[Payer] \in Int
  BY <1>1, <1>3, PayerIsMember DEF Doc
<1>8. Saved(e).root + u[Payer] <= Allotment[Payer]
  BY <1>3, <1>4, <1>5, <1>7, PayerIsMember DEF Books
<1>9. Saved(e).left[Payer] + u[Payer] <= Allotment[Payer]
  BY <1>4, <1>8
<1>10. \A m \in Others : Saved(e).left[m] = Allotment[m] - u[m]
  BY <1>3, <1>4 DEF Books
<1> QED
  BY <1>1, <1>4, <1>6, <1>8, <1>9, <1>10 DEF Books

\* Neither payment nor the end date is part of the books.
LEMMA MarksKeepBooks ==
  ASSUME NEW d, NEW u, NEW b \in BOOLEAN, Books(d, u)
  PROVE  Books([d EXCEPT !.paid = b], u) /\ Books([d EXCEPT !.ended = b], u)
<1> DEFINE p == [d EXCEPT !.paid = b]
           e == [d EXCEPT !.ended = b]
<1>1. d \in Doc
  BY DEF Books
<1>2. /\ p \in Doc /\ p.status = d.status /\ p.member = d.member /\ p.left = d.left /\ p.root = d.root
      /\ e \in Doc /\ e.status = d.status /\ e.member = d.member /\ e.left = d.left /\ e.root = d.root
  BY <1>1 DEF Doc
<1> HIDE DEF p, e
<1>3. Books(p, u) /\ Books(e, u)
  BY <1>2 DEF Books
<1> QED
  BY <1>3 DEF p, e

\* A decrement that matched, with its usage record.
LEMMA DecrementKeepsBooks ==
  ASSUME NEW d, NEW u, NEW m \in Members, Books(d, u), Decremented(d, m) # d
  PROVE  /\ Books(Decremented(d, m), [u EXCEPT ![m] = @ + 1])
         /\ Decremented(d, m).status \in Open
         /\ d.status \in Open
<1> DEFINE e == Decremented(d, m)
           v == [u EXCEPT ![m] = @ + 1]
<1>1. d \in Doc /\ u \in [Members -> Nat]
  BY DEF Books
<1>2. /\ d.status \in Open /\ d.member[m] \in Open /\ d.left[m] >= 1
      /\ e = [d EXCEPT !.left[m] = @ - 1, !.root = @ - 1]
  BY DEF Decremented
<1>3. /\ e.status = d.status /\ e.member = d.member /\ e.root = d.root - 1
      /\ e.left[m] = d.left[m] - 1 /\ \A n \in Members \ {m} : e.left[n] = d.left[n]
      /\ e \in Doc
  <2>1. e.left = [d.left EXCEPT ![m] = @ - 1]
    BY <1>1, <1>2 DEF Doc
  <2>2. e.left \in [Members -> Int]
    BY <1>1, <2>1 DEF Doc
  <2>3. e.status = d.status /\ e.member = d.member /\ e.root = d.root - 1
    BY <1>1, <1>2 DEF Doc
  <2>4. e = [d EXCEPT !.left = e.left, !.root = d.root - 1]
    BY <1>1, <1>2, <2>1 DEF Doc
  <2>5. d.root - 1 \in Int
    BY <1>1 DEF Doc
  <2> HIDE DEF e
  <2>6. e \in Doc
    BY <1>1, <2>2, <2>4, <2>5 DEF Doc
  <2> QED
    BY <1>1, <2>1, <2>3, <2>6 DEF Doc
<1>4. /\ v \in [Members -> Nat] /\ v[m] = u[m] + 1
      /\ \A n \in Members \ {m} : v[n] = u[n]
  BY <1>1
<1>5. d.status \notin {"absent", "cancelled", "expired"} /\ d.member[m] # "exhausted"
  BY <1>2 DEF Open
<1>6. \A n \in Members : d.left[n] \in Int /\ u[n] \in Nat /\ Allotment[n] \in Nat
  BY <1>1, PayerIsMember DEF Doc
<1>7. d.left[m] + u[m] <= Allotment[m]
  <2>1. CASE m = Payer
    BY <1>5, <2>1 DEF Books
  <2>2. CASE m # Payer
    BY <1>5, <1>6, <2>2 DEF Books, Others
  <2> QED
    BY <2>1, <2>2
<1> HIDE DEF e, v
<1>8. \A n \in Members : v[n] <= Allotment[n] /\ e.left[n] >= 0 /\ e.left[n] <= Allotment[n]
  <2> TAKE n \in Members
  <2>1. CASE n = m
    BY <1>2, <1>3, <1>4, <1>6, <1>7, <2>1
  <2>2. CASE n # m
    BY <1>3, <1>4, <2>2 DEF Books
  <2> QED
    BY <2>1, <2>2
<1>9. e.root + v[Payer] <= Allotment[Payer] /\ e.left[Payer] + v[Payer] <= Allotment[Payer]
  <2>1. /\ d.root + u[Payer] <= Allotment[Payer] /\ d.left[Payer] + u[Payer] <= Allotment[Payer]
        /\ d.root \in Int /\ u[Payer] \in Nat /\ d.left[Payer] \in Int
    BY <1>1, <1>5, <1>6, PayerIsMember DEF Books, Doc
  <2>2. CASE m = Payer
    BY <1>3, <1>4, <2>1, <2>2, PayerIsMember
  <2>3. CASE m # Payer
    BY <1>3, <1>4, <2>1, <2>3, PayerIsMember
  <2> QED
    BY <2>2, <2>3
<1>10. \A n \in Others : /\ e.left[n] = Allotment[n] - v[n]
                         /\ e.member[n] = "exhausted" => v[n] = Allotment[n]
  <2> TAKE n \in Others
  <2>1. d.left[n] = Allotment[n] - u[n] /\ (d.member[n] = "exhausted" => u[n] = Allotment[n])
    BY <1>5 DEF Books
  <2>2. CASE n = m
    BY <1>3, <1>4, <1>5, <1>6, <2>1, <2>2 DEF Others
  <2>3. CASE n # m
    BY <1>3, <1>4, <2>1, <2>3 DEF Others
  <2> QED
    BY <2>2, <2>3
<1>11. Books(e, v)
  BY <1>3, <1>4, <1>5, <1>8, <1>9, <1>10 DEF Books
<1> QED
  BY <1>2, <1>3, <1>11 DEF e, v

\* Closing what is spent touches statuses only.
LEMMA ExhaustedDocument ==
  ASSUME NEW d \in Doc
  PROVE  /\ Exhausted(d) \in Doc
         /\ Exhausted(d).left = d.left /\ Exhausted(d).root = d.root
         /\ Exhausted(d).status \in {d.status, "exhausted"}
         /\ \A m \in Members :
              Exhausted(d).member[m] = IF Shown(d)[m] = 0 THEN "exhausted" ELSE d.member[m]
<1> DEFINE e == Exhausted(d)
           members == [m \in Members |-> IF m \in {n \in Members : Shown(d)[n] = 0}
                                           THEN "exhausted" ELSE d.member[m]]
           all == \A m \in Members : members[m] \in {"exhausted", "cancelled"}
<1>1. e = [d EXCEPT !.member = members, !.status = IF all THEN "exhausted" ELSE @]
  BY DEF Exhausted
<1>2. members \in [Members -> MemberStatuses]
  BY DEF Doc, MemberStatuses
<1>3. \A m \in Members : members[m] = IF Shown(d)[m] = 0 THEN "exhausted" ELSE d.member[m]
  OBVIOUS
<1> HIDE DEF members, all
<1>4. /\ e.left = d.left /\ e.root = d.root /\ e.status \in {d.status, "exhausted"}
      /\ e.member = members
  BY <1>1 DEF Doc
<1>5. e \in Doc
  BY <1>1, <1>2 DEF Doc, Statuses
<1> QED
  BY <1>3, <1>4, <1>5

\* Closing what is spent, and saving, keeps the books.
LEMMA ExhaustionKeepsBooks ==
  ASSUME NEW d, NEW u, Books(d, u), d.status \in Open, Savable(d)
  PROVE  Books(Saved(Exhausted(d)), u)
<1> DEFINE e == Exhausted(d)
<1>1. d \in Doc /\ u \in [Members -> Nat] /\ d.status # "cancelled"
  BY DEF Books, Open
<1>2. /\ e.left = d.left /\ e.root = d.root /\ e.status \in {d.status, "exhausted"}
      /\ \A m \in Members : e.member[m] = IF Shown(d)[m] = 0 THEN "exhausted" ELSE d.member[m]
      /\ e \in Doc
  BY <1>1, ExhaustedDocument
<1> HIDE DEF e
<1>3. \A m \in Others : e.member[m] = "exhausted" => u[m] = Allotment[m]
  <2> TAKE m \in Others
  <2>1. m \in Members /\ Shown(d)[m] = d.left[m] /\ u[m] \in Nat /\ Allotment[m] \in Nat
    BY <1>1, ShownValues, PayerIsMember DEF Others
  <2>2. d.left[m] = Allotment[m] - u[m] /\ (d.member[m] = "exhausted" => u[m] = Allotment[m])
    BY <1>1 DEF Books
  <2>3. CASE Shown(d)[m] = 0
    BY <2>1, <2>2, <2>3
  <2>4. CASE Shown(d)[m] # 0
    BY <1>2, <2>1, <2>2, <2>4
  <2> QED
    BY <2>3, <2>4
<1>4. e.status \notin {"cancelled", "absent"}
  BY <1>1, <1>2 DEF Open
<1> QED
  BY <1>1, <1>2, <1>3, <1>4, SaveKeepsBooks DEF e

-----------------------------------------------------------------------------
(* The documents, the usage records and the office *)

\* One document changes with its usage records.
LEMMA DocumentChanged ==
  ASSUME DocInv, OfficeSound', NEW s \in Subs, NEW d, NEW u, Books(d, u),
         sub' = [sub EXCEPT ![s] = d], usages' = [usages EXCEPT ![s] = u]
  PROVE  DocInv'
<1>1. d \in Doc /\ u \in [Members -> Nat]
  BY DEF Books
<1>2. sub' \in [Subs -> Doc] /\ usages' \in [Subs -> [Members -> Nat]]
  BY <1>1 DEF DocInv
<1>3. /\ sub'[s] = d /\ usages'[s] = u
      /\ \A t \in Subs \ {s} : sub'[t] = sub[t] /\ usages'[t] = usages[t]
  BY DEF DocInv
<1>4. ASSUME NEW t \in Subs PROVE Books(sub'[t], usages'[t])
  <2>1. CASE t = s
    BY <1>3, <2>1
  <2>2. CASE t # s
    BY <1>3, <2>2 DEF DocInv
  <2> QED
    BY <2>1, <2>2
<1>5. Books(d, u)' = Books(d, u)
  OBVIOUS
<1>6. \A t \in Subs : Books(sub[t], usages[t])'
  BY <1>4 DEF Books
<1> QED
  BY <1>2, <1>6 DEF DocInv

\* The same, when the usage records stay.
LEMMA DocumentSaved ==
  ASSUME DocInv, OfficeSound', NEW s \in Subs, NEW d, Books(d, usages[s]),
         sub' = [sub EXCEPT ![s] = d], UNCHANGED usages
  PROVE  DocInv'
<1>1. usages' = [usages EXCEPT ![s] = usages[s]]
  BY DEF DocInv
<1> QED
  BY <1>1, DocumentChanged

\* An expiry under way stays sound unless its document becomes cancelled.
LEMMA OfficeKept ==
  ASSUME DocInv, NEW s \in Subs, NEW d \in Doc, sub' = [sub EXCEPT ![s] = d],
         d.status = "cancelled" => sub[s].status = "cancelled",
         office' \in {office, OutdatedOffice(s)}
  PROVE  OfficeSound'
<1>1. /\ office' \in OfficeShape
      /\ office'.phase = office.phase /\ office'.sub = office.sub /\ office'.left = office.left
  BY DEF DocInv, OfficeSound, OfficeShape, OutdatedOffice
<1>2. \A t \in Subs : sub'[t].status = "cancelled" => sub[t].status = "cancelled"
  BY DEF DocInv
<1> QED
  BY <1>1, <1>2 DEF DocInv, OfficeSound, OfficeShape

\* A counter without a request has nothing to rely on.
LEMMA NoOfficeSound == NoOffice \in OfficeShape /\ NoOffice.phase = "free"
  BY PayerIsMember DEF NoOffice, OfficeShape

\* A request that is over relies on nothing.
LEMMA OfficeClosed ==
  ASSUME office' = NoOffice
  PROVE  OfficeSound'
  BY NoOfficeSound DEF OfficeSound, OfficeShape

\* The invariant holds before the subscription is sold.
LEMMA InitDocInv == LifeInit => DocInv
<1> SUFFICES ASSUME LifeInit PROVE DocInv
  OBVIOUS
<1>1. Books(AbsentSub, [m \in Members |-> 0])
  BY NewBooks
<1>2. AbsentSub \in Doc
  BY <1>1 DEF Books
<1>3. /\ sub \in [Subs -> Doc] /\ usages \in [Subs -> [Members -> Nat]]
      /\ \A s \in Subs : Books(sub[s], usages[s])
  BY <1>1, <1>2 DEF LifeInit
<1> QED
  BY <1>3, NoOfficeSound DEF LifeInit, DocInv, OfficeSound

\* A sale gives every member the whole allotment.
LEMMA CreateKeepsDocInv ==
  ASSUME DocInv, NEW s \in Subs, CreateSubscription(s)
  PROVE  DocInv'
<1>1. sub' = [sub EXCEPT ![s] = NewSub] /\ office' = office /\ usages' = usages
  BY DEF CreateSubscription
<1>2. Books(NewSub, usages[s])
  BY NewBooks DEF CreateSubscription, DocInv, Books
<1>3. NewSub \in Doc /\ NewSub.status = "pending_payment"
  BY <1>2 DEF Books, NewSub
<1>4. OfficeSound'
  BY <1>1, <1>3, OfficeKept
<1> QED
  BY <1>1, <1>2, <1>4, DocumentSaved

\* A renewal begins a document of its own.
LEMMA RenewKeepsDocInv ==
  ASSUME DocInv, NEW s \in Subs, RenewSubscription(s)
  PROVE  DocInv'
<1>1. /\ sub' = [sub EXCEPT ![s] = NewSub] /\ office' = office
      /\ usages' = [usages EXCEPT ![s] = [m \in Members |-> 0]]
  BY DEF RenewSubscription
<1>2. NewSub \in Doc /\ NewSub.status = "pending_payment"
  BY NewBooks DEF Books, NewSub
<1>3. OfficeSound'
  BY <1>1, <1>2, OfficeKept
<1> QED
  BY <1>1, <1>3, NewBooks, DocumentChanged

\* A payment opens the document; a void shuts it; both save it, or only mark it.
LEMMA MarkPaidKeepsDocInv ==
  ASSUME DocInv, NEW s \in Subs, NEW b \in BOOLEAN, sub' = [sub EXCEPT ![s].paid = b],
         UNCHANGED <<office, usages>>
  PROVE  DocInv'
<1> DEFINE d == [sub[s] EXCEPT !.paid = b]
<1>1. Books(d, usages[s])
  BY MarksKeepBooks DEF DocInv
<1>2. d \in Doc /\ d.status = sub[s].status
  BY <1>1 DEF DocInv, Books, Doc
<1>3. sub' = [sub EXCEPT ![s] = d]
  BY DEF DocInv
<1> HIDE DEF d
<1>4. OfficeSound'
  BY <1>2, <1>3, OfficeKept
<1> QED
  BY <1>1, <1>3, <1>4, DocumentSaved

\* A payment changes the status only.
LEMMA SettleKeepsDocInv ==
  ASSUME DocInv, NEW s \in Subs, Settle(s)
  PROVE  DocInv'
<1> DEFINE d == sub[s]
           e == [d EXCEPT !.status = "active",
                   !.member = [m \in Members |-> IF @[m] = "pending_payment"
                                                   THEN "active" ELSE @[m]]]
           x == [Saved(e) EXCEPT !.paid = TRUE]
<1>1. d \in Doc /\ Books(d, usages[s])
  BY DEF DocInv
<1>2. CASE d.status = "pending_payment"
  <2>1. /\ Savable(d) /\ sub' = [sub EXCEPT ![s] = x]
        /\ office' = OutdatedOffice(s) /\ usages' = usages
    BY <1>2 DEF Settle
  <2>2. /\ e \in Doc /\ e.status = "active" /\ e.left = d.left /\ e.root = d.root
        /\ \A m \in Members : e.member[m] = "exhausted" => d.member[m] = "exhausted"
    <3> DEFINE members == [m \in Members |-> IF d.member[m] = "pending_payment"
                                               THEN "active" ELSE d.member[m]]
    <3>1. members \in [Members -> MemberStatuses]
      BY <1>1 DEF Doc, MemberStatuses, Open
    <3>2. \A m \in Members : members[m] = "exhausted" => d.member[m] = "exhausted"
      OBVIOUS
    <3>3. e = [d EXCEPT !.status = "active", !.member = members]
      BY <1>1 DEF Doc
    <3> HIDE DEF members, e, d
    <3> QED
      BY <1>1, <3>1, <3>2, <3>3 DEF Doc, Statuses
  <2> HIDE DEF e
  <2>3. Books(Saved(e), usages[s])
    BY <1>1, <1>2, <2>1, <2>2, SaveKeepsBooks DEF Books, Others
  <2>4. Books(x, usages[s])
    BY <2>3, MarksKeepBooks
  <2>5. x \in Doc /\ x.status = "active"
    BY <2>2, <2>4 DEF Books, Saved, Doc
  <2> HIDE DEF x
  <2>6. OfficeSound'
    BY <2>1, <2>5, OfficeKept
  <2> QED
    BY <2>1, <2>4, <2>6, DocumentSaved
<1>3. CASE d.status # "pending_payment"
  BY <1>3, MarkPaidKeepsDocInv DEF Settle
<1> QED
  BY <1>2, <1>3

\* A voided payment changes the status only.
LEMMA UnsettleKeepsDocInv ==
  ASSUME DocInv, NEW s \in Subs, Unsettle(s)
  PROVE  DocInv'
<1> DEFINE d == sub[s]
           e == [d EXCEPT !.status = "pending_payment",
                   !.member = [m \in Members |-> IF @[m] = "active"
                                                   THEN "pending_payment" ELSE @[m]]]
           x == [Saved(e) EXCEPT !.paid = FALSE]
<1>1. d \in Doc /\ Books(d, usages[s])
  BY DEF DocInv
<1>2. CASE d.status # "cancelled"
  <2>1. /\ Savable(d) /\ sub' = [sub EXCEPT ![s] = x]
        /\ office' = OutdatedOffice(s) /\ usages' = usages
    BY <1>2 DEF Unsettle
  <2>2. /\ e \in Doc /\ e.status = "pending_payment" /\ e.left = d.left /\ e.root = d.root
        /\ \A m \in Members : e.member[m] = "exhausted" => d.member[m] = "exhausted"
    <3> DEFINE members == [m \in Members |-> IF d.member[m] = "active"
                                               THEN "pending_payment" ELSE d.member[m]]
    <3>1. members \in [Members -> MemberStatuses]
      BY <1>1 DEF Doc, MemberStatuses, Open
    <3>2. \A m \in Members : members[m] = "exhausted" => d.member[m] = "exhausted"
      OBVIOUS
    <3>3. e = [d EXCEPT !.status = "pending_payment", !.member = members]
      BY <1>1 DEF Doc
    <3> HIDE DEF members, e, d
    <3> QED
      BY <1>1, <3>1, <3>2, <3>3 DEF Doc, Statuses
  <2> HIDE DEF e
  <2>3. Books(Saved(e), usages[s])
    BY <1>1, <1>2, <2>1, <2>2, SaveKeepsBooks DEF Books, Others
  <2>4. Books(x, usages[s])
    BY <2>3, MarksKeepBooks
  <2>5. x \in Doc /\ x.status = "pending_payment"
    BY <2>2, <2>4 DEF Books, Saved, Doc
  <2> HIDE DEF x
  <2>6. OfficeSound'
    BY <2>1, <2>5, OfficeKept
  <2> QED
    BY <2>1, <2>4, <2>6, DocumentSaved
<1>3. CASE d.status = "cancelled"
  BY <1>3, MarkPaidKeepsDocInv DEF Unsettle
<1> QED
  BY <1>2, <1>3

\* Time touches no balance.
LEMMA EndDateKeepsDocInv ==
  ASSUME DocInv, NEW s \in Subs, EndDatePasses(s)
  PROVE  DocInv'
<1> DEFINE d == [sub[s] EXCEPT !.ended = TRUE]
<1>1. Books(d, usages[s])
  BY MarksKeepBooks DEF DocInv
<1>2. d \in Doc /\ d.status = sub[s].status
  BY <1>1 DEF DocInv, Books, Doc
<1>3. sub' = [sub EXCEPT ![s] = d] /\ office' = office /\ usages' = usages
  BY DEF DocInv, EndDatePasses
<1> HIDE DEF d
<1>4. OfficeSound'
  BY <1>2, <1>3, OfficeKept
<1> QED
  BY <1>1, <1>3, <1>4, DocumentSaved

\* A member's data is saved together with the balances of the copy.
LEMMA UpdateKeepsDocInv ==
  ASSUME DocInv, NEW s \in Subs, UpdateSubscription(s)
  PROVE  DocInv'
<1> DEFINE x == [Saved(sub[s]) EXCEPT !.ended = FALSE]
<1>1. sub[s] \in Doc /\ Books(sub[s], usages[s])
  BY DEF DocInv
<1>2. /\ sub[s].status \notin {"absent", "cancelled", "expired"} /\ Savable(sub[s])
      /\ sub' = [sub EXCEPT ![s] = x] /\ office' = OutdatedOffice(s) /\ usages' = usages
  BY DEF UpdateSubscription
<1>3. Books(Saved(sub[s]), usages[s])
  BY <1>1, <1>2, SaveKeepsBooks DEF Books
<1>4. Books(x, usages[s])
  BY <1>3, MarksKeepBooks
<1>5. x \in Doc /\ x.status = sub[s].status
  BY <1>1, <1>4 DEF Books, Saved, Doc
<1> HIDE DEF x
<1>6. OfficeSound'
  BY <1>2, <1>5, OfficeKept
<1> QED
  BY <1>2, <1>4, <1>6, DocumentSaved

\* The expiry check remembers the document it has read.
LEMMA ReadEndedKeepsDocInv ==
  ASSUME DocInv, NEW s \in Subs, ReadEnded(s)
  PROVE  DocInv'
<1>1. /\ office' = [phase |-> "expire", sub |-> s, left |-> Shown(sub[s]),
                    synced |-> Shown(sub[s]) # sub[s].left, current |-> TRUE]
      /\ sub[s].status \in Open /\ sub' = sub /\ usages' = usages
  BY DEF ReadEnded
<1>2. sub[s] \in Doc /\ Books(sub[s], usages[s])
  BY DEF DocInv
<1>3. /\ Shown(sub[s]) \in [Members -> Int] /\ Shown(sub[s])[Payer] <= sub[s].left[Payer]
      /\ sub[s].left[Payer] <= Allotment[Payer]
      /\ sub[s].left[Payer] \in Int /\ Shown(sub[s])[Payer] \in Int /\ Allotment[Payer] \in Int
  BY <1>2, ShownValues, PayerIsMember DEF Books, Doc
<1>4. office' \in OfficeShape /\ office'.phase = "expire" /\ office'.sub = s
      /\ office'.left[Payer] <= Allotment[Payer]
  BY <1>1, <1>3 DEF OfficeShape
<1>5. OfficeSound'
  BY <1>1, <1>4 DEF OfficeSound, OfficeShape, Open
<1> QED
  BY <1>1, <1>5 DEF DocInv, Books, Doc

\* The expiry is the one write that may leave the payer more than was not
\* redeemed: it puts back what it read, while decrements went on.
LEMMA ExpiryKeepsDocInv ==
  ASSUME DocInv, CheckAndUpdateExpiry
  PROVE  DocInv'
<1> DEFINE s == office.sub
           d == sub[s]
           put == [d.left EXCEPT ![Payer] = IF office.synced THEN office.left[Payer] ELSE @]
           x == [d EXCEPT !.status = "expired", !.left = put]
<1>1. /\ s \in Subs /\ d \in Doc /\ Books(d, usages[s]) /\ d.status # "cancelled"
      /\ office.left[Payer] <= Allotment[Payer] /\ office.left[Payer] \in Int
  BY PayerIsMember DEF CheckAndUpdateExpiry, DocInv, OfficeSound, OfficeShape
<1>2. office' = NoOffice /\ usages' = usages
  BY DEF CheckAndUpdateExpiry
<1>3. OfficeSound'
  BY <1>2, OfficeClosed
<1>4. CASE office.current /\ office.left[Payer] >= 0
  <2>1. sub' = [sub EXCEPT ![s].status = "expired",
                  ![s].left[Payer] = IF office.synced THEN office.left[Payer] ELSE @]
    BY <1>4 DEF CheckAndUpdateExpiry
  <2>2. sub' = [sub EXCEPT ![s] = x]
    BY <1>1, <2>1 DEF DocInv, Doc
  <2>3. /\ put \in [Members -> Int]
        /\ put[Payer] = d.left[Payer] \/ put[Payer] = office.left[Payer]
        /\ \A m \in Others : put[m] = d.left[m]
    BY <1>1, PayerIsMember DEF Doc, Others
  <2> HIDE DEF put
  <2>4. /\ x \in Doc /\ x.status = "expired" /\ x.left = put /\ x.root = d.root
        /\ x.member = d.member
    BY <1>1, <2>3 DEF Doc, Statuses
  <2>5. \A m \in Members : usages[s][m] <= Allotment[m] /\ x.left[m] >= 0 /\ x.left[m] <= Allotment[m]
    <3> TAKE m \in Members
    <3>1. CASE m = Payer
      BY <1>1, <1>4, <2>3, <2>4, <3>1 DEF Books
    <3>2. CASE m # Payer
      BY <1>1, <2>3, <2>4, <3>2 DEF Books, Others
    <3> QED
      BY <3>1, <3>2
  <2> HIDE DEF x
  <2>6. Books(x, usages[s])
    BY <1>1, <2>3, <2>4, <2>5 DEF Books
  <2> QED
    BY <1>1, <1>2, <1>3, <2>2, <2>6, DocumentSaved
<1>5. CASE ~(office.current /\ office.left[Payer] >= 0)
  BY <1>2, <1>3, <1>5 DEF CheckAndUpdateExpiry, DocInv, Books, Doc
<1> QED
  BY <1>4, <1>5

\* A cancellation remembers the members it has read.
LEMMA ReadForCancellationKeepsDocInv ==
  ASSUME DocInv, NEW s \in Subs, ReadForCancellation(s)
  PROVE  DocInv'
<1>1. /\ office' = [NoOffice EXCEPT !.phase = "cancel", !.sub = s]
      /\ sub' = sub /\ usages' = usages
  BY DEF ReadForCancellation
<1>2. office' \in OfficeShape /\ office'.phase = "cancel" /\ office'.sub = s
  BY <1>1, NoOfficeSound DEF OfficeShape
<1>3. OfficeSound'
  BY <1>2 DEF OfficeSound, OfficeShape
<1> QED
  BY <1>1, <1>3 DEF DocInv, Books, Doc

\* A cancellation saves the members it has read, all of them cancelled.
LEMMA CancelKeepsDocInv ==
  ASSUME DocInv, CancelSubscription
  PROVE  DocInv'
<1> DEFINE s == office.sub
           gone == [m \in Members |-> "cancelled"]
           x == [Saved(sub[s]) EXCEPT !.status = "cancelled", !.left = Allotment, !.member = gone]
<1>1. s \in Subs /\ sub[s] \in Doc /\ Books(sub[s], usages[s])
  BY DEF CancelSubscription, DocInv, OfficeSound
<1>2. office' = NoOffice /\ usages' = usages
  BY DEF CancelSubscription
<1>3. OfficeSound'
  BY <1>2, OfficeClosed
<1>4. CASE Savable(sub[s])
  <2>1. sub' = [sub EXCEPT ![s] = x]
    BY <1>4 DEF CancelSubscription
  <2>2. Saved(sub[s]) \in Doc
    <3>1. Shown(sub[s]) \in [Members -> Int] /\ Shown(sub[s])[Payer] \in Int
      BY <1>1, ShownValues, PayerIsMember
    <3> QED
      BY <1>1, <3>1 DEF Saved, Doc
  <2>3. gone \in [Members -> MemberStatuses] /\ \A m \in Members : gone[m] = "cancelled"
    BY DEF MemberStatuses
  <2> HIDE DEF gone
  <2>4. /\ x \in Doc /\ x.status = "cancelled" /\ x.left = Allotment /\ x.member = gone
    <3> DEFINE y == Saved(sub[s])
    <3>1. y \in Doc /\ Allotment \in [Members -> Int]
      BY <2>2, PayerIsMember
    <3> HIDE DEF y
    <3>2. [y EXCEPT !.status = "cancelled", !.left = Allotment, !.member = gone] \in Doc
      BY <2>3, <3>1 DEF Doc, Statuses
    <3> QED
      BY <3>1, <3>2 DEF y, Doc
  <2> HIDE DEF x
  <2>5. \A m \in Members : usages[s][m] <= Allotment[m] /\ x.left[m] >= 0 /\ x.left[m] <= Allotment[m]
    BY <1>1, <2>4, PayerIsMember DEF Books
  <2>6. Books(x, usages[s])
    BY <1>1, <2>3, <2>4, <2>5 DEF Books
  <2> QED
    BY <1>1, <1>2, <1>3, <2>1, <2>6, DocumentSaved
<1>5. CASE ~Savable(sub[s])
  BY <1>2, <1>3, <1>5 DEF CancelSubscription, DocInv, Books, Doc
<1> QED
  BY <1>4, <1>5

\* A redemption takes units from the member who redeems.
LEMMA RedeemKeepsDocInv ==
  ASSUME LifeInv, NEW c \in Counters, Redeem(c)
  PROVE  DocInv'
<1> DEFINE s == counter[c].sub
           m == counter[c].member
           lower == Decremented(sub[s], m)
           closed == Exhausted(lower)
           x == IF closed # lower THEN Saved(closed) ELSE lower
           u == [usages[s] EXCEPT ![m] = @ + 1]
<1>1. /\ s \in Subs /\ m \in Members /\ sub[s] \in Doc /\ Books(sub[s], usages[s])
      /\ DocInv
  BY DEF Redeem, LifeInv, DocInv, CodeInv, Request
<1>2. CASE lower = sub[s] \/ (closed # lower /\ ~Savable(lower))
  <2>1. UNCHANGED <<sub, usages, office>>
    BY <1>2 DEF Redeem
  <2> QED
    BY <1>1, <2>1 DEF DocInv, OfficeSound, OfficeShape, Books, Doc
<1>3. CASE lower # sub[s] /\ (closed # lower => Savable(lower))
  <2>1. /\ sub' = [sub EXCEPT ![s] = x]
        /\ usages' = [usages EXCEPT ![s][m] = @ + 1]
        /\ office' \in {office, OutdatedOffice(s)}
    BY <1>3 DEF Redeem
  <2>2. usages' = [usages EXCEPT ![s] = u]
    BY <1>1, <2>1 DEF DocInv
  <2>3. Books(lower, u) /\ lower.status \in Open
    BY <1>1, <1>3, DecrementKeepsBooks
  <2> HIDE DEF lower, u
  <2>4. closed # lower => Books(Saved(closed), u)
    BY <1>3, <2>3, ExhaustionKeepsBooks
  <2>5. Books(x, u)
    BY <2>3, <2>4
  <2>6. x.status # "cancelled"
    <3>1. closed.status \in {lower.status, "exhausted"} /\ Saved(closed).status = closed.status
      BY <2>3, ExhaustedDocument DEF Books, Saved, Doc
    <3> QED
      BY <2>3, <3>1 DEF Open
  <2> HIDE DEF x
  <2>7. OfficeSound'
    BY <1>1, <2>1, <2>5, <2>6, OfficeKept DEF Books
  <2> QED
    BY <1>1, <2>1, <2>2, <2>5, <2>7, DocumentChanged
<1> QED
  BY <1>2, <1>3

\* The other steps leave the document as it is.
LEMMA RestKeepsDocInv ==
  ASSUME DocInv, UNCHANGED <<sub, office, usages>>
  PROVE  DocInv'
  BY DEF DocInv, OfficeSound, OfficeShape, Books, Doc

-----------------------------------------------------------------------------
(* The codes *)

\* The bounds of the codes are numbers.
LEMMA CodesAreNatural == MaxCodes \in Nat /\ 0 \in 0..MaxCodes /\ 0 \in 0..CodeAttempts
  BY LifecycleAssumption

\* What a save of a customer does to the copies of the counters.
LEMMA OutdatedRequests ==
  ASSUME CodeInv, NEW m \in Members
  PROVE  /\ OutdatedCounters(m) \in [Counters -> Request]
         /\ \A c \in Counters :
              /\ OutdatedCounters(m)[c].phase = counter[c].phase
              /\ OutdatedCounters(m)[c].sub = counter[c].sub
              /\ OutdatedCounters(m)[c].member = counter[c].member
              /\ OutdatedCounters(m)[c].code = counter[c].code
              /\ OutdatedCounters(m)[c].current => counter[c].current /\ counter[c].member # m
  BY DEF OutdatedCounters, CodeInv, Request

\* A customer is saved: a code is sent, counted against, or cleared.
LEMMA CustomerSaved ==
  ASSUME CodeInv, NEW m \in Members, NEW x \in Customer,
         customer' = [customer EXCEPT ![m] = x], counter' = OutdatedCounters(m),
         x.uses = customer[m].uses, x.code >= customer[m].code,
         x.live => x.code > customer[m].code \/ (x.code = customer[m].code /\ customer[m].live)
  PROVE  CodeInv'
<1>1. /\ customer' \in [Members -> Customer] /\ customer'[m] = x
      /\ \A n \in Members \ {m} : customer'[n] = customer[n]
  BY DEF CodeInv
<1>2. /\ counter' \in [Counters -> Request]
      /\ \A c \in Counters :
           /\ counter'[c].phase = counter[c].phase /\ counter'[c].sub = counter[c].sub
           /\ counter'[c].member = counter[c].member /\ counter'[c].code = counter[c].code
           /\ counter'[c].current => counter[c].current /\ counter[c].member # m
  BY OutdatedRequests
<1>3. \A c \in Counters, n \in Members, k \in 1..MaxCodes : Holds(c, n, k)' <=> Holds(c, n, k)
  BY <1>2 DEF Holds
<1>4. \A n \in Members : customer'[n].uses = customer[n].uses
  BY <1>1
<1>5. \A n \in Members, k \in 1..MaxCodes : Fresh(n, k)' <=> Fresh(n, k)
  BY <1>3, <1>4 DEF Fresh
<1>6. /\ x.code \in Nat /\ x.code <= MaxCodes
      /\ customer[m].code \in Nat /\ customer[m].code <= MaxCodes
  BY CodesAreNatural DEF CodeInv, Customer
<1>7. ASSUME NEW n \in Members, customer'[n].live
      PROVE  customer'[n].code \in 1..MaxCodes
  <2>1. CASE n # m
    BY <1>1, <1>7, <2>1 DEF CodeInv, Codes
  <2>2. CASE n = m /\ x.code > customer[m].code
    BY <1>1, <1>6, <2>2, CodesAreNatural
  <2>3. CASE n = m /\ x.code = customer[m].code /\ customer[m].live
    BY <1>1, <2>3 DEF CodeInv, Codes
  <2> QED
    BY <1>1, <1>7, <2>1, <2>2, <2>3
<1>8. ASSUME NEW n \in Members, NEW k \in 1..MaxCodes, Unspent(n, k)'
      PROVE  Unspent(n, k)
  <2>1. CASE n # m
    BY <1>1, <1>8, <2>1 DEF Unspent
  <2>2. CASE n = m
    BY <1>1, <1>6, <1>8, <2>2, CodesAreNatural DEF Unspent
  <2> QED
    BY <2>1, <2>2
<1>9. ASSUME NEW n \in Members, NEW k \in 1..MaxCodes
      PROVE  /\ customer'[n].uses[k] <= 1
             /\ Unspent(n, k)' => Fresh(n, k)'
             /\ \A c \in Counters : Holds(c, n, k)' =>
                  customer'[n].uses[k] = 0 /\ \A d \in Counters \ {c} : ~Holds(d, n, k)'
  <2>1. /\ customer[n].uses[k] <= 1
        /\ Unspent(n, k) => Fresh(n, k)
        /\ \A c \in Counters : Holds(c, n, k) =>
             customer[n].uses[k] = 0 /\ \A d \in Counters \ {c} : ~Holds(d, n, k)
    BY DEF CodeInv, Codes
  <2> QED
    BY <1>3, <1>4, <1>5, <1>8, <2>1
<1>10. Codes'
  BY <1>7, <1>9 DEF Codes
<1>11. ASSUME NEW c \in Counters, counter'[c].phase = "verified", counter'[c].current
       PROVE  /\ customer'[counter'[c].member].live
              /\ customer'[counter'[c].member].code = counter'[c].code
  <2>1. /\ counter[c].phase = "verified" /\ counter[c].current /\ counter[c].member # m
        /\ counter'[c].member = counter[c].member /\ counter'[c].code = counter[c].code
        /\ counter[c].member \in Members
    BY <1>2, <1>11 DEF CodeInv, Request
  <2> QED
    BY <1>1, <2>1 DEF CodeInv, Verified
<1>12. Verified'
  BY <1>11 DEF Verified
<1>13. \A c \in Counters : counter'[c].phase # "free" => counter'[c].sub \in Subs
  BY <1>2 DEF CodeInv
<1> QED
  BY <1>1, <1>2, <1>10, <1>12, <1>13 DEF CodeInv

\* Before the sale no code was issued.
LEMMA InitCodeInv == LifeInit => CodeInv
<1> SUFFICES ASSUME LifeInit PROVE CodeInv
  OBVIOUS
<1>1. NewCustomer \in Customer /\ Free \in Request
  BY LifecycleAssumption, CodesAreNatural DEF NewCustomer, Customer, Free, Request
<1>2. customer \in [Members -> Customer] /\ counter \in [Counters -> Request]
  BY <1>1 DEF LifeInit
<1>3. /\ \A c \in Counters : counter[c].phase = "free"
      /\ \A m \in Members : ~customer[m].live /\ customer[m].code = 0
           /\ \A k \in 1..MaxCodes : customer[m].uses[k] = 0
  BY DEF LifeInit, NewCustomer, Free
<1>4. \A c \in Counters, m \in Members, k \in 1..MaxCodes : ~Holds(c, m, k)
  BY <1>3 DEF Holds
<1>5. Codes
  BY <1>3, <1>4 DEF Codes, Fresh
<1>6. Verified
  BY <1>3 DEF Verified
<1> QED
  BY <1>2, <1>3, <1>5, <1>6 DEF CodeInv

\* A new code has a number no code had before.
LEMMA SendKeepsCodeInv ==
  ASSUME CodeInv, NEW s \in Subs, NEW m \in Members, SendRedemptionOTP(s, m)
  PROVE  CodeInv'
<1> DEFINE x == [customer[m] EXCEPT !.code = @ + 1, !.live = TRUE, !.attempts = 0]
<1>1. customer[m] \in Customer /\ customer[m].code < MaxCodes
  BY DEF CodeInv, SendRedemptionOTP
<1>2. customer[m].code + 1 \in 0..MaxCodes /\ customer[m].code + 1 > customer[m].code
      /\ 0 \in 0..CodeAttempts
  BY <1>1, LifecycleAssumption DEF Customer
<1>3. customer' = [customer EXCEPT ![m] = x] /\ counter' = OutdatedCounters(m)
  BY DEF CodeInv, SendRedemptionOTP, Customer
<1>4. x \in Customer /\ x.uses = customer[m].uses /\ x.code = customer[m].code + 1
  BY <1>1, <1>2 DEF Customer
<1> HIDE DEF x
<1>5. x.code > customer[m].code /\ x.code >= customer[m].code
  BY <1>1, <1>2, <1>4 DEF Customer
<1> QED
  BY <1>3, <1>4, <1>5, CustomerSaved

\* A wrong answer is counted, and the last one clears the code.
LEMMA WrongKeepsCodeInv ==
  ASSUME CodeInv, NEW s \in Subs, NEW m \in Members, WrongCode(s, m)
  PROVE  CodeInv'
<1> DEFINE live == customer[m].attempts < CodeAttempts
           attempts == IF customer[m].attempts < CodeAttempts THEN customer[m].attempts + 1
                                                              ELSE customer[m].attempts
           x == [customer[m] EXCEPT !.live = live, !.attempts = attempts]
<1>1. customer[m] \in Customer /\ customer[m].live
  BY DEF CodeInv, WrongCode
<1>2. attempts \in 0..CodeAttempts /\ live \in BOOLEAN /\ customer[m].code >= customer[m].code
  BY <1>1, LifecycleAssumption, CodesAreNatural DEF Customer
<1>3. customer' = [customer EXCEPT ![m] = x] /\ counter' = OutdatedCounters(m)
  BY DEF CodeInv, WrongCode, Customer
<1> HIDE DEF live, attempts
<1>4. x \in Customer /\ x.uses = customer[m].uses /\ x.code = customer[m].code
  BY <1>1, <1>2 DEF Customer
<1> QED
  BY <1>1, <1>2, <1>3, <1>4, CustomerSaved

\* An expired code is cleared.
LEMMA ExpireKeepsCodeInv ==
  ASSUME CodeInv, NEW m \in Members, CodeExpires(m)
  PROVE  CodeInv'
<1> DEFINE x == [customer[m] EXCEPT !.live = FALSE]
<1>1. customer[m] \in Customer /\ customer[m].code >= customer[m].code
  BY CodesAreNatural DEF CodeInv, Customer
<1>2. customer' = [customer EXCEPT ![m] = x] /\ counter' = OutdatedCounters(m)
  BY DEF CodeInv, CodeExpires, Customer
<1>3. x \in Customer /\ x.uses = customer[m].uses /\ x.code = customer[m].code /\ ~x.live
  BY <1>1 DEF Customer
<1> QED
  BY <1>1, <1>2, <1>3, CustomerSaved

\* A counter that is free takes up a request; it holds no code yet.
LEMMA BeginKeepsCodeInv ==
  ASSUME CodeInv, NEW c \in Counters, NEW s \in Subs, NEW m \in Members, NEW b \in BOOLEAN,
         BeginRedemption(c, s, m, b)
  PROVE  CodeInv'
<1> DEFINE r == [phase |-> IF b THEN "verified" ELSE "spend", sub |-> s, member |-> m,
                 code |-> IF b THEN customer[m].code ELSE 0, current |-> TRUE]
<1>1. counter' = [counter EXCEPT ![c] = r] /\ customer' = customer
  BY DEF BeginRedemption
<1>2. counter[c].phase = "free" /\ (b => customer[m].live)
  BY DEF BeginRedemption
<1>3. r \in Request
  BY CodesAreNatural DEF Request, CodeInv, Customer
<1>4. /\ counter' \in [Counters -> Request] /\ counter'[c] = r
      /\ \A d \in Counters \ {c} : counter'[d] = counter[d]
  BY <1>1, <1>3 DEF CodeInv
<1>5. \A d \in Counters, n \in Members, k \in 1..MaxCodes : Holds(d, n, k)' <=> Holds(d, n, k)
  <2> TAKE d \in Counters, n \in Members, k \in 1..MaxCodes
  <2>1. CASE d = c
    <3>1. ~(r.phase = "spend" /\ r.code = k)
      BY CodesAreNatural
    <3> QED
      BY <1>2, <1>4, <2>1, <3>1 DEF Holds
  <2>2. CASE d # c
    BY <1>4, <2>2 DEF Holds
  <2> QED
    BY <2>1, <2>2
<1>6. \A n \in Members, k \in 1..MaxCodes : Fresh(n, k)' <=> Fresh(n, k)
  BY <1>1, <1>5 DEF Fresh
<1>7. Codes'
  <2>1. ASSUME NEW n \in Members, NEW k \in 1..MaxCodes
        PROVE  /\ customer'[n].uses[k] <= 1
               /\ Unspent(n, k)' => Fresh(n, k)'
               /\ \A d \in Counters : Holds(d, n, k)' =>
                    customer'[n].uses[k] = 0 /\ \A e \in Counters \ {d} : ~Holds(e, n, k)'
    <3>1. /\ customer[n].uses[k] <= 1
          /\ Unspent(n, k) => Fresh(n, k)
          /\ \A d \in Counters : Holds(d, n, k) =>
               customer[n].uses[k] = 0 /\ \A e \in Counters \ {d} : ~Holds(e, n, k)
      BY DEF CodeInv, Codes
    <3>2. Unspent(n, k)' <=> Unspent(n, k)
      BY <1>1 DEF Unspent
    <3> QED
      BY <1>1, <1>5, <1>6, <3>1, <3>2
  <2>2. \A n \in Members : customer'[n].live => customer'[n].code \in 1..MaxCodes
    BY <1>1 DEF CodeInv, Codes
  <2> QED
    BY <2>1, <2>2 DEF Codes
<1>8. ASSUME NEW d \in Counters, counter'[d].phase = "verified", counter'[d].current
      PROVE  /\ customer'[counter'[d].member].live
             /\ customer'[counter'[d].member].code = counter'[d].code
  <2>1. CASE d = c
    <3>1. b /\ r.member = m /\ r.code = customer[m].code
      BY <1>4, <1>8, <2>1
    <3> QED
      BY <1>1, <1>2, <1>4, <2>1, <3>1
  <2>2. CASE d # c
    BY <1>1, <1>4, <1>8, <2>2 DEF CodeInv, Verified
  <2> QED
    BY <2>1, <2>2
<1>9. Verified'
  BY <1>8 DEF Verified
<1>10. \A d \in Counters : counter'[d].phase # "free" => counter'[d].sub \in Subs
  BY <1>4 DEF CodeInv
<1> QED
  BY <1>1, <1>4, <1>7, <1>9, <1>10 DEF CodeInv

\* A request that ends without using its code leaves nothing behind.
LEMMA CounterFreed ==
  ASSUME CodeInv, NEW c \in Counters, UNCHANGED customer, counter' = [counter EXCEPT ![c] = Free]
  PROVE  CodeInv'
<1>1. Free \in Request /\ Free.phase = "free"
  BY LifecycleAssumption, CodesAreNatural DEF Free, Request
<1>2. /\ counter' \in [Counters -> Request] /\ counter'[c].phase = "free"
      /\ \A d \in Counters \ {c} : counter'[d] = counter[d]
  BY <1>1 DEF CodeInv
<1>3. \A d \in Counters, n \in Members, k \in 1..MaxCodes : Holds(d, n, k)' => Holds(d, n, k)
  BY <1>2 DEF Holds
<1>4. ASSUME NEW n \in Members, NEW k \in 1..MaxCodes
      PROVE  /\ customer'[n].uses[k] <= 1
             /\ Unspent(n, k)' => Fresh(n, k)'
             /\ \A d \in Counters : Holds(d, n, k)' =>
                  customer'[n].uses[k] = 0 /\ \A e \in Counters \ {d} : ~Holds(e, n, k)'
  <2>1. /\ customer[n].uses[k] <= 1
        /\ Unspent(n, k) => Fresh(n, k)
        /\ \A d \in Counters : Holds(d, n, k) =>
             customer[n].uses[k] = 0 /\ \A e \in Counters \ {d} : ~Holds(e, n, k)
    BY DEF CodeInv, Codes
  <2>2. Unspent(n, k)' <=> Unspent(n, k)
    BY DEF Unspent
  <2>3. Fresh(n, k) => Fresh(n, k)'
    BY <1>3 DEF Fresh
  <2> QED
    BY <1>3, <2>1, <2>2, <2>3
<1>5. Codes'
  BY <1>4 DEF Codes, CodeInv
<1>6. Verified'
  BY <1>2 DEF Verified, CodeInv
<1> QED
  BY <1>2, <1>5, <1>6 DEF CodeInv

\* The code is cleared: it stops being live in the step in which the counter
\* comes to hold it.
LEMMA ClearKeepsCodeInv ==
  ASSUME CodeInv, NEW c \in Counters, ClearCode(c)
  PROVE  CodeInv'
<1> DEFINE m == counter[c].member
           k0 == counter[c].code
           x == [customer[m] EXCEPT !.live = FALSE, !.attempts = 0]
           r == [OutdatedCounters(m)[c] EXCEPT !.phase = "spend"]
<1>1. counter[c].phase = "verified" /\ m \in Members /\ counter[c] \in Request
      /\ customer[m] \in Customer
  BY DEF ClearCode, CodeInv, Request
<1>2. CASE CodeFree(c)
  <2>1. /\ customer' = [customer EXCEPT ![m] = x]
        /\ counter' = [OutdatedCounters(m) EXCEPT ![c] = r]
    BY <1>1, <1>2, OutdatedRequests DEF ClearCode, CodeInv, Customer, Request
  <2>2. /\ customer[m].live /\ customer[m].code = k0 /\ k0 \in 1..MaxCodes /\ Fresh(m, k0)
    <3>1. customer[m].live /\ customer[m].code = k0
      BY <1>1, <1>2 DEF CodeFree, CodeInv, Verified
    <3>2. k0 \in 1..MaxCodes
      BY <1>1, <3>1 DEF CodeInv, Codes
    <3> QED
      BY <1>1, <3>1, <3>2 DEF CodeInv, Codes, Unspent
  <2>3. /\ x \in Customer /\ x.uses = customer[m].uses /\ x.code = customer[m].code /\ ~x.live
    BY <1>1, CodesAreNatural DEF Customer
  <2>4. /\ customer' \in [Members -> Customer] /\ customer'[m] = x
        /\ \A n \in Members \ {m} : customer'[n] = customer[n]
    BY <1>1, <2>1, <2>3 DEF CodeInv
  <2>5. /\ r \in Request /\ r.phase = "spend" /\ r.member = m /\ r.code = k0
        /\ r.sub = counter[c].sub
    BY <1>1, OutdatedRequests DEF Request
  <2> HIDE DEF x, r
  <2>6. /\ counter' \in [Counters -> Request] /\ counter'[c] = r
        /\ \A d \in Counters \ {c} : counter'[d] = OutdatedCounters(m)[d]
    BY <1>1, <2>1, <2>5, OutdatedRequests
  <2>7. \A d \in Counters \ {c} :
          /\ counter'[d].phase = counter[d].phase /\ counter'[d].sub = counter[d].sub
          /\ counter'[d].member = counter[d].member /\ counter'[d].code = counter[d].code
          /\ counter'[d].current => counter[d].current /\ counter[d].member # m
    BY <1>1, <2>6, OutdatedRequests
  <2>8. ASSUME NEW d \in Counters, NEW n \in Members, NEW k \in 1..MaxCodes
        PROVE  Holds(d, n, k)' <=> Holds(d, n, k) \/ (d = c /\ n = m /\ k = k0)
    <3>1. CASE d = c
      BY <1>1, <2>5, <2>6, <3>1 DEF Holds
    <3>2. CASE d # c
      BY <2>7, <3>2 DEF Holds
    <3> QED
      BY <3>1, <3>2
  <2>9. \A n \in Members : customer'[n].uses = customer[n].uses /\ customer'[n].code = customer[n].code
                           /\ (customer'[n].live => customer[n].live /\ n # m)
    BY <2>3, <2>4
  <2>10. ASSUME NEW n \in Members, NEW k \in 1..MaxCodes
        PROVE  /\ customer'[n].uses[k] <= 1
               /\ Unspent(n, k)' => Fresh(n, k)'
               /\ \A d \in Counters : Holds(d, n, k)' =>
                    customer'[n].uses[k] = 0 /\ \A e \in Counters \ {d} : ~Holds(e, n, k)'
    <3>1. /\ customer[n].uses[k] <= 1
          /\ Unspent(n, k) => Fresh(n, k)
          /\ \A d \in Counters : Holds(d, n, k) =>
               customer[n].uses[k] = 0 /\ \A e \in Counters \ {d} : ~Holds(e, n, k)
      BY DEF CodeInv, Codes
    <3>2. CASE n = m /\ k = k0
      <4>1. customer[m].uses[k0] = 0 /\ \A d \in Counters : ~Holds(d, m, k0)
        BY <2>2 DEF Fresh
      <4>2. \A d \in Counters : Holds(d, n, k)' => d = c
        BY <2>8, <3>2, <4>1
      <4>3. ~Unspent(n, k)'
        BY <2>2, <2>9, <3>2 DEF Unspent
      <4> QED
        BY <2>9, <3>2, <4>1, <4>2, <4>3
    <3>3. CASE ~(n = m /\ k = k0)
      <4>1. \A d \in Counters : Holds(d, n, k)' <=> Holds(d, n, k)
        BY <2>8, <3>3
      <4>2. Unspent(n, k)' => Unspent(n, k)
        BY <2>9 DEF Unspent
      <4>3. Fresh(n, k) => Fresh(n, k)'
        BY <2>9, <4>1 DEF Fresh
      <4> QED
        BY <2>9, <3>1, <4>1, <4>2, <4>3
    <3> QED
      BY <3>2, <3>3
  <2>11. Codes'
    BY <2>9, <2>10 DEF Codes, CodeInv
  <2>12. ASSUME NEW d \in Counters, counter'[d].phase = "verified", counter'[d].current
         PROVE  /\ customer'[counter'[d].member].live
                /\ customer'[counter'[d].member].code = counter'[d].code
    <3>1. d # c
      BY <2>5, <2>6, <2>12
    <3>2. counter[d].member \in Members \ {m}
      BY <2>7, <2>12, <3>1 DEF CodeInv, Request
    <3> QED
      BY <2>4, <2>7, <2>12, <3>1, <3>2 DEF CodeInv, Verified
  <2>13. Verified'
    BY <2>12 DEF Verified
  <2>14. \A d \in Counters : counter'[d].phase # "free" => counter'[d].sub \in Subs
    BY <1>1, <2>5, <2>6, <2>7 DEF CodeInv
  <2> QED
    BY <2>4, <2>6, <2>11, <2>13, <2>14 DEF CodeInv
<1>3. CASE ~CodeFree(c)
  BY <1>1, <1>3, CounterFreed DEF ClearCode
<1> QED
  BY <1>2, <1>3

\* A code about to be redeemed was not redeemed before.
LEMMA FirstUse ==
  ASSUME NEW f \in [1..MaxCodes -> Nat], NEW k \in 1..MaxCodes, f[k] = 0
  PROVE  /\ [f EXCEPT ![k] = @ + 1] \in [1..MaxCodes -> Nat]
         /\ [f EXCEPT ![k] = @ + 1][k] = 1
         /\ \A j \in 1..MaxCodes \ {k} : [f EXCEPT ![k] = @ + 1][j] = f[j]
  OBVIOUS

\* A redemption uses the code its counter holds, which is thereby no longer held.
LEMMA RedeemKeepsCodeInv ==
  ASSUME CodeInv, NEW c \in Counters, Redeem(c)
  PROVE  CodeInv'
<1> DEFINE m == counter[c].member
           k0 == counter[c].code
           uses == [customer[m].uses EXCEPT ![k0] = @ + 1]
           x == [customer[m] EXCEPT !.uses = uses]
<1>1. /\ counter[c].phase = "spend" /\ m \in Members /\ k0 \in 0..MaxCodes
      /\ customer[m] \in Customer /\ counter' = [counter EXCEPT ![c] = Free]
  BY DEF Redeem, CodeInv, Request
<1>2. CASE customer' = customer
  BY <1>1, <1>2, CounterFreed
<1>3. CASE customer' # customer
  <2>1. k0 # 0 /\ customer' = [customer EXCEPT ![m].uses[k0] = @ + 1]
    BY <1>3 DEF Redeem
  <2>2. k0 \in 1..MaxCodes /\ customer[m].uses[k0] \in Nat
    BY <1>1, <2>1, CodesAreNatural DEF Customer
  <2>3. Holds(c, m, k0)
    BY <1>1 DEF Holds
  <2>4. /\ customer[m].uses[k0] = 0 /\ \A d \in Counters \ {c} : ~Holds(d, m, k0)
        /\ ~Unspent(m, k0)
    BY <1>1, <2>2, <2>3 DEF CodeInv, Codes, Fresh
  <2>5. /\ uses \in [1..MaxCodes -> Nat] /\ uses[k0] = 1
        /\ \A k \in 1..MaxCodes \ {k0} : uses[k] = customer[m].uses[k]
    <3>1. customer[m].uses \in [1..MaxCodes -> Nat]
      BY <1>1 DEF Customer
    <3> QED
      BY <2>2, <2>4, <3>1, FirstUse
  <2>6. customer' = [customer EXCEPT ![m] = x]
    BY <1>1, <2>1 DEF CodeInv, Customer
  <2> HIDE DEF uses
  <2>7. /\ x \in Customer /\ x.uses = uses /\ x.code = customer[m].code /\ x.live = customer[m].live
    BY <1>1, <2>5 DEF Customer
  <2> HIDE DEF x
  <2>8. /\ customer' \in [Members -> Customer] /\ customer'[m] = x
        /\ \A n \in Members \ {m} : customer'[n] = customer[n]
    BY <1>1, <2>6, <2>7 DEF CodeInv
  <2>9. Free \in Request /\ Free.phase = "free"
    BY LifecycleAssumption, CodesAreNatural DEF Free, Request
  <2>10. /\ counter' \in [Counters -> Request] /\ counter'[c].phase = "free"
         /\ \A d \in Counters \ {c} : counter'[d] = counter[d]
    BY <1>1, <2>9 DEF CodeInv
  <2>11. \A d \in Counters, n \in Members, k \in 1..MaxCodes :
           Holds(d, n, k)' => Holds(d, n, k) /\ d # c
    BY <2>10 DEF Holds
  <2>12. \A n \in Members, k \in 1..MaxCodes : Unspent(n, k)' <=> Unspent(n, k)
    BY <2>7, <2>8 DEF Unspent
  <2>13. \A n \in Members : customer'[n].live = customer[n].live /\ customer'[n].code = customer[n].code
    BY <2>7, <2>8
  <2>14. ASSUME NEW n \in Members, NEW k \in 1..MaxCodes
         PROVE  /\ customer'[n].uses[k] <= 1
                /\ Unspent(n, k)' => Fresh(n, k)'
                /\ \A d \in Counters : Holds(d, n, k)' =>
                     customer'[n].uses[k] = 0 /\ \A e \in Counters \ {d} : ~Holds(e, n, k)'
    <3>1. /\ customer[n].uses[k] <= 1
          /\ Unspent(n, k) => Fresh(n, k)
          /\ \A d \in Counters : Holds(d, n, k) =>
               customer[n].uses[k] = 0 /\ \A e \in Counters \ {d} : ~Holds(e, n, k)
      BY DEF CodeInv, Codes
    <3>2. CASE n = m /\ k = k0
      <4>1. customer'[n].uses[k] = 1
        BY <2>5, <2>7, <2>8, <3>2
      <4>2. ~Unspent(n, k)'
        BY <2>4, <2>12, <3>2
      <4>3. \A d \in Counters : ~Holds(d, n, k)'
        BY <2>4, <2>11, <3>2
      <4> QED
        BY <3>2, <4>1, <4>2, <4>3
    <3>3. CASE ~(n = m /\ k = k0)
      <4>1. customer'[n].uses[k] = customer[n].uses[k]
        BY <2>5, <2>7, <2>8, <3>3
      <4>2. Fresh(n, k) => Fresh(n, k)'
        BY <2>11, <4>1 DEF Fresh
      <4> QED
        BY <2>11, <2>12, <3>1, <4>1, <4>2
    <3> QED
      BY <3>2, <3>3
  <2>15. Codes'
    BY <2>13, <2>14 DEF Codes, CodeInv
  <2>16. Verified'
    <3>1. \A d \in Counters : counter[d].member \in Members
      BY DEF CodeInv, Request
    <3> QED
      BY <2>10, <2>13, <3>1 DEF Verified, CodeInv
  <2>17. \A d \in Counters : counter'[d].phase # "free" => counter'[d].sub \in Subs
    BY <2>10 DEF CodeInv
  <2> QED
    BY <2>8, <2>10, <2>15, <2>16, <2>17 DEF CodeInv
<1> QED
  BY <1>2, <1>3

\* The other steps leave the customers' codes as they are.
LEMMA RestKeepsCodeInv ==
  ASSUME CodeInv, UNCHANGED <<customer, counter>>
  PROVE  CodeInv'
  BY DEF CodeInv, Codes, Verified, Unspent, Fresh, Holds

-----------------------------------------------------------------------------
\* Every action keeps both halves of the invariant.
LEMMA StepKeepsLifeInv == LifeInv /\ [LifeNext]_lifeVars => LifeInv'
<1> SUFFICES ASSUME LifeInv, [LifeNext]_lifeVars PROVE LifeInv'
  OBVIOUS
<1>0. DocInv /\ CodeInv
  BY DEF LifeInv
<1>1. ASSUME NEW s \in Subs, CreateSubscription(s) PROVE LifeInv'
  BY <1>0, <1>1, CreateKeepsDocInv, RestKeepsCodeInv DEF LifeInv, CreateSubscription
<1>2. ASSUME NEW s \in Subs, RenewSubscription(s) PROVE LifeInv'
  BY <1>0, <1>2, RenewKeepsDocInv, RestKeepsCodeInv DEF LifeInv, RenewSubscription
<1>3. ASSUME NEW s \in Subs, Settle(s) PROVE LifeInv'
  BY <1>0, <1>3, SettleKeepsDocInv, RestKeepsCodeInv DEF LifeInv, Settle
<1>4. ASSUME NEW s \in Subs, Unsettle(s) PROVE LifeInv'
  BY <1>0, <1>4, UnsettleKeepsDocInv, RestKeepsCodeInv DEF LifeInv, Unsettle
<1>5. ASSUME NEW s \in Subs, EndDatePasses(s) PROVE LifeInv'
  BY <1>0, <1>5, EndDateKeepsDocInv, RestKeepsCodeInv DEF LifeInv, EndDatePasses
<1>6. ASSUME NEW s \in Subs, UpdateSubscription(s) PROVE LifeInv'
  BY <1>0, <1>6, UpdateKeepsDocInv, RestKeepsCodeInv DEF LifeInv, UpdateSubscription
<1>7. ASSUME NEW s \in Subs, ReadEnded(s) PROVE LifeInv'
  BY <1>0, <1>7, ReadEndedKeepsDocInv, RestKeepsCodeInv DEF LifeInv, ReadEnded
<1>8. ASSUME NEW s \in Subs, ReadForCancellation(s) PROVE LifeInv'
  BY <1>0, <1>8, ReadForCancellationKeepsDocInv, RestKeepsCodeInv DEF LifeInv, ReadForCancellation
<1>9. CASE CheckAndUpdateExpiry
  BY <1>0, <1>9, ExpiryKeepsDocInv, RestKeepsCodeInv DEF LifeInv, CheckAndUpdateExpiry
<1>10. CASE CancelSubscription
  BY <1>0, <1>10, CancelKeepsDocInv, RestKeepsCodeInv DEF LifeInv, CancelSubscription
<1>11. ASSUME NEW s \in Subs, NEW m \in Members, SendRedemptionOTP(s, m) PROVE LifeInv'
  BY <1>0, <1>11, RestKeepsDocInv, SendKeepsCodeInv DEF LifeInv, SendRedemptionOTP
<1>12. ASSUME NEW s \in Subs, NEW m \in Members, WrongCode(s, m) PROVE LifeInv'
  BY <1>0, <1>12, RestKeepsDocInv, WrongKeepsCodeInv DEF LifeInv, WrongCode
<1>13. ASSUME NEW s \in Subs, NEW m \in Members, NEW c \in Counters, NEW b \in BOOLEAN,
              BeginRedemption(c, s, m, b)
       PROVE  LifeInv'
  BY <1>0, <1>13, RestKeepsDocInv, BeginKeepsCodeInv DEF LifeInv, BeginRedemption
<1>14. ASSUME NEW m \in Members, CodeExpires(m) PROVE LifeInv'
  BY <1>0, <1>14, RestKeepsDocInv, ExpireKeepsCodeInv DEF LifeInv, CodeExpires
<1>15. ASSUME NEW c \in Counters, ClearCode(c) PROVE LifeInv'
  BY <1>0, <1>15, RestKeepsDocInv, ClearKeepsCodeInv DEF LifeInv, ClearCode
<1>16. ASSUME NEW c \in Counters, Redeem(c) PROVE LifeInv'
  BY <1>0, <1>16, RedeemKeepsDocInv, RedeemKeepsCodeInv DEF LifeInv
<1>17. CASE UNCHANGED lifeVars
  BY <1>0, <1>17, RestKeepsDocInv, RestKeepsCodeInv DEF LifeInv, lifeVars
<1> QED
  BY <1>1, <1>2, <1>3, <1>4, <1>5, <1>6, <1>7, <1>8, <1>9, <1>10, <1>11, <1>12, <1>13, <1>14,
     <1>15, <1>16, <1>17 DEF LifeNext

\* What the invariant says of the properties.
LEMMA LifeInvImplies ==
  LifeInv => LifeTypeOK /\ NeverOverdrawn /\ OthersAreExact /\ CodeRedeemsOnce /\ ExhaustedIsSpent
<1> SUFFICES ASSUME LifeInv
             PROVE  LifeTypeOK /\ NeverOverdrawn /\ OthersAreExact /\ CodeRedeemsOnce /\ ExhaustedIsSpent
  OBVIOUS
<1>1. ASSUME NEW s \in Subs
      PROVE  sub[s] \in Doc /\ Books(sub[s], usages[s])
  BY DEF LifeInv, DocInv
<1>2. NeverOverdrawn
  BY <1>1 DEF NeverOverdrawn, Books
<1>3. OthersAreExact
  BY <1>1 DEF OthersAreExact, Books, Others
<1>4. ExhaustedIsSpent
  BY <1>1 DEF ExhaustedIsSpent, Books, Others
<1>5. CodeRedeemsOnce
  BY DEF CodeRedeemsOnce, LifeInv, CodeInv, Codes
<1>6. LifeTypeOK
  <2>1. ASSUME NEW s \in Subs
        PROVE  /\ sub[s].status \in Statuses /\ sub[s].root \in Int
               /\ \A m \in Members : sub[s].member[m] \in MemberStatuses
    BY <1>1 DEF Doc
  <2>2. ASSUME NEW s \in Subs, NEW m \in Members
        PROVE  sub[s].left[m] \in 0..Allotment[m]
    BY <1>1, PayerIsMember DEF Books, Doc
  <2>3. \A m \in Members : customer[m].attempts \in 0..CodeAttempts
    BY DEF LifeInv, CodeInv, Customer
  <2>4. \A c \in Counters : counter[c].phase \in {"free", "verified", "spend"}
    BY DEF LifeInv, CodeInv, Request
  <2>5. office.phase \in {"free", "expire", "cancel"}
    BY DEF LifeInv, DocInv, OfficeSound, OfficeShape
  <2> QED
    BY <2>1, <2>2, <2>3, <2>4, <2>5 DEF LifeTypeOK, Statuses, MemberStatuses
<1> QED
  BY <1>2, <1>3, <1>4, <1>5, <1>6

\* LifeInv holds of every reachable state of a subscription shared by any
\* members with any allotments, redeemed at any number of counters.
THEOREM LifeInvariant == LifeSpec => []LifeInv
<1>1. LifeInit => LifeInv
  BY InitDocInv, InitCodeInv DEF LifeInv
<1> QED
  BY <1>1, StepKeepsLifeInv, PTL DEF LifeSpec

\* Documents, codes and requests keep their types; in particular no balance is
\* ever negative or above what was sold.
THEOREM LifeTypeCorrect == LifeSpec => []LifeTypeOK
  BY LifeInvariant, LifeInvImplies, PTL

\* No member ever redeems more than was sold to them, although saves from stale
\* copies, the hook and reopened subscriptions rewrite balances.
THEOREM NobodyOverdraws == LifeSpec => []NeverOverdrawn
  BY LifeInvariant, LifeInvImplies, PTL

\* Members other than the payer have exactly what they have not redeemed.
THEOREM OthersKeepTheirOwn == LifeSpec => []OthersAreExact
  BY LifeInvariant, LifeInvImplies, PTL

\* A code redeems at most once, at however many counters it is entered.
THEOREM CodesAreSingleUse == LifeSpec => []CodeRedeemsOnce
  BY LifeInvariant, LifeInvImplies, PTL

\* A member other than the payer is closed as exhausted only after redeeming
\* the whole allotment.
THEOREM ExhaustionIsEarned == LifeSpec => []ExhaustedIsSpent
  BY LifeInvariant, LifeInvImplies, PTL
=============================================================================
