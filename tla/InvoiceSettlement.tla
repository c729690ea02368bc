--------------------------- MODULE InvoiceSettlement ---------------------------
(***************************************************************************)
(* The life of the invoices of one sale (a subscription, or an             *)
(* appointment) with the payments, points and subscription that follow     *)
(* them: billing.service.js from the draft on, with the steps of           *)
(* loyalty.service.js it calls.                                            *)
(*                                                                         *)
(* A handler is a program: a sequence of steps, each the work between two  *)
(* awaits.  On a replica set executeTransaction makes the program one step *)
(* that a write conflict or an error leaves without effect.  With          *)
(* ALLOW_STANDALONE_TRANSACTION_FALLBACK the steps of concurrent requests  *)
(* interleave, and an error or a crash keeps the prefix already written.   *)
(***************************************************************************)
EXTENDS LoyaltyAccount, SequencesExt, FiniteSets

CONSTANTS
  Invoices, Keys,
  Payments,                   \* ids of payment documents: numbers, used in order
  NoKey, NoInvoice,
  Payable,                    \* payableAmount of every invoice of the sale
  RedeemChoices,              \* points a draft may redeem
  EarnPoints,                 \* points the invoice's lines earn
  InitialPoints,
  Requests,                   \* slots 1..n for the requests that interleave
  Interleaved,                \* the kinds of them, and their invoices
  Idle, Done                  \* a request not started, and one that ended

ASSUME SettlementAssumption ==
  /\ Payable \in Nat \ {0} /\ EarnPoints \in Nat /\ InitialPoints \in Nat
  /\ RedeemChoices \subseteq Nat
  /\ Payments \subseteq Nat /\ IsFiniteSet(Payments)
  /\ Requests \subseteq Nat /\ IsFiniteSet(Requests)

VARIABLES
  atomically,   \* whether the database has transactions: fixed at start
  sale,         \* the documents: invoices, payments, subscription, config flag
  account,      \* the customer's points
  active        \* requests under way, in the standalone mode

settleVars == <<atomically, sale, account, active>>

InvoiceStatus == {"none", "draft", "finalized", "cancelled"}
SaleStatus == {"none", "pending_payment", "active", "exhausted", "expired", "cancelled"}

NewInvoice ==
  [status |-> "none", paid |-> 0, due |-> Payable, payment |-> "unpaid",
   redeem |-> 0, version |-> 0]
NewPayment == [status |-> "none", invoice |-> NoInvoice, amount |-> 0, key |-> NoKey]

DerivePaymentStatus(paid, due) ==
  IF due = 0 THEN "paid" ELSE IF paid > 0 THEN "partially_paid" ELSE "unpaid"

-----------------------------------------------------------------------------
(* Working state of a handler: the database as it sees it, the request, the *)
(* copies it has read, and whether it goes on.                              *)

\* What a request remembers from one step to the next.
Kept(w) ==
  [request |-> w.request, doc |-> w.doc, customer |-> w.customer, settled |-> w.settled]

\* It goes on from there with the database as it is now.
Resumed(kept) ==
  [sale |-> sale, account |-> account, request |-> kept.request, doc |-> kept.doc,
   customer |-> kept.customer, settled |-> kept.settled, ok |-> TRUE]

Work(request) ==
  Resumed([request |-> request, doc |-> NewInvoice, customer |-> account, settled |-> FALSE])

Stop(w) == [w EXCEPT !.ok = FALSE]
Inv(w) == w.sale.invoices[w.request.invoice]
Pay(w) == w.sale.payments[w.request.payment]

\* save(): the fields changed are written under the version of the copy; a copy
\* with nothing changed is not written at all.
SaveInvoice(w, new) ==
  IF new = w.doc THEN w
  ELSE IF Inv(w).version # w.doc.version THEN Stop(w)
  ELSE LET merged == [Inv(w) EXCEPT !.status = IF new.status = w.doc.status THEN @ ELSE new.status,
                                    !.payment = new.payment, !.version = @ + 1]
       IN  [w EXCEPT !.sale.invoices[w.request.invoice] = merged,
                     !.doc = [new EXCEPT !.version = @ + 1]]

LoadWhere(w, condition) == IF condition THEN [w EXCEPT !.doc = Inv(w)] ELSE Stop(w)

\* customer.save() under the version read.
SaveAccount(w, new) ==
  IF w.account.version # w.customer.version THEN Stop(w)
  ELSE [w EXCEPT !.account = [new EXCEPT !.ledger = w.account.ledger], !.customer = new]

\* A ledger entry; a duplicate key is an error.
EnterDelta(w, key, delta) ==
  IF Recorded(w.account, key) THEN Stop(w)
  ELSE [w EXCEPT !.account = Entered(w.account, key, delta)]

\* Finalization: commit the redemption, then freeze the invoice.
LoadDraft(w) == LoadWhere(w, Inv(w).status = "draft")

RedeemPoints(w) ==
  LET n == w.doc.redeem
  IN  IF n = 0 \/ Recorded(w.account, RedeemKey(w.request.invoice)) THEN w
      ELSE IF CanSpend(w.account, n) THEN [w EXCEPT !.account = Spent(@, n)]
      ELSE Stop(w)

RedeemEntry(w) ==
  IF w.doc.redeem = 0 \/ Recorded(w.account, RedeemKey(w.request.invoice)) THEN w
  ELSE EnterDelta(w, RedeemKey(w.request.invoice), -w.doc.redeem)

SaveFinalized(w) ==
  SaveInvoice(w, [w.doc EXCEPT !.status = "finalized",
                               !.payment = DerivePaymentStatus(w.doc.paid, w.doc.due)])

\* Mutant of LoadCancellable: payments are not looked at.
LoadUncancelled(w) == LoadWhere(w, Inv(w).status \in {"draft", "finalized"})

\* Cancellation: give the redeemed points back, then cancel.
LoadCancellable(w) == LoadWhere(w, Inv(w).status \in {"draft", "finalized"} /\ Inv(w).paid = 0)

ToRestore(w) ==
  /\ w.doc.redeem > 0
  /\ Recorded(w.account, RedeemKey(w.request.invoice))
  /\ ~Recorded(w.account, RestoreKey(w.request.invoice))

RestorePoints(w) ==
  IF ToRestore(w) THEN [w EXCEPT !.account = Credited(@, w.doc.redeem)] ELSE w

RestoreEntry(w) ==
  IF ToRestore(w) THEN EnterDelta(w, RestoreKey(w.request.invoice), w.doc.redeem) ELSE w

SaveCancelled(w) == SaveInvoice(w, [w.doc EXCEPT !.status = "cancelled"])

KeyKnown(w) ==
  w.request.key # NoKey /\ \E p \in Payments : w.sale.payments[p].key = w.request.key

\* Payment.  A known key is a replay, which writes nothing.
LoadPayable(w) ==
  LoadWhere(w, /\ ~KeyKnown(w)
               /\ Inv(w).status = "finalized"
               /\ w.request.amount <= Inv(w).due)

\* A $inc of both sides of the invoice, and the document it answers with.
Charged(w, amount) ==
  LET invoice == [Inv(w) EXCEPT !.paid = @ + amount, !.due = @ - amount]
  IN  [w EXCEPT !.sale.invoices[w.request.invoice] = invoice, !.doc = invoice]

\* Mutant of TakePayment: the filter on amountDue is left out.
TakeUnguarded(w) == Charged(w, w.request.amount)

\* findOneAndUpdate on { finalized, amountDue >= amount }: the version stays.
TakePayment(w) ==
  IF Inv(w).status = "finalized" /\ Inv(w).due >= w.request.amount
    THEN Charged(w, w.request.amount)
    ELSE Stop(w)

SaveStatus(w) == SaveInvoice(w, [w.doc EXCEPT !.payment = DerivePaymentStatus(w.doc.paid, w.doc.due)])

\* The unique index on idempotencyKey refuses a second payment under one key.
SavePayment(w) ==
  LET unused == {p \in Payments : w.sale.payments[p].status = "none"}
      saved == [status |-> "completed", invoice |-> w.request.invoice,
                amount |-> w.request.amount, key |-> w.request.key]
  IN  IF unused = {} \/ KeyKnown(w)
        THEN Stop(w)
        ELSE [w EXCEPT !.sale.payments[Min(unused)] = saved,
                       !.settled = (w.doc.payment = "paid")]

\* Award and activation follow only a payment that settles the invoice.
Earns(w) == /\ w.settled /\ w.sale.loyaltyEnabled /\ EarnPoints > 0
            /\ ~Recorded(w.account, EarnKey(w.request.invoice))

ReadAccount(w) == [w EXCEPT !.customer = w.account]
AwardPoints(w) == IF Earns(w) THEN SaveAccount(w, Awarded(w.customer, EarnPoints)) ELSE w
AwardEntry(w) ==
  IF Earns(w) THEN EnterDelta(w, EarnKey(w.request.invoice), EarnPoints) ELSE w

Activate(w) ==
  IF w.settled /\ w.sale.subscription = "pending_payment"
    THEN [w EXCEPT !.sale.subscription = "active"]
    ELSE w

\* Void.
LoadPayment(w) ==
  IF Pay(w).status = "completed"
    THEN [w EXCEPT !.request.invoice = Pay(w).invoice,
                   !.settled = w.sale.invoices[Pay(w).invoice].payment = "paid"]
    ELSE Stop(w)

VoidPayment(w) ==
  IF Pay(w).status = "completed"
    THEN [w EXCEPT !.sale.payments[w.request.payment].status = "voided"]
    ELSE Stop(w)

ReturnAmount(w) == Charged(w, -Pay(w).amount)

\* Mutant of Unsettled: only a payment that leaves nothing paid counts.
UnsettledWholly(w) == w.settled /\ w.doc.payment = "unpaid"

\* The invoice was paid when the handler read it, and is not any more.
Unsettled(w) == w.settled /\ w.doc.payment # "paid"

Reverses(w) ==
  /\ Unsettled(w)
  /\ Recorded(w.account, EarnKey(w.request.invoice))
  /\ ~Recorded(w.account, ReverseKey(w.request.payment))

ReversePoints(w) == IF Reverses(w) THEN SaveAccount(w, Reversed(w.customer, EarnPoints)) ELSE w
ReverseEntry(w) ==
  IF Reverses(w) THEN EnterDelta(w, ReverseKey(w.request.payment), -EarnPoints) ELSE w

\* Mutant of Deactivate: a cancelled subscription is not excepted.
DeactivateAny(w) ==
  IF Unsettled(w) /\ w.sale.subscription # "none"
    THEN [w EXCEPT !.sale.subscription = "pending_payment"]
    ELSE w

Deactivate(w) ==
  IF Unsettled(w) /\ w.sale.subscription \notin {"none", "cancelled"}
    THEN [w EXCEPT !.sale.subscription = "pending_payment"]
    ELSE w

\* cancelSubscription: the subscription, of which nothing may be used, and the
\* invoice found for it (of several, any) when it is a draft or unpaid.
CancelSale(w) ==
  IF w.sale.subscription \in {"none", "cancelled"} \/ w.sale.consumed THEN Stop(w)
  ELSE [w EXCEPT !.sale.subscription = "cancelled"]

CancelUnpaid(w) ==
  IF Inv(w).status = "draft" \/ (Inv(w).status # "none" /\ Inv(w).payment = "unpaid")
    THEN SaveInvoice([w EXCEPT !.doc = Inv(w)], [Inv(w) EXCEPT !.status = "cancelled"])
    ELSE w

-----------------------------------------------------------------------------
(* Programs *)

Program ==
  [finalize |-> <<"LoadDraft", "RedeemPoints", "RedeemEntry", "SaveFinalized">>,
   cancel |-> <<"LoadCancellable", "RestorePoints", "RestoreEntry", "SaveCancelled">>,
   pay |-> <<"LoadPayable", "TakePayment", "SaveStatus", "SavePayment", "ReadAccount",
             "AwardPoints", "AwardEntry", "Activate">>,
   void |-> <<"LoadPayment", "VoidPayment", "ReturnAmount", "SaveStatus", "ReadAccount",
              "ReversePoints", "ReverseEntry", "Deactivate">>,
   cancelSale |-> <<"CancelSale", "CancelUnpaid">>]

Do(step, w) ==
  CASE step = "LoadDraft" -> LoadDraft(w)
    [] step = "RedeemPoints" -> RedeemPoints(w)
    [] step = "RedeemEntry" -> RedeemEntry(w)
    [] step = "SaveFinalized" -> SaveFinalized(w)
    [] step = "LoadCancellable" -> LoadCancellable(w)
    [] step = "RestorePoints" -> RestorePoints(w)
    [] step = "RestoreEntry" -> RestoreEntry(w)
    [] step = "SaveCancelled" -> SaveCancelled(w)
    [] step = "LoadPayable" -> LoadPayable(w)
    [] step = "TakePayment" -> TakePayment(w)
    [] step = "SaveStatus" -> SaveStatus(w)
    [] step = "SavePayment" -> SavePayment(w)
    [] step = "ReadAccount" -> ReadAccount(w)
    [] step = "AwardPoints" -> AwardPoints(w)
    [] step = "AwardEntry" -> AwardEntry(w)
    [] step = "Activate" -> Activate(w)
    [] step = "LoadPayment" -> LoadPayment(w)
    [] step = "VoidPayment" -> VoidPayment(w)
    [] step = "ReturnAmount" -> ReturnAmount(w)
    [] step = "ReversePoints" -> ReversePoints(w)
    [] step = "ReverseEntry" -> ReverseEntry(w)
    [] step = "Deactivate" -> Deactivate(w)
    [] step = "CancelSale" -> CancelSale(w)
    [] step = "CancelUnpaid" -> CancelUnpaid(w)

Then(w, step) == IF w.ok THEN Do(step, w) ELSE w
Run(w, steps) == FoldLeft(Then, w, steps)

Submitted ==
  [kind : {"finalize", "cancel", "cancelSale"}, invoice : Invoices]
  \cup [kind : {"pay"}, invoice : Invoices, amount : 1..Payable, key : Keys \cup {NoKey}]
  \cup [kind : {"void"}, invoice : {NoInvoice}, payment : Payments]

-----------------------------------------------------------------------------
SettleInit ==
  /\ atomically \in BOOLEAN
  /\ \E s \in {"none", "pending_payment"} :
       sale = [invoices |-> [i \in Invoices |-> NewInvoice],
               payments |-> [p \in Payments |-> NewPayment],
               subscription |-> s, consumed |-> FALSE, loyaltyEnabled |-> TRUE]
  /\ account = [points |-> InitialPoints, debt |-> 0, version |-> 0, ledger |-> {}]
  /\ active = [q \in Requests |-> Idle]

\* The partial unique index: one draft or finalized invoice per sale.
Unbilled == \A i \in Invoices : sale.invoices[i].status \in {"none", "cancelled"}

\* createInvoiceFromAppointment, createInvoiceForSubscriptionSale.
CreateInvoice(i, redeem) ==
  /\ sale.invoices[i].status = "none"
  /\ atomically \/ i \in Interleaved.invoices   \* bound of the standalone mode
  /\ Unbilled
  /\ redeem <= account.points
  /\ sale' = [sale EXCEPT !.invoices[i] = [NewInvoice EXCEPT !.status = "draft",
                                                             !.redeem = redeem]]
  /\ UNCHANGED <<atomically, account, active>>

\* Versions matter to the copies requests hold: with none under way, they restart.
Unversioned(documents) ==
  [documents EXCEPT !.invoices = [i \in Invoices |-> [@[i] EXCEPT !.version = 0]]]

\* A transaction that commits; or, without transactions, a request nobody disturbs.
Transact(r) ==
  /\ \A q \in Requests : active[q] \in {Idle, Done}
  /\ LET w == Run(Work(r), Program[r.kind])
     IN  /\ w.ok
         /\ sale' = Unversioned(w.sale)
         /\ account' = [w.account EXCEPT !.version = 0]
  /\ UNCHANGED <<atomically, active>>

\* Standalone: a request starts, advances by a step, or ends with a crash.  Each
\* slot serves one request: Requests bounds how many are interleaved.
Start(q, r) ==
  /\ ~atomically
  /\ active[q] = Idle
  /\ \A earlier \in Requests : earlier < q => active[earlier] # Idle
  /\ r.kind \in Interleaved.kinds /\ r.invoice \in Interleaved.invoices \cup {NoInvoice}
  /\ active' = [active EXCEPT ![q] = [at |-> 1, work |-> Kept(Work(r))]]
  /\ UNCHANGED <<atomically, sale, account>>

Advance(q) ==
  /\ active[q] \notin {Idle, Done}
  /\ LET steps == Program[active[q].work.request.kind]
         at == active[q].at
         w == Do(steps[at], Resumed(active[q].work))
     IN  /\ sale' = IF w.ok THEN w.sale ELSE sale
         /\ account' = IF w.ok THEN w.account ELSE account
         /\ active' = [active EXCEPT ![q] = IF w.ok /\ at < Len(steps)
                                              THEN [at |-> at + 1, work |-> Kept(w)]
                                              ELSE Done]
  /\ UNCHANGED atomically

Crash(q) ==
  /\ active[q] \notin {Idle, Done}
  /\ active' = [active EXCEPT ![q] = Done]
  /\ UNCHANGED <<atomically, sale, account>>

\* adjustCustomerPoints and updateConfig insist on a transaction.
AdjustPoints(key, delta) ==
  /\ atomically
  /\ ~Recorded(account, AdjustKey(key))
  /\ delta >= 0 \/ CanSpend(account, -delta)
  /\ account' = Entered(IF delta < 0 THEN Spent(account, -delta) ELSE Credited(account, delta),
                        AdjustKey(key), delta)
  /\ UNCHANGED <<atomically, sale, active>>

UpdateConfig ==
  /\ atomically
  /\ sale' = [sale EXCEPT !.loyaltyEnabled = ~@]
  /\ UNCHANGED <<atomically, account, active>>

\* Redemption exhausts, or checkAndUpdateExpiry expires, an open subscription.
CloseSale(status) ==
  /\ sale.subscription \in {"active", "pending_payment"}
  /\ sale' = [sale EXCEPT !.subscription = status, !.consumed = @ \/ status = "exhausted"]
  /\ UNCHANGED <<atomically, account, active>>

SettleNext ==
  \/ \E i \in Invoices, n \in RedeemChoices : CreateInvoice(i, n)
  \/ \E r \in Submitted : Transact(r)
  \/ \E q \in Requests, r \in Submitted : Start(q, r)
  \/ \E q \in Requests : Advance(q) \/ Crash(q)
  \/ \E key \in Keys, delta \in {-1, 1} : AdjustPoints(key, delta)
  \/ UpdateConfig
  \/ \E status \in {"exhausted", "expired"} : CloseSale(status)

SettleSpec == SettleInit /\ [][SettleNext]_settleVars

-----------------------------------------------------------------------------
(* Properties *)

PaymentsOf(i, status) ==
  {p \in Payments : sale.payments[p].invoice = i /\ sale.payments[p].status = status}
CollectedFor(i) ==
  SumFunctionOnSet([p \in Payments |-> sale.payments[p].amount], PaymentsOf(i, "completed"))

SettleTypeOK ==
  /\ \A i \in Invoices :
       /\ sale.invoices[i].status \in InvoiceStatus
       /\ sale.invoices[i].payment \in {"unpaid", "partially_paid", "paid"}
  /\ \A p \in Payments : sale.payments[p].status \in {"none", "completed", "voided"}
  /\ sale.subscription \in SaleStatus
  /\ account.points \in Nat /\ account.debt \in Nat

\* Money is never made or lost, in either mode, wherever a request stops: what an
\* invoice shows as paid and due adds up to its payable, neither is negative, and
\* every payment document that counts is covered by amountPaid.  With
\* transactions the documents account for all of it.
MoneyAccounted ==
  \A i \in Invoices :
    /\ sale.invoices[i].paid + sale.invoices[i].due = Payable
    /\ sale.invoices[i].due \in 0..Payable
    /\ CollectedFor(i) <= sale.invoices[i].paid
    /\ atomically => CollectedFor(i) = sale.invoices[i].paid

\* With transactions, the ledger explains the customer's standing to the point:
\* the balance less the debt is the initial balance plus every recorded delta.
PointsAccounted ==
  atomically => account.points - account.debt = InitialPoints + LedgerTotal(account)

\* With transactions, a subscription sold here is active only while an invoice of
\* its sale is settled: voiding the settling payment closes it, paying again
\* opens it, and nothing else does.
ActiveIsPaid ==
  atomically /\ sale.subscription = "active" =>
    \E i \in Invoices : /\ sale.invoices[i].status = "finalized"
                        /\ sale.invoices[i].payment = "paid"

\* A cancelled subscription stays cancelled, whatever is paid or voided on the
\* invoices of its sale afterwards.
CancelledIsFinal ==
  [][sale.subscription = "cancelled" => sale'.subscription = "cancelled"]_settleVars

\* With transactions, a cancelled invoice keeps neither money nor points, unless
\* the cancellation of its subscription took it along.
CancelledKeepsNothing ==
  \A i \in Invoices :
    atomically /\ sale.invoices[i].status = "cancelled" =>
      /\ CollectedFor(i) = 0
      /\ \/ Recorded(account, RedeemKey(i)) => Recorded(account, RestoreKey(i))
         \/ sale.subscription = "cancelled"

ReversalsOf(i) ==
  {p \in Payments : sale.payments[p].invoice = i /\ Recorded(account, ReverseKey(p))}

\* "Reverse points earned on an invoice when the settling payment is voided": an
\* invoice never takes back more points than it gave.
NeverTakesMoreThanGave ==
  \A i \in Invoices :
    Cardinality(ReversalsOf(i)) <= IF Recorded(account, EarnKey(i)) THEN 1 ELSE 0
=============================================================================
