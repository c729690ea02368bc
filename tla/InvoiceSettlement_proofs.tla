------------------------ MODULE InvoiceSettlement_proofs ------------------------
(***************************************************************************)
(* Proofs about InvoiceSettlement, for any invoices, payments, amounts and *)
(* requests, in either mode.                                               *)
(*                                                                         *)
(* BooksInv is about money.  Between two steps of a request an invoice may *)
(* show more than its payment documents: what the request has taken and    *)
(* not yet saved, or voided and not yet returned.  Such a request holds    *)
(* that amount, the invoice covers all that is held, and every step of     *)
(* every program keeps it so.  A program run as a transaction is a fold of *)
(* the same steps, so it keeps the books by induction on its length.       *)
(*                                                                         *)
(* StandingInv is about the mode with transactions, where nobody writes    *)
(* between the steps: what each program does as a whole is worked out      *)
(* first (FinalizeRun, CancelRun, PayRun, VoidRun, CancelSaleRun), then    *)
(* what that does to points, subscription and invoices.                    *)
(***************************************************************************)
EXTENDS InvoiceSettlement, FoldTheorems

\* The documents, the customer, the requests and the working states of a handler.
PaymentStates == {"unpaid", "partially_paid", "paid"}

InvoiceDocs ==
  [status : InvoiceStatus, paid : Int, due : Int, payment : PaymentStates,
   redeem : Nat, version : Nat]
PaymentDocs ==
  [status : {"none", "completed", "voided"}, invoice : Invoices \cup {NoInvoice},
   amount : Nat, key : Keys \cup {NoKey}]
SaleDocs ==
  [invoices : [Invoices -> InvoiceDocs], payments : [Payments -> PaymentDocs],
   subscription : SaleStatus, consumed : BOOLEAN, loyaltyEnabled : BOOLEAN]

EntryKeys ==
  {EarnKey(i) : i \in Invoices} \cup {RedeemKey(i) : i \in Invoices}
  \cup {RestoreKey(i) : i \in Invoices} \cup {ReverseKey(p) : p \in Payments}
  \cup {AdjustKey(key) : key \in Keys}
Ledgers == {L \in SUBSET [key : EntryKeys, delta : Int] : IsFiniteSet(L)}
Accounts == [points : Nat, debt : Nat, version : Nat, ledger : Ledgers]

RequestDocs ==
  [kind : {"finalize", "cancel", "cancelSale"}, invoice : Invoices]
  \cup [kind : {"pay"}, invoice : Invoices, amount : Nat, key : Keys \cup {NoKey}]
  \cup [kind : {"void"}, invoice : Invoices \cup {NoInvoice}, payment : Payments]

Works ==
  [sale : SaleDocs, account : Accounts, request : RequestDocs, doc : InvoiceDocs,
   customer : Accounts, settled : BOOLEAN, ok : BOOLEAN]

-----------------------------------------------------------------------------
(* The steps on the account.                                                *)

\* Points a balance has are taken off it.
LEMMA SpentAccount ==
  ASSUME NEW a \in Accounts, NEW n \in Nat, CanSpend(a, n)
  PROVE  /\ Spent(a, n) \in Accounts
         /\ Spent(a, n).ledger = a.ledger
         /\ Spent(a, n).points - Spent(a, n).debt = a.points - a.debt - n
<1>1. Spent(a, n) = [points |-> a.points - n, debt |-> a.debt, version |-> a.version,
                     ledger |-> a.ledger]
  BY DEF Accounts, Spent
<1>2. a.points \in Nat /\ a.debt \in Nat /\ a.points >= n
  BY DEF Accounts, CanSpend
<1> QED
  BY <1>1, <1>2 DEF Accounts

\* Points are added to the balance, whatever the debt.
LEMMA CreditedAccount ==
  ASSUME NEW a \in Accounts, NEW n \in Nat
  PROVE  /\ Credited(a, n) \in Accounts
         /\ Credited(a, n).ledger = a.ledger
         /\ Credited(a, n).points - Credited(a, n).debt = a.points - a.debt + n
<1>1. Credited(a, n) = [points |-> a.points + n, debt |-> a.debt, version |-> a.version,
                        ledger |-> a.ledger]
  BY DEF Accounts, Credited
<1>2. a.points \in Nat /\ a.debt \in Nat
  BY DEF Accounts
<1> QED
  BY <1>1, <1>2 DEF Accounts

\* An award raises the balance less the debt by what is awarded, however it splits.
LEMMA AwardedAccount ==
  ASSUME NEW a \in Accounts, NEW n \in Nat
  PROVE  /\ Awarded(a, n) \in Accounts
         /\ Awarded(a, n).ledger = a.ledger
         /\ Awarded(a, n).points - Awarded(a, n).debt = a.points - a.debt + n
<1> DEFINE p == IF n > a.debt THEN a.points + n - a.debt ELSE a.points
           d == IF n >= a.debt THEN 0 ELSE a.debt - n
<1>0. Awarded(a, n) = [a EXCEPT !.points = p, !.debt = d, !.version = a.version + 1]
  BY DEF Awarded
<1> HIDE DEF p, d
<1>1. Awarded(a, n) = [points |-> p, debt |-> d, version |-> a.version + 1, ledger |-> a.ledger]
  BY <1>0 DEF Accounts
<1>2. a.points \in Nat /\ a.debt \in Nat /\ a.version \in Nat /\ a.ledger \in Ledgers
  BY DEF Accounts
<1>3. p \in Nat /\ d \in Nat /\ p - d = a.points - a.debt + n
  BY <1>2 DEF p, d
<1> QED
  BY <1>1, <1>2, <1>3 DEF Accounts

\* A reversal lowers it by as much, however it splits.
LEMMA ReversedAccount ==
  ASSUME NEW a \in Accounts, NEW n \in Nat
  PROVE  /\ Reversed(a, n) \in Accounts
         /\ Reversed(a, n).ledger = a.ledger
         /\ Reversed(a, n).points - Reversed(a, n).debt = a.points - a.debt - n
<1> DEFINE p == IF a.points >= n THEN a.points - n ELSE 0
           d == IF a.points >= n THEN a.debt ELSE a.debt + n - a.points
<1>0. Reversed(a, n) = [a EXCEPT !.points = p, !.debt = d, !.version = a.version + 1]
  BY DEF Reversed
<1> HIDE DEF p, d
<1>1. Reversed(a, n) = [points |-> p, debt |-> d, version |-> a.version + 1, ledger |-> a.ledger]
  BY <1>0 DEF Accounts
<1>2. a.points \in Nat /\ a.debt \in Nat /\ a.version \in Nat /\ a.ledger \in Ledgers
  BY DEF Accounts
<1>3. p \in Nat /\ d \in Nat /\ p - d = a.points - a.debt - n
  BY <1>2 DEF p, d
<1> QED
  BY <1>1, <1>2, <1>3 DEF Accounts

\* An entry adds its key, and nothing else, to the ledger.
LEMMA EnteredAccount ==
  ASSUME NEW a \in Accounts, NEW key \in EntryKeys, NEW delta \in Int
  PROVE  /\ Entered(a, key, delta) \in Accounts
         /\ Entered(a, key, delta).points = a.points
         /\ Entered(a, key, delta).debt = a.debt
         /\ Entered(a, key, delta).ledger = a.ledger \cup {[key |-> key, delta |-> delta]}
         /\ \A other : Recorded(Entered(a, key, delta), other)
                         <=> Recorded(a, other) \/ other = key
<1> DEFINE entry == [key |-> key, delta |-> delta]
           grown == a.ledger \cup {entry}
<1>1. grown \in Ledgers
  <2>1. a.ledger \in SUBSET [key : EntryKeys, delta : Int] /\ IsFiniteSet(a.ledger)
    BY DEF Accounts, Ledgers
  <2>2. IsFiniteSet(grown)
    BY <2>1, FS_AddElement
  <2>3. entry \in [key : EntryKeys, delta : Int]
    OBVIOUS
  <2> QED
    BY <2>1, <2>2, <2>3 DEF Ledgers
<1>2. \A t \in grown : t \in a.ledger \/ t.key = key
  OBVIOUS
<1>3. entry.key = key /\ entry \in grown
  OBVIOUS
<1>4. a.ledger \subseteq grown
  OBVIOUS
<1>5. Entered(a, key, delta) = [points |-> a.points, debt |-> a.debt, version |-> a.version,
                                ledger |-> grown]
  BY DEF Accounts, Entered
<1> HIDE DEF grown
<1>6. Entered(a, key, delta) \in Accounts /\ Entered(a, key, delta).ledger = grown
  BY <1>1, <1>5 DEF Accounts
<1> QED
  <2>1. ASSUME NEW other
        PROVE  (\E t \in grown : t.key = other) <=> (\E t \in a.ledger : t.key = other) \/ other = key
    BY <1>2, <1>3, <1>4
  <2>2. \A other : Recorded(Entered(a, key, delta), other) <=> Recorded(a, other) \/ other = key
    BY <2>1, <1>6 DEF Recorded
  <2>3. Entered(a, key, delta).points = a.points /\ Entered(a, key, delta).debt = a.debt
    BY <1>5
  <2> QED
    BY <2>2, <2>3, <1>6 DEF grown

\* An entry under a new key adds its delta to the total.
LEMMA LedgerGrows ==
  ASSUME NEW a \in Accounts, NEW key \in EntryKeys, NEW delta \in Int, ~Recorded(a, key)
  PROVE  /\ LedgerTotal(a) \in Int
         /\ LedgerTotal(Entered(a, key, delta)) = LedgerTotal(a) + delta
<1> DEFINE entry == [key |-> key, delta |-> delta]
           f == [t \in a.ledger |-> t.delta]
           g == [t \in a.ledger \cup {entry} |-> t.delta]
<1>1. IsFiniteSet(a.ledger) /\ \A t \in a.ledger : t.delta \in Int
  BY DEF Accounts, Ledgers
<1>2. entry \notin a.ledger
  BY DEF Recorded
<1>3. /\ \A t \in a.ledger : f[t] \in Int /\ g[t] \in Int /\ g[t] = f[t]
      /\ g[entry] = delta
  BY <1>1
<1>4. /\ LedgerTotal(a) = SumFunctionOnSet(f, a.ledger)
      /\ LedgerTotal(Entered(a, key, delta)) = SumFunctionOnSet(g, a.ledger \cup {entry})
  BY EnteredAccount DEF LedgerTotal
<1> HIDE DEF f, g, entry
<1>5. SumFunctionOnSet(f, a.ledger) \in Int
  BY <1>1, <1>3, SumInt
<1>6. SumFunctionOnSet(g, a.ledger \cup {entry}) = SumFunctionOnSet(g, a.ledger) + delta
  BY <1>1, <1>2, <1>3, SumAdd
<1>7. SumFunctionOnSet(g, a.ledger) = SumFunctionOnSet(f, a.ledger)
  BY <1>1, <1>3, SumAgree
<1> QED
  BY <1>4, <1>5, <1>6, <1>7

\* What the ledger says depends on the ledger alone.
LEMMA SameLedger ==
  ASSUME NEW a, NEW b, a.ledger = b.ledger
  PROVE  /\ LedgerTotal(a) = LedgerTotal(b)
         /\ \A key : Recorded(a, key) <=> Recorded(b, key)
BY DEF LedgerTotal, Recorded

-----------------------------------------------------------------------------
(* The steps on the documents.                                              *)

\* The fields a save leaves alone.
LEMMA InvoiceWritten ==
  ASSUME NEW d \in InvoiceDocs, NEW status, NEW payment, NEW version, NEW x,
         x = [d EXCEPT !.status = status, !.payment = payment, !.version = version]
  PROVE  x = [status |-> status, paid |-> d.paid, due |-> d.due, payment |-> payment,
              redeem |-> d.redeem, version |-> version]
BY DEF InvoiceDocs

\* What leaves the sale alone.
LEMMA SaveInvoiceEffect ==
  ASSUME NEW w \in Works, w.request.invoice \in Invoices, NEW new \in InvoiceDocs,
         NEW x, x = SaveInvoice(w, new)
  PROVE  /\ x \in Works
         /\ x.account = w.account /\ x.request = w.request
         /\ x.customer = w.customer /\ x.settled = w.settled
         /\ x.sale.payments = w.sale.payments
         /\ x.sale.subscription = w.sale.subscription
         /\ x.sale.consumed = w.sale.consumed
         /\ x.sale.loyaltyEnabled = w.sale.loyaltyEnabled
         /\ \A i \in Invoices : x.sale.invoices[i].paid = w.sale.invoices[i].paid
                             /\ x.sale.invoices[i].due = w.sale.invoices[i].due
                             /\ x.sale.invoices[i].redeem = w.sale.invoices[i].redeem
         /\ new.status = w.doc.status \/ new.status # "none" =>
              \A i \in Invoices : x.sale.invoices[i].status = "none"
                                    => w.sale.invoices[i].status = "none"
<1> DEFINE i == w.request.invoice
           status == IF new.status = w.doc.status THEN Inv(w).status ELSE new.status
           merged == [Inv(w) EXCEPT !.status = status, !.payment = new.payment,
                                    !.version = Inv(w).version + 1]
           doc == [new EXCEPT !.version = new.version + 1]
           s == [w.sale EXCEPT !.invoices[i] = merged]
<1>1. w.sale \in SaleDocs /\ w.doc \in InvoiceDocs /\ Inv(w) \in InvoiceDocs
  BY DEF Works, SaleDocs, Inv
<1>2. merged \in InvoiceDocs /\ merged.paid = Inv(w).paid /\ merged.due = Inv(w).due
      /\ merged.redeem = Inv(w).redeem /\ merged.status = status /\ doc \in InvoiceDocs
  <2>1. status \in InvoiceStatus
    BY <1>1 DEF InvoiceDocs
  <2> HIDE DEF status
  <2>2. merged = [status |-> status, paid |-> Inv(w).paid, due |-> Inv(w).due,
                  payment |-> new.payment, redeem |-> Inv(w).redeem,
                  version |-> Inv(w).version + 1]
    BY <1>1, InvoiceWritten
  <2>3. doc = [status |-> new.status, paid |-> new.paid, due |-> new.due,
               payment |-> new.payment, redeem |-> new.redeem, version |-> new.version + 1]
    BY DEF InvoiceDocs
  <2> QED
    BY <1>1, <2>1, <2>2, <2>3 DEF InvoiceDocs
<1> HIDE DEF merged, doc
<1>3. /\ s \in SaleDocs /\ s.payments = w.sale.payments
      /\ s.subscription = w.sale.subscription
      /\ s.consumed = w.sale.consumed
      /\ s.loyaltyEnabled = w.sale.loyaltyEnabled
      /\ \A j \in Invoices : s.invoices[j] = IF j = i THEN merged ELSE w.sale.invoices[j]
  BY <1>1, <1>2 DEF SaleDocs
<1> HIDE DEF s
<1>4. x = w \/ x = [w EXCEPT !.ok = FALSE] \/ x = [w EXCEPT !.sale = s, !.doc = doc]
  BY DEF SaveInvoice, Stop, s, doc, merged, status
<1>5. CASE x = w
  BY <1>5
<1>6. CASE x = [w EXCEPT !.ok = FALSE]
  BY <1>6 DEF Works
<1>7. CASE x = [w EXCEPT !.sale = s, !.doc = doc]
  <2>1. x \in Works /\ x.sale = s /\ x.account = w.account /\ x.request = w.request
        /\ x.customer = w.customer /\ x.settled = w.settled
    BY <1>1, <1>2, <1>3, <1>7 DEF Works
  <2>2. new.status = w.doc.status \/ new.status # "none" =>
          (merged.status = "none" => w.sale.invoices[i].status = "none")
    BY <1>2 DEF status, Inv
  <2> HIDE DEF status
  <2> QED
    BY <1>2, <1>3, <2>1, <2>2 DEF Inv
<1> QED
  BY <1>4, <1>5, <1>6, <1>7

Quiet(w, x) == x \in Works /\ x.sale = w.sale /\ x.request = w.request

\* A step that stops the request writes nothing.
LEMMA StopQuiet ==
  ASSUME NEW w \in Works, NEW x, x = Stop(w)
  PROVE  Quiet(w, x) /\ x.account = w.account /\ ~x.ok
BY DEF Works, Stop, Quiet

\* The invoice and the copy a step works with are documents of the right type.
LEMMA Documents ==
  ASSUME NEW w \in Works
  PROVE  /\ w.sale \in SaleDocs /\ w.account \in Accounts /\ w.customer \in Accounts
         /\ w.doc \in InvoiceDocs /\ w.settled \in BOOLEAN /\ w.ok \in BOOLEAN
         /\ w.doc.redeem \in Nat /\ w.doc.paid \in Int /\ w.doc.due \in Int
         /\ w.request.invoice \in Invoices => Inv(w) \in InvoiceDocs
         /\ w.request.kind = "void" => Pay(w) \in PaymentDocs
         /\ w.request.kind # "void" => w.request.invoice \in Invoices
         /\ w.request.kind = "pay" =>
              w.request.amount \in Nat /\ w.request.key \in Keys \cup {NoKey}
<1>1. w.sale \in SaleDocs /\ w.doc \in InvoiceDocs /\ w.request \in RequestDocs
  BY DEF Works
<1>2. /\ w.request.kind # "void" => w.request.invoice \in Invoices
      /\ w.request.kind = "void" => w.request.payment \in Payments
      /\ w.request.kind = "pay" =>
              w.request.amount \in Nat /\ w.request.key \in Keys \cup {NoKey}
  BY <1>1 DEF RequestDocs
<1> QED
  BY <1>1, <1>2 DEF Works, SaleDocs, InvoiceDocs, Inv, Pay

\* Reading the invoice writes nothing.
LEMMA LoadWhereQuiet ==
  ASSUME NEW w \in Works, w.request.invoice \in Invoices, NEW condition,
         NEW x, x = LoadWhere(w, condition)
  PROVE  Quiet(w, x) /\ x.account = w.account
<1>1. Inv(w) \in InvoiceDocs
  BY Documents
<1>2. x = Stop(w) \/ x = [w EXCEPT !.doc = Inv(w)]
  BY DEF LoadWhere
<1> QED
  BY <1>1, <1>2, StopQuiet DEF Works, Quiet

\* Writing the account writes nothing else.
LEMMA AccountWritten ==
  ASSUME NEW w \in Works, NEW a \in Accounts, NEW x, x = [w EXCEPT !.account = a]
  PROVE  Quiet(w, x) /\ x.account = a /\ x.doc = w.doc /\ x.settled = w.settled /\ x.ok = w.ok
         /\ x.customer = w.customer
BY DEF Works, Quiet

\* Saving the account touches no document of the sale.
LEMMA SaveAccountQuiet ==
  ASSUME NEW w \in Works, NEW new \in Accounts, NEW x, x = SaveAccount(w, new)
  PROVE  Quiet(w, x)
<1> DEFINE a == [new EXCEPT !.ledger = w.account.ledger]
<1>1. a \in Accounts
  BY Documents DEF Accounts
<1>2. x = Stop(w) \/ x = [w EXCEPT !.account = a, !.customer = new]
  BY DEF SaveAccount
<1> HIDE DEF a
<1> QED
  BY <1>1, <1>2, StopQuiet DEF Works, Quiet

\* Nor does an entry in the ledger.
LEMMA EnterDeltaQuiet ==
  ASSUME NEW w \in Works, NEW key \in EntryKeys, NEW delta \in Int,
         NEW x, x = EnterDelta(w, key, delta)
  PROVE  Quiet(w, x)
<1>1. Entered(w.account, key, delta) \in Accounts
  BY Documents, EnteredAccount
<1>2. x = Stop(w) \/ x = [w EXCEPT !.account = Entered(w.account, key, delta)]
  BY DEF EnterDelta
<1> QED
  BY <1>1, <1>2, StopQuiet, AccountWritten

\* The steps that touch only the account, or only the request's own copies.
LEMMA QuietSteps ==
  ASSUME NEW w \in Works, w.request.invoice \in Invoices, NEW x
  PROVE  /\ x = LoadDraft(w) => Quiet(w, x)
         /\ x = RedeemPoints(w) => Quiet(w, x)
         /\ x = RedeemEntry(w) => Quiet(w, x)
         /\ x = LoadCancellable(w) => Quiet(w, x)
         /\ x = RestorePoints(w) => Quiet(w, x)
         /\ x = RestoreEntry(w) => Quiet(w, x)
         /\ x = LoadPayable(w) => Quiet(w, x)
         /\ x = ReadAccount(w) => Quiet(w, x)
         /\ x = AwardPoints(w) => Quiet(w, x)
         /\ x = AwardEntry(w) => Quiet(w, x)
         /\ x = ReversePoints(w) => Quiet(w, x)
         /\ x = ReverseEntry(w) /\ w.request.kind = "void" => Quiet(w, x)
<1> DEFINE i == w.request.invoice
           n == w.doc.redeem
<1>0. Quiet(w, w)
  BY DEF Quiet
<1>1. /\ RedeemKey(i) \in EntryKeys /\ RestoreKey(i) \in EntryKeys /\ EarnKey(i) \in EntryKeys
      /\ w.request.kind = "void" => ReverseKey(w.request.payment) \in EntryKeys
  <2>1. w.request \in RequestDocs
    BY DEF Works
  <2>2. w.request.kind = "void" => w.request.payment \in Payments
    BY <2>1 DEF RequestDocs
  <2> QED
    BY <2>2 DEF EntryKeys
<1>2. n \in Nat /\ -n \in Int /\ EarnPoints \in Nat /\ -EarnPoints \in Int
  BY Documents, SettlementAssumption
<1>3. /\ w.account \in Accounts /\ w.customer \in Accounts
  BY Documents
<1>4. x = LoadDraft(w) => Quiet(w, x)
  BY LoadWhereQuiet DEF LoadDraft
<1>5. ASSUME x = RedeemPoints(w) PROVE Quiet(w, x)
  <2>1. x = w \/ x = Stop(w) \/ (CanSpend(w.account, n) /\ x = [w EXCEPT !.account = Spent(w.account, n)])
    BY <1>5 DEF RedeemPoints
  <2> QED
    BY <1>0, <1>2, <1>3, <2>1, SpentAccount, AccountWritten, StopQuiet
<1>6. ASSUME x = RedeemEntry(w) PROVE Quiet(w, x)
  <2>1. x = w \/ x = EnterDelta(w, RedeemKey(i), -n)
    BY <1>6 DEF RedeemEntry
  <2> QED
    BY <1>0, <1>1, <1>2, <2>1, EnterDeltaQuiet
<1>7. x = LoadCancellable(w) => Quiet(w, x)
  BY LoadWhereQuiet DEF LoadCancellable
<1>8. ASSUME x = RestorePoints(w) PROVE Quiet(w, x)
  <2>1. x = w \/ x = [w EXCEPT !.account = Credited(w.account, n)]
    BY <1>8 DEF RestorePoints
  <2> QED
    BY <1>0, <1>2, <1>3, <2>1, CreditedAccount, AccountWritten
<1>9. ASSUME x = RestoreEntry(w) PROVE Quiet(w, x)
  <2>1. x = w \/ x = EnterDelta(w, RestoreKey(i), n)
    BY <1>9 DEF RestoreEntry
  <2> QED
    BY <1>0, <1>1, <1>2, <2>1, EnterDeltaQuiet
<1>10. x = LoadPayable(w) => Quiet(w, x)
  BY LoadWhereQuiet DEF LoadPayable
<1>11. x = ReadAccount(w) => Quiet(w, x)
  BY <1>3 DEF ReadAccount, Works, Quiet
<1>12. ASSUME x = AwardPoints(w) PROVE Quiet(w, x)
  <2>1. x = w \/ x = SaveAccount(w, Awarded(w.customer, EarnPoints))
    BY <1>12 DEF AwardPoints
  <2> QED
    BY <1>0, <1>2, <1>3, <2>1, AwardedAccount, SaveAccountQuiet
<1>13. ASSUME x = AwardEntry(w) PROVE Quiet(w, x)
  <2>1. x = w \/ x = EnterDelta(w, EarnKey(i), EarnPoints)
    BY <1>13 DEF AwardEntry
  <2> QED
    BY <1>0, <1>1, <1>2, <2>1, EnterDeltaQuiet
<1>14. ASSUME x = ReversePoints(w) PROVE Quiet(w, x)
  <2>1. x = w \/ x = SaveAccount(w, Reversed(w.customer, EarnPoints))
    BY <1>14 DEF ReversePoints
  <2> QED
    BY <1>0, <1>2, <1>3, <2>1, ReversedAccount, SaveAccountQuiet
<1>15. ASSUME x = ReverseEntry(w), w.request.kind = "void" PROVE Quiet(w, x)
  <2>1. x = w \/ x = EnterDelta(w, ReverseKey(w.request.payment), -EarnPoints)
    BY <1>15 DEF ReverseEntry
  <2> QED
    BY <1>0, <1>1, <1>2, <1>15, <2>1, EnterDeltaQuiet
<1> QED
  BY <1>4, <1>5, <1>6, <1>7, <1>8, <1>9, <1>10, <1>11, <1>12, <1>13, <1>14, <1>15

-----------------------------------------------------------------------------
(* The steps on the sale.                                                   *)

\* No money moves.
Still(w, x) ==
  /\ x \in Works /\ x.request = w.request
  /\ x.sale.payments = w.sale.payments
  /\ \A i \in Invoices : /\ x.sale.invoices[i].paid = w.sale.invoices[i].paid
                         /\ x.sale.invoices[i].due = w.sale.invoices[i].due
                         /\ x.sale.invoices[i].status = "none"
                              => w.sale.invoices[i].status = "none"
  /\ w.sale.subscription = "cancelled" => x.sale.subscription = "cancelled"

\* The steps that move no money: they keep every amount and every payment, and a
\* cancelled subscription.
LEMMA StillSteps ==
  ASSUME NEW w \in Works, w.request.invoice \in Invoices, NEW x
  PROVE  /\ Quiet(w, x) => Still(w, x)
         /\ x = SaveFinalized(w) => Still(w, x)
         /\ x = SaveCancelled(w) => Still(w, x)
         /\ x = SaveStatus(w) => Still(w, x)
         /\ x = Activate(w) => Still(w, x)
         /\ x = Deactivate(w) => Still(w, x)
         /\ x = CancelSale(w) => Still(w, x)
         /\ x = CancelUnpaid(w) => Still(w, x)
<1>0. w.doc \in InvoiceDocs /\ w.sale \in SaleDocs /\ Inv(w) \in InvoiceDocs
  BY Documents
<1>q. Quiet(w, x) => Still(w, x)
  BY DEF Quiet, Still
<1>w. Still(w, w)
  BY DEF Still
<1>1. ASSUME NEW new \in InvoiceDocs, x = SaveInvoice(w, new),
             new.status = w.doc.status \/ new.status # "none"
      PROVE  Still(w, x)
  BY <1>1, SaveInvoiceEffect DEF Still
<1>2. ASSUME NEW status \in InvoiceStatus PROVE [w.doc EXCEPT !.status = status] \in InvoiceDocs
  BY <1>0 DEF InvoiceDocs
<1>3. \A paid, due : DerivePaymentStatus(paid, due) \in PaymentStates
  BY DEF DerivePaymentStatus, PaymentStates
<1>4. x = SaveFinalized(w) => Still(w, x)
  <2> DEFINE payment == DerivePaymentStatus(w.doc.paid, w.doc.due)
             new == [w.doc EXCEPT !.status = "finalized", !.payment = payment]
  <2>1. payment \in PaymentStates
    BY <1>3
  <2> HIDE DEF payment
  <2>2. new \in InvoiceDocs /\ new.status = "finalized"
    BY <1>0, <2>1 DEF InvoiceDocs, InvoiceStatus
  <2> QED
    BY <1>1, <2>2 DEF SaveFinalized, payment
<1>5. x = SaveCancelled(w) => Still(w, x)
  <2> DEFINE new == [w.doc EXCEPT !.status = "cancelled"]
  <2>1. new \in InvoiceDocs /\ new.status = "cancelled"
    BY <1>0 DEF InvoiceDocs, InvoiceStatus
  <2> QED
    BY <1>1, <2>1 DEF SaveCancelled
<1>6. x = SaveStatus(w) => Still(w, x)
  <2> DEFINE payment == DerivePaymentStatus(w.doc.paid, w.doc.due)
             new == [w.doc EXCEPT !.payment = payment]
  <2>1. payment \in PaymentStates
    BY <1>3
  <2> HIDE DEF payment
  <2>2. new \in InvoiceDocs /\ new.status = w.doc.status
    BY <1>0, <2>1 DEF InvoiceDocs
  <2> QED
    BY <1>1, <2>2 DEF SaveStatus, payment
<1>7. ASSUME NEW status \in SaleStatus, x = [w EXCEPT !.sale.subscription = status],
             w.sale.subscription = "cancelled" => status = "cancelled"
      PROVE  Still(w, x)
  <2> DEFINE s == [w.sale EXCEPT !.subscription = status]
  <2>1. /\ s \in SaleDocs /\ s.invoices = w.sale.invoices /\ s.payments = w.sale.payments
        /\ s.subscription = status
    BY <1>0 DEF SaleDocs
  <2> HIDE DEF s
  <2>2. x = [w EXCEPT !.sale = s]
    BY <1>7 DEF s
  <2>3. x \in Works /\ x.sale = s /\ x.request = w.request
    BY <2>1, <2>2 DEF Works
  <2> QED
    BY <1>7, <2>1, <2>3 DEF Still
<1>8. x = Activate(w) => Still(w, x)
  BY <1>w, <1>7 DEF Activate, SaleStatus
<1>9. x = Deactivate(w) => Still(w, x)
  BY <1>w, <1>7 DEF Deactivate, SaleStatus
<1>10. x = CancelSale(w) => Still(w, x)
  BY <1>q, <1>7, StopQuiet DEF CancelSale, SaleStatus
<1>11. ASSUME x = CancelUnpaid(w) PROVE Still(w, x)
  <2> DEFINE v == [w EXCEPT !.doc = Inv(w)]
             new == [Inv(w) EXCEPT !.status = "cancelled"]
  <2>1. v \in Works /\ v.request = w.request /\ v.sale = w.sale
    BY <1>0 DEF Works
  <2>2. new \in InvoiceDocs /\ new.status = "cancelled"
    BY <1>0 DEF InvoiceDocs, InvoiceStatus
  <2>3. x = w \/ x = SaveInvoice(v, new)
    BY <1>11 DEF CancelUnpaid
  <2> HIDE DEF v, new
  <2>4. x = SaveInvoice(v, new) => Still(w, x)
    BY <2>1, <2>2, SaveInvoiceEffect DEF Still
  <2> QED
    BY <1>w, <2>3, <2>4
<1> QED
  BY <1>q, <1>4, <1>5, <1>6, <1>8, <1>9, <1>10, <1>11

-----------------------------------------------------------------------------
(* What the payment documents add up to.                                    *)

PaymentTables == [Payments -> PaymentDocs]
Completed(table, i) ==
  {p \in Payments : table[p].invoice = i /\ table[p].status = "completed"}
CollectedIn(table, i) ==
  SumFunctionOnSet([p \in Payments |-> table[p].amount], Completed(table, i))

\* What the payments that count add up to is a natural number.
LEMMA CollectedIsNat ==
  ASSUME NEW table \in PaymentTables, NEW i
  PROVE  CollectedIn(table, i) \in Nat
<1> DEFINE f == [p \in Payments |-> table[p].amount]
<1>1. IsFiniteSet(Completed(table, i)) /\ \A p \in Completed(table, i) : f[p] \in Nat
  BY SettlementAssumption, FS_Subset DEF Completed, PaymentTables, PaymentDocs
<1> HIDE DEF f
<1>2. SumFunctionOnSet(f, Completed(table, i)) \in Nat
  BY <1>1, SumNat
<1> QED
  BY <1>2 DEF CollectedIn, f

\* Without payments, nothing is collected.
LEMMA NoneCollected ==
  ASSUME NEW table, NEW i, \A p \in Payments : table[p].status # "completed"
  PROVE  CollectedIn(table, i) = 0
<1>1. Completed(table, i) = {}
  BY DEF Completed
<1> QED
  BY <1>1, SumEmpty DEF CollectedIn

\* A payment that becomes completed adds its amount to its invoice.  Read from
\* right to left: one that is voided takes it away.
LEMMA CollectedGrows ==
  ASSUME NEW old \in PaymentTables, NEW new \in PaymentTables, NEW p \in Payments,
         \A r \in Payments : r # p => new[r] = old[r],
         old[p].status # "completed", new[p].status = "completed", NEW i
  PROVE  CollectedIn(new, i) = CollectedIn(old, i) + IF new[p].invoice = i THEN new[p].amount ELSE 0
<1> DEFINE f == [r \in Payments |-> old[r].amount]
           g == [r \in Payments |-> new[r].amount]
           S == Completed(old, i)
<1>1. IsFiniteSet(S) /\ p \notin S
  BY SettlementAssumption, FS_Subset DEF Completed
<1>2. Completed(new, i) = IF new[p].invoice = i THEN S \cup {p} ELSE S
  BY DEF Completed
<1>3. /\ \A r \in S : f[r] = g[r] /\ g[r] \in Int
      /\ g[p] \in Int /\ g[p] = new[p].amount
  <2>1. \A r \in S : r \in Payments /\ r # p
    BY <1>1 DEF Completed
  <2>2. \A r \in Payments : new[r].amount \in Int
    BY DEF PaymentTables, PaymentDocs
  <2> QED
    BY <2>1, <2>2
<1>4. CollectedIn(old, i) = SumFunctionOnSet(f, S)
  BY DEF CollectedIn
<1>5. CollectedIn(new, i) = SumFunctionOnSet(g, IF new[p].invoice = i THEN S \cup {p} ELSE S)
  BY <1>2 DEF CollectedIn
<1> HIDE DEF f, g, S
<1>6. SumFunctionOnSet(f, S) = SumFunctionOnSet(g, S)
  BY <1>1, <1>3, SumAgree
<1>7. SumFunctionOnSet(g, S \cup {p}) = SumFunctionOnSet(g, S) + g[p]
  BY <1>1, <1>3, SumAdd
<1>8. SumFunctionOnSet(g, S) \in Int
  BY <1>1, <1>3, SumInt
<1> QED
  BY <1>3, <1>4, <1>5, <1>6, <1>7, <1>8

-----------------------------------------------------------------------------
(* The steps that move money.                                               *)

\* The rest of the working state stays.
Otherwise(w, x) ==
  /\ x \in Works /\ x.request = w.request /\ x.account = w.account
  /\ x.customer = w.customer /\ x.ok = w.ok
  /\ x.sale.subscription = w.sale.subscription
  /\ x.sale.consumed = w.sale.consumed /\ x.sale.loyaltyEnabled = w.sale.loyaltyEnabled

\* An amount is put on an invoice, or taken off it.
Moved(w, x, i, amount) ==
  /\ Otherwise(w, x) /\ x.settled = w.settled
  /\ x.sale.payments = w.sale.payments /\ x.doc = x.sale.invoices[i]
  /\ \A j \in Invoices \ {i} : x.sale.invoices[j] = w.sale.invoices[j]
  /\ x.sale.invoices[i].paid = w.sale.invoices[i].paid + amount
  /\ x.sale.invoices[i].due = w.sale.invoices[i].due - amount
  /\ x.sale.invoices[i].status = w.sale.invoices[i].status
  /\ x.sale.invoices[i].payment = w.sale.invoices[i].payment
  /\ x.sale.invoices[i].redeem = w.sale.invoices[i].redeem
  /\ x.sale.invoices[i].version = w.sale.invoices[i].version

ChargedInvoice(d, amount) == [d EXCEPT !.paid = d.paid + amount, !.due = d.due - amount]

\* The fields a charge changes, and those it leaves alone.
LEMMA InvoiceCharged ==
  ASSUME NEW d \in InvoiceDocs, NEW amount \in Int, NEW e, e = ChargedInvoice(d, amount)
  PROVE  /\ e \in InvoiceDocs
         /\ e.paid = d.paid + amount /\ e.due = d.due - amount
         /\ e.status = d.status /\ e.payment = d.payment
         /\ e.redeem = d.redeem /\ e.version = d.version
<1>1. e = [status |-> d.status, paid |-> d.paid + amount, due |-> d.due - amount,
           payment |-> d.payment, redeem |-> d.redeem, version |-> d.version]
  BY DEF InvoiceDocs, ChargedInvoice
<1> QED
  BY <1>1 DEF InvoiceDocs

\* The $inc of both sides moves the amount from due to paid, on that invoice alone.
LEMMA ChargedEffect ==
  ASSUME NEW w \in Works, w.request.invoice \in Invoices, NEW amount \in Int
  PROVE  Moved(w, Charged(w, amount), w.request.invoice, amount)
<1> DEFINE i == w.request.invoice
           rec == ChargedInvoice(Inv(w), amount)
           s == [w.sale EXCEPT !.invoices[i] = rec]
           x == Charged(w, amount)
<1>1. w.sale \in SaleDocs /\ Inv(w) \in InvoiceDocs /\ Inv(w) = w.sale.invoices[i]
  BY Documents DEF Inv
<1>2. /\ rec \in InvoiceDocs
      /\ rec.paid = Inv(w).paid + amount /\ rec.due = Inv(w).due - amount
      /\ rec.status = Inv(w).status /\ rec.payment = Inv(w).payment
      /\ rec.redeem = Inv(w).redeem /\ rec.version = Inv(w).version
  BY <1>1, InvoiceCharged
<1>3. x = [w EXCEPT !.sale = s, !.doc = rec]
  BY DEF Charged, ChargedInvoice
<1> HIDE DEF rec, x
<1>4. /\ s \in SaleDocs /\ s.payments = w.sale.payments
      /\ s.subscription = w.sale.subscription /\ s.consumed = w.sale.consumed
      /\ s.loyaltyEnabled = w.sale.loyaltyEnabled
      /\ s.invoices[i] = rec
      /\ \A j \in Invoices \ {i} : s.invoices[j] = w.sale.invoices[j]
  BY <1>1, <1>2 DEF SaleDocs
<1> HIDE DEF s
<1>5. /\ x \in Works /\ x.sale = s /\ x.request = w.request /\ x.account = w.account
      /\ x.customer = w.customer /\ x.ok = w.ok /\ x.settled = w.settled /\ x.doc = rec
  BY <1>2, <1>3, <1>4 DEF Works
<1>6. Moved(w, x, i, amount)
  BY <1>1, <1>2, <1>4, <1>5 DEF Moved, Otherwise
<1> QED
  BY <1>6 DEF x

\* Another table of payments, and what the request knows of its invoice.
WithPayments(w, table, settled) ==
  [w EXCEPT !.sale.payments = table, !.settled = settled]

\* What else a saved payment leaves alone.
LEMMA SavedPayments ==
  ASSUME NEW w \in Works, NEW table \in PaymentTables, NEW settled \in BOOLEAN, NEW x,
         x = WithPayments(w, table, settled)
  PROVE  /\ Otherwise(w, x) /\ x.settled = settled /\ x.doc = w.doc
         /\ x.sale.payments = table /\ x.sale.invoices = w.sale.invoices
<1> DEFINE s == [w.sale EXCEPT !.payments = table]
<1>1. /\ s \in SaleDocs /\ s.payments = table /\ s.invoices = w.sale.invoices
      /\ s.subscription = w.sale.subscription /\ s.consumed = w.sale.consumed
      /\ s.loyaltyEnabled = w.sale.loyaltyEnabled
  BY Documents DEF SaleDocs, PaymentTables
<1>2. x = [w EXCEPT !.sale = s, !.settled = settled]
  BY DEF WithPayments
<1> HIDE DEF s
<1> QED
  BY <1>1, <1>2 DEF Works, Otherwise

\* SavePayment stops, or fills one unused document with the payment of the request.
LEMMA SavePaymentEffect ==
  ASSUME NEW w \in Works, w.request.kind = "pay", NEW x, x = SavePayment(w)
  PROVE  \/ x = Stop(w)
         \/ \E p \in Payments :
              /\ w.sale.payments[p].status = "none"
              /\ Otherwise(w, x) /\ x.doc = w.doc
              /\ x.settled = (w.doc.payment = "paid")
              /\ x.sale.invoices = w.sale.invoices
              /\ x.sale.payments \in PaymentTables
              /\ \A r \in Payments \ {p} : x.sale.payments[r] = w.sale.payments[r]
              /\ x.sale.payments[p].status = "completed"
              /\ x.sale.payments[p].invoice = w.request.invoice
              /\ x.sale.payments[p].amount = w.request.amount
<1> DEFINE unused == {p \in Payments : w.sale.payments[p].status = "none"}
           saved == [status |-> "completed", invoice |-> w.request.invoice,
                     amount |-> w.request.amount, key |-> w.request.key]
           p == Min(unused)
           table == [w.sale.payments EXCEPT ![p] = saved]
           settled == (w.doc.payment = "paid")
<1>1. x = Stop(w) \/ (unused # {} /\ x = WithPayments(w, table, settled))
  BY DEF SavePayment, WithPayments
<1> SUFFICES ASSUME unused # {}, x = WithPayments(w, table, settled)
             PROVE  \E q \in Payments :
              /\ w.sale.payments[q].status = "none"
              /\ Otherwise(w, x) /\ x.doc = w.doc
              /\ x.settled = (w.doc.payment = "paid")
              /\ x.sale.invoices = w.sale.invoices
              /\ x.sale.payments \in PaymentTables
              /\ \A r \in Payments \ {q} : x.sale.payments[r] = w.sale.payments[r]
              /\ x.sale.payments[q].status = "completed"
              /\ x.sale.payments[q].invoice = w.request.invoice
              /\ x.sale.payments[q].amount = w.request.amount
  BY <1>1
<1>2. p \in unused
  <2>1. unused \in SUBSET Nat
    BY SettlementAssumption
  <2> HIDE DEF unused
  <2>2. \E m \in unused : \A k \in unused : m <= k
    BY <2>1, LeastNumber
  <2> QED
    BY <2>2 DEF Min
<1>3. saved \in PaymentDocs
  BY Documents DEF PaymentDocs
<1>4. w.sale.payments \in PaymentTables
  BY Documents DEF SaleDocs, PaymentTables
<1> HIDE DEF saved, p
<1>5. table \in PaymentTables /\ table[p] = saved
      /\ \A r \in Payments \ {p} : table[r] = w.sale.payments[r]
  BY <1>2, <1>3, <1>4 DEF PaymentTables
<1>b. settled \in BOOLEAN
  OBVIOUS
<1> HIDE DEF table, settled
<1>6. /\ Otherwise(w, x) /\ x.settled = settled /\ x.doc = w.doc
      /\ x.sale.payments = table /\ x.sale.invoices = w.sale.invoices
  BY <1>5, <1>b, SavedPayments
<1> QED
  BY <1>2, <1>5, <1>6 DEF saved, settled

\* VoidPayment stops, or marks its completed payment voided and leaves the rest of it.
LEMMA VoidPaymentEffect ==
  ASSUME NEW w \in Works, w.request.kind = "void", NEW x, x = VoidPayment(w)
  PROVE  \/ x = Stop(w)
         \/ LET p == w.request.payment
            IN  /\ p \in Payments /\ w.sale.payments[p].status = "completed"
                /\ Otherwise(w, x) /\ x.doc = w.doc /\ x.settled = w.settled
                /\ x.sale.invoices = w.sale.invoices
                /\ x.sale.payments \in PaymentTables
                /\ \A r \in Payments \ {p} : x.sale.payments[r] = w.sale.payments[r]
                /\ x.sale.payments[p].status = "voided"
                /\ x.sale.payments[p].invoice = w.sale.payments[p].invoice
                /\ x.sale.payments[p].amount = w.sale.payments[p].amount
<1> DEFINE p == w.request.payment
           old == w.sale.payments[p]
           rec == [old EXCEPT !.status = "voided"]
           table == [w.sale.payments EXCEPT ![p] = rec]
<1>1. p \in Payments /\ old \in PaymentDocs /\ w.sale.payments \in PaymentTables
  <2>1. w.request \in RequestDocs /\ w.sale \in SaleDocs
    BY DEF Works
  <2>2. p \in Payments
    BY <2>1 DEF RequestDocs
  <2> QED
    BY <2>1, <2>2 DEF SaleDocs, PaymentTables
<1>2. x = Stop(w) \/ (old.status = "completed" /\ x = WithPayments(w, table, w.settled))
  <2>1. [w EXCEPT !.sale.payments[p].status = "voided"] = WithPayments(w, table, w.settled)
    BY DEF Works, WithPayments
  <2> QED
    BY <2>1 DEF VoidPayment, Pay
<1>3. rec \in PaymentDocs /\ rec.status = "voided" /\ rec.invoice = old.invoice /\ rec.amount = old.amount
  BY <1>1 DEF PaymentDocs
<1> HIDE DEF rec
<1>4. table \in PaymentTables /\ table[p] = rec
      /\ \A r \in Payments \ {p} : table[r] = w.sale.payments[r]
  BY <1>1, <1>3 DEF PaymentTables
<1> HIDE DEF table
<1>5. w.settled \in BOOLEAN
  BY Documents
<1>6. x = WithPayments(w, table, w.settled) =>
        /\ Otherwise(w, x) /\ x.settled = w.settled /\ x.doc = w.doc
        /\ x.sale.payments = table /\ x.sale.invoices = w.sale.invoices
  BY <1>4, <1>5, SavedPayments
<1> QED
  BY <1>1, <1>2, <1>3, <1>4, <1>6

\* The request of a void takes the invoice of its payment.
LEMMA LoadPaymentEffect ==
  ASSUME NEW w \in Works, w.request.kind = "void", NEW x, x = LoadPayment(w)
  PROVE  \/ x = Stop(w)
         \/ /\ Pay(w).status = "completed"
            /\ x \in Works /\ x.sale = w.sale /\ x.account = w.account /\ x.ok = w.ok
            /\ x.request.kind = "void" /\ x.request.payment = w.request.payment
            /\ x.request.invoice = Pay(w).invoice
            /\ x.settled = (w.sale.invoices[Pay(w).invoice].payment = "paid")
<1> DEFINE r == [w.request EXCEPT !.invoice = Pay(w).invoice]
           settled == (w.sale.invoices[Pay(w).invoice].payment = "paid")
<1>1. x = Stop(w) \/ (Pay(w).status = "completed" /\ x = [w EXCEPT !.request = r, !.settled = settled])
  BY DEF LoadPayment
<1>2. r \in RequestDocs /\ r.kind = "void" /\ r.payment = w.request.payment /\ r.invoice = Pay(w).invoice
  <2>1. w.request \in RequestDocs
    BY DEF Works
  <2>2. w.request \in [kind : {"void"}, invoice : Invoices \cup {NoInvoice}, payment : Payments]
    BY <2>1 DEF RequestDocs
  <2>3. Pay(w).invoice \in Invoices \cup {NoInvoice}
    BY Documents DEF PaymentDocs
  <2>4. r = [kind |-> "void", invoice |-> Pay(w).invoice, payment |-> w.request.payment]
    BY <2>2
  <2> QED
    BY <2>2, <2>3, <2>4 DEF RequestDocs
<1> HIDE DEF r
<1>3. settled \in BOOLEAN
  OBVIOUS
<1> HIDE DEF settled
<1>4. x = [w EXCEPT !.request = r, !.settled = settled] =>
        /\ x \in Works /\ x.sale = w.sale /\ x.account = w.account /\ x.ok = w.ok
        /\ x.request = r /\ x.settled = settled
  BY <1>2, <1>3 DEF Works
<1> QED
  BY <1>1, <1>2, <1>4 DEF settled

-----------------------------------------------------------------------------
(* A request on its way: what its steps have established so far.            *)

Placed(s) ==
  \A p \in Payments : s.payments[p].status # "none" => s.payments[p].invoice \in Invoices

\* Before its step at: a void has looked its payment up, then voided it.
Stage(w, at) ==
  /\ w \in Works /\ Placed(w.sale)
  /\ w.request.kind = "void" /\ at >= 2 =>
       /\ w.request.invoice \in Invoices
       /\ Pay(w).status # "none" /\ Pay(w).invoice = w.request.invoice
  /\ w.request.kind = "void" /\ at >= 3 => Pay(w).status = "voided"

\* The amount the invoice shows and no payment document does: taken and not yet
\* saved, or voided and not yet returned.
Held(w, at, i) ==
  IF w.request.invoice # i THEN 0
  ELSE IF w.request.kind = "pay" /\ at \in {3, 4} THEN w.request.amount
  ELSE IF w.request.kind = "void" /\ at = 3 THEN Pay(w).amount
  ELSE 0

Collected(s, i) == CollectedIn(s.payments, i)

\* Payments are never taken back to what they were.
Forward(s, t) ==
  \A p \in Payments :
    /\ s.payments[p].status # "none" =>
         /\ t.payments[p].status # "none"
         /\ t.payments[p].invoice = s.payments[p].invoice
         /\ t.payments[p].amount = s.payments[p].amount
    /\ s.payments[p].status = "voided" => t.payments[p].status = "voided"

Balanced(w, x, at) ==
  \A i \in Invoices :
    /\ x.sale.invoices[i].paid + x.sale.invoices[i].due
         = w.sale.invoices[i].paid + w.sale.invoices[i].due
    /\ w.sale.invoices[i].due >= 0 => x.sale.invoices[i].due >= 0
    /\ x.sale.invoices[i].paid - Collected(x.sale, i) - Held(x, at + 1, i)
         = w.sale.invoices[i].paid - Collected(w.sale, i) - Held(w, at, i)
    /\ x.sale.invoices[i].status = "none" =>
         /\ w.sale.invoices[i].status = "none"
         /\ x.sale.invoices[i].paid <= w.sale.invoices[i].paid

Progress(w, x, at) ==
  /\ Stage(x, at + 1) /\ x.request.kind = w.request.kind
  /\ Forward(w.sale, x.sale)
  /\ Balanced(w, x, at)
  /\ w.sale.subscription = "cancelled" => x.sale.subscription = "cancelled"

\* The amounts of an invoice are integers.
LEMMA Amounts ==
  ASSUME NEW w \in Works, NEW i \in Invoices
  PROVE  /\ w.sale.invoices[i].paid \in Int /\ w.sale.invoices[i].due \in Int
         /\ Collected(w.sale, i) \in Nat
         /\ w.request.kind = "pay" => w.request.amount \in Nat
         /\ w.request.kind = "void" => Pay(w).amount \in Nat
         /\ \A at : Held(w, at, i) \in Nat
<1>1. w.sale \in SaleDocs
  BY Documents
<1>2. w.sale.invoices[i] \in InvoiceDocs /\ w.sale.payments \in PaymentTables
  BY <1>1 DEF SaleDocs, PaymentTables
<1>3. Collected(w.sale, i) \in Nat
  BY <1>2, CollectedIsNat DEF Collected
<1>4. /\ w.request.kind = "pay" => w.request.amount \in Nat
      /\ w.request.kind = "void" => Pay(w).amount \in Nat
  BY Documents DEF PaymentDocs
<1> QED
  BY <1>2, <1>3, <1>4 DEF InvoiceDocs, Held

\* A step that moves no money keeps the books.
LEMMA StillProgress ==
  ASSUME NEW w, NEW at \in Nat, Stage(w, at), NEW x, Still(w, x), w.request.invoice \in Invoices,
         ~(w.request.kind = "pay" /\ at \in {2, 4}),
         w.request.kind = "void" => at >= 4
  PROVE  Progress(w, x, at)
<1>1. w \in Works /\ x \in Works /\ x.request = w.request /\ x.sale.payments = w.sale.payments
  BY DEF Stage, Still
<1>2. Pay(x) = Pay(w)
  BY <1>1 DEF Pay
<1>3. Stage(x, at + 1)
  BY <1>1, <1>2 DEF Stage, Placed
<1>4. \A i \in Invoices : Held(x, at + 1, i) = Held(w, at, i) /\ Collected(x.sale, i) = Collected(w.sale, i)
  BY <1>1, <1>2 DEF Held, Collected
<1>5. Forward(w.sale, x.sale)
  BY <1>1 DEF Forward
<1>6. Balanced(w, x, at)
  BY <1>1, <1>4, Amounts DEF Still, Balanced
<1> QED
  BY <1>1, <1>3, <1>5, <1>6 DEF Progress, Still

\* Reading the payment of a void fixes the invoice it is about.
LEMMA LoadPaymentProgress ==
  ASSUME NEW w, Stage(w, 1), w.request.kind = "void", NEW x, x = LoadPayment(w), x.ok
  PROVE  Progress(w, x, 1)
<1>0. w \in Works
  BY DEF Stage
<1>1. /\ Pay(w).status = "completed"
      /\ x \in Works /\ x.sale = w.sale
      /\ x.request.kind = "void" /\ x.request.payment = w.request.payment
      /\ x.request.invoice = Pay(w).invoice
  BY <1>0, LoadPaymentEffect, StopQuiet
<1>2. Pay(x) = Pay(w)
  BY <1>1 DEF Pay
<1>3. w.request.payment \in Payments
  <2>1. w.request \in RequestDocs
    BY <1>0 DEF Works
  <2> QED
    BY <2>1 DEF RequestDocs
<1>4. Stage(x, 1 + 1)
  BY <1>1, <1>2, <1>3 DEF Stage, Placed, Pay
<1>5. \A i \in Invoices : Held(x, 1 + 1, i) = 0 /\ Held(w, 1, i) = 0
  BY <1>1 DEF Held
<1>6. Forward(w.sale, x.sale) /\ Balanced(w, x, 1)
  BY <1>0, <1>1, <1>5, Amounts DEF Forward, Balanced
<1> QED
  BY <1>1, <1>4, <1>6 DEF Progress

\* A payment taken is held by its request until its document is saved; the filter on
\* amountDue keeps what is due from going negative.
LEMMA TakePaymentProgress ==
  ASSUME NEW w, Stage(w, 2), w.request.kind = "pay", NEW x, x = TakePayment(w), x.ok
  PROVE  Progress(w, x, 2)
<1> DEFINE i == w.request.invoice
<1>0. w \in Works /\ i \in Invoices
  BY Documents DEF Stage
<1>1. /\ Inv(w).due >= w.request.amount /\ Inv(w).status = "finalized"
      /\ Moved(w, x, i, w.request.amount)
  <2>1. w.request.amount \in Int
    BY <1>0, Documents
  <2>2. \/ x = Stop(w)
        \/ /\ Inv(w).due >= w.request.amount /\ Inv(w).status = "finalized"
           /\ x = Charged(w, w.request.amount)
    BY DEF TakePayment
  <2> QED
    BY <1>0, <2>1, <2>2, ChargedEffect, StopQuiet
<1>2. x \in Works /\ x.request = w.request /\ x.sale.payments = w.sale.payments
      /\ x.sale.subscription = w.sale.subscription
  BY <1>1 DEF Moved, Otherwise
<1>3. Stage(x, 2 + 1) /\ Forward(w.sale, x.sale)
  BY <1>2 DEF Stage, Placed, Forward
<1>4. ASSUME NEW j \in Invoices
      PROVE  /\ x.sale.invoices[j].paid + x.sale.invoices[j].due
                  = w.sale.invoices[j].paid + w.sale.invoices[j].due
             /\ w.sale.invoices[j].due >= 0 => x.sale.invoices[j].due >= 0
             /\ x.sale.invoices[j].paid - Collected(x.sale, j) - Held(x, 2 + 1, j)
                  = w.sale.invoices[j].paid - Collected(w.sale, j) - Held(w, 2, j)
             /\ x.sale.invoices[j].status = "none" =>
                  /\ w.sale.invoices[j].status = "none"
                  /\ x.sale.invoices[j].paid <= w.sale.invoices[j].paid
  <2>1. /\ w.sale.invoices[j].paid \in Int /\ w.sale.invoices[j].due \in Int
        /\ Collected(w.sale, j) \in Nat /\ w.request.amount \in Nat
    BY <1>0, Amounts
  <2>2. Collected(x.sale, j) = Collected(w.sale, j) /\ Held(w, 2, j) = 0
        /\ Held(x, 2 + 1, j) = IF j = i THEN w.request.amount ELSE 0
    BY <1>2 DEF Collected, Held
  <2>3. IF j = i THEN /\ x.sale.invoices[j].paid = w.sale.invoices[j].paid + w.request.amount
                      /\ x.sale.invoices[j].due = w.sale.invoices[j].due - w.request.amount
                      /\ w.sale.invoices[j].due >= w.request.amount
                      /\ x.sale.invoices[j].status # "none"
        ELSE x.sale.invoices[j] = w.sale.invoices[j]
    BY <1>0, <1>1 DEF Moved, Inv
  <2> QED
    BY <2>1, <2>2, <2>3
<1> QED
  BY <1>2, <1>3, <1>4 DEF Progress, Balanced

\* What a void has yet to return, it returns.
LEMMA ReturnAmountProgress ==
  ASSUME NEW w, Stage(w, 3), w.request.kind = "void", NEW x, x = ReturnAmount(w), x.ok
  PROVE  Progress(w, x, 3)
<1> DEFINE i == w.request.invoice
           n == Pay(w).amount
<1>0. w \in Works /\ i \in Invoices
  BY DEF Stage
<1>1. Moved(w, x, i, -n)
  <2>1. -n \in Int
    BY <1>0, Amounts
  <2> QED
    BY <1>0, <2>1, ChargedEffect DEF ReturnAmount
<1>2. x \in Works /\ x.request = w.request /\ x.sale.payments = w.sale.payments
      /\ x.sale.subscription = w.sale.subscription
  BY <1>1 DEF Moved, Otherwise
<1>3. Pay(x) = Pay(w)
  BY <1>2 DEF Pay
<1>4. Stage(x, 3 + 1) /\ Forward(w.sale, x.sale)
  BY <1>2, <1>3 DEF Stage, Placed, Forward
<1>5. ASSUME NEW j \in Invoices
      PROVE  /\ x.sale.invoices[j].paid + x.sale.invoices[j].due
                  = w.sale.invoices[j].paid + w.sale.invoices[j].due
             /\ w.sale.invoices[j].due >= 0 => x.sale.invoices[j].due >= 0
             /\ x.sale.invoices[j].paid - Collected(x.sale, j) - Held(x, 3 + 1, j)
                  = w.sale.invoices[j].paid - Collected(w.sale, j) - Held(w, 3, j)
             /\ x.sale.invoices[j].status = "none" =>
                  /\ w.sale.invoices[j].status = "none"
                  /\ x.sale.invoices[j].paid <= w.sale.invoices[j].paid
  <2>1. /\ w.sale.invoices[j].paid \in Int /\ w.sale.invoices[j].due \in Int
        /\ Collected(w.sale, j) \in Nat /\ n \in Nat
    BY <1>0, Amounts
  <2>2. Collected(x.sale, j) = Collected(w.sale, j) /\ Held(x, 3 + 1, j) = 0
        /\ Held(w, 3, j) = IF j = i THEN n ELSE 0
    BY <1>2 DEF Collected, Held
  <2>3. IF j = i THEN /\ x.sale.invoices[j].paid = w.sale.invoices[j].paid + (-n)
                      /\ x.sale.invoices[j].due = w.sale.invoices[j].due - (-n)
                      /\ x.sale.invoices[j].status = w.sale.invoices[j].status
        ELSE x.sale.invoices[j] = w.sale.invoices[j]
    BY <1>0, <1>1 DEF Moved
  <2> HIDE DEF n
  <2> QED
    BY <2>1, <2>2, <2>3
<1> QED
  BY <1>2, <1>4, <1>5 DEF Progress, Balanced

\* The document saved covers what its request held.
LEMMA SavePaymentProgress ==
  ASSUME NEW w, Stage(w, 4), w.request.kind = "pay", NEW x, x = SavePayment(w), x.ok
  PROVE  Progress(w, x, 4)
<1> DEFINE i == w.request.invoice
           n == w.request.amount
<1>0. w \in Works /\ i \in Invoices /\ w.sale.payments \in PaymentTables /\ Placed(w.sale)
  BY Documents DEF Stage, SaleDocs, PaymentTables
<1>1. PICK p \in Payments :
              /\ w.sale.payments[p].status = "none"
              /\ Otherwise(w, x)
              /\ x.sale.invoices = w.sale.invoices
              /\ x.sale.payments \in PaymentTables
              /\ \A r \in Payments \ {p} : x.sale.payments[r] = w.sale.payments[r]
              /\ x.sale.payments[p].status = "completed"
              /\ x.sale.payments[p].invoice = i
              /\ x.sale.payments[p].amount = n
  BY <1>0, SavePaymentEffect, StopQuiet
<1>2. x \in Works /\ x.request = w.request /\ x.sale.subscription = w.sale.subscription
  BY <1>1 DEF Otherwise
<1>3. Placed(x.sale) /\ Forward(w.sale, x.sale)
  BY <1>0, <1>1 DEF Placed, Forward
<1>4. Stage(x, 4 + 1)
  BY <1>2, <1>3 DEF Stage
<1>5. ASSUME NEW j \in Invoices
      PROVE  x.sale.invoices[j].paid - Collected(x.sale, j) - Held(x, 4 + 1, j)
                  = w.sale.invoices[j].paid - Collected(w.sale, j) - Held(w, 4, j)
  <2>1. /\ w.sale.invoices[j].paid \in Int /\ Collected(w.sale, j) \in Nat /\ n \in Nat
    BY <1>0, Amounts
  <2>2. Collected(x.sale, j) = Collected(w.sale, j) + IF i = j THEN n ELSE 0
    BY <1>0, <1>1, CollectedGrows DEF Collected
  <2>3. Held(x, 4 + 1, j) = 0 /\ Held(w, 4, j) = IF i = j THEN n ELSE 0
    BY <1>2 DEF Held
  <2> HIDE DEF i, n
  <2> QED
    BY <1>1, <2>1, <2>2, <2>3
<1>6. Balanced(w, x, 4)
  BY <1>0, <1>1, <1>5, Amounts DEF Balanced
<1> QED
  BY <1>2, <1>3, <1>4, <1>6 DEF Progress

\* A voided payment counts no more; its request holds the amount until it is returned.
LEMMA VoidPaymentProgress ==
  ASSUME NEW w, Stage(w, 2), w.request.kind = "void", NEW x, x = VoidPayment(w), x.ok
  PROVE  Progress(w, x, 2)
<1> DEFINE p == w.request.payment
           i == w.request.invoice
           n == Pay(w).amount
<1>0. /\ w \in Works /\ i \in Invoices /\ w.sale.payments \in PaymentTables /\ Placed(w.sale)
      /\ Pay(w).invoice = i
  BY Documents DEF Stage, SaleDocs, PaymentTables
<1>1. /\ p \in Payments /\ w.sale.payments[p].status = "completed"
      /\ Otherwise(w, x)
      /\ x.sale.invoices = w.sale.invoices
      /\ x.sale.payments \in PaymentTables
      /\ \A r \in Payments \ {p} : x.sale.payments[r] = w.sale.payments[r]
      /\ x.sale.payments[p].status = "voided"
      /\ x.sale.payments[p].invoice = w.sale.payments[p].invoice
      /\ x.sale.payments[p].amount = w.sale.payments[p].amount
  BY <1>0, VoidPaymentEffect, StopQuiet
<1>2. x \in Works /\ x.request = w.request /\ x.sale.subscription = w.sale.subscription
  BY <1>1 DEF Otherwise
<1>3. Placed(x.sale) /\ Forward(w.sale, x.sale)
  BY <1>0, <1>1 DEF Placed, Forward
<1>4. Pay(x).status = "voided" /\ Pay(x).invoice = i /\ Pay(x).amount = n
  BY <1>0, <1>1, <1>2 DEF Pay
<1>5. Stage(x, 2 + 1)
  BY <1>0, <1>2, <1>3, <1>4 DEF Stage
<1>6. ASSUME NEW j \in Invoices
      PROVE  x.sale.invoices[j].paid - Collected(x.sale, j) - Held(x, 2 + 1, j)
                  = w.sale.invoices[j].paid - Collected(w.sale, j) - Held(w, 2, j)
  <2>1. /\ w.sale.invoices[j].paid \in Int /\ Collected(x.sale, j) \in Nat /\ n \in Nat
    BY <1>0, <1>2, Amounts
  <2>2. Collected(w.sale, j) = Collected(x.sale, j) + IF i = j THEN n ELSE 0
    <3>1. \A r \in Payments : r # p => w.sale.payments[r] = x.sale.payments[r]
      BY <1>1
    <3>2. w.sale.payments[p].invoice = i /\ w.sale.payments[p].amount = n
      BY <1>0 DEF Pay
    <3>3. x.sale.payments[p].status # "completed"
      BY <1>1
    <3> HIDE DEF p, i, n
    <3>4. CollectedIn(w.sale.payments, j) = CollectedIn(x.sale.payments, j) + IF w.sale.payments[p].invoice = j THEN w.sale.payments[p].amount ELSE 0
      BY <1>0, <1>1, <3>1, <3>3, CollectedGrows
    <3> QED
      BY <3>2, <3>4 DEF Collected
  <2>3. Held(w, 2, j) = 0 /\ Held(x, 2 + 1, j) = IF i = j THEN n ELSE 0
    BY <1>2, <1>4 DEF Held
  <2> HIDE DEF i, n
  <2> QED
    BY <1>1, <2>1, <2>2, <2>3
<1>7. Balanced(w, x, 2)
  BY <1>0, <1>1, <1>6, Amounts DEF Balanced
<1> QED
  BY <1>2, <1>3, <1>5, <1>7 DEF Progress

Kinds == {"finalize", "cancel", "pay", "void", "cancelSale"}

\* A request is of one of five kinds.
LEMMA KindOf ==
  ASSUME NEW w \in Works
  PROVE  w.request.kind \in Kinds
<1>1. w.request \in RequestDocs
  BY DEF Works
<1> QED
  BY <1>1 DEF RequestDocs, Kinds

\* The program of each kind.
LEMMA ProgramIs ==
  /\ Program.finalize = <<"LoadDraft", "RedeemPoints", "RedeemEntry", "SaveFinalized">>
  /\ Program.cancel = <<"LoadCancellable", "RestorePoints", "RestoreEntry", "SaveCancelled">>
  /\ Program.pay = <<"LoadPayable", "TakePayment", "SaveStatus", "SavePayment", "ReadAccount",
                     "AwardPoints", "AwardEntry", "Activate">>
  /\ Program.void = <<"LoadPayment", "VoidPayment", "ReturnAmount", "SaveStatus", "ReadAccount",
                      "ReversePoints", "ReverseEntry", "Deactivate">>
  /\ Program.cancelSale = <<"CancelSale", "CancelUnpaid">>
BY DEF Program

\* The lengths of the programs, in steps.
LEMMA ProgramLength ==
  /\ Len(Program.finalize) = 4 /\ Len(Program.cancel) = 4 /\ Len(Program.pay) = 8
  /\ Len(Program.void) = 8 /\ Len(Program.cancelSale) = 2
  /\ \A kind \in Kinds : DOMAIN Program[kind] = 1..Len(Program[kind])
BY ProgramIs DEF Kinds

\* Which step is whose, and where.
LEMMA Positions ==
  ASSUME NEW kind \in Kinds, NEW at \in 1..Len(Program[kind]), NEW step, step = Program[kind][at]
  PROVE  \/ kind = "finalize" /\ \/ at = 1 /\ step = "LoadDraft"
                                 \/ at = 2 /\ step = "RedeemPoints"
                                 \/ at = 3 /\ step = "RedeemEntry"
                                 \/ at = 4 /\ step = "SaveFinalized"
         \/ kind = "cancel" /\ \/ at = 1 /\ step = "LoadCancellable"
                               \/ at = 2 /\ step = "RestorePoints"
                               \/ at = 3 /\ step = "RestoreEntry"
                               \/ at = 4 /\ step = "SaveCancelled"
         \/ kind = "pay" /\ \/ at = 1 /\ step = "LoadPayable"
                            \/ at = 2 /\ step = "TakePayment"
                            \/ at = 3 /\ step = "SaveStatus"
                            \/ at = 4 /\ step = "SavePayment"
                            \/ at = 5 /\ step = "ReadAccount"
                            \/ at = 6 /\ step = "AwardPoints"
                            \/ at = 7 /\ step = "AwardEntry"
                            \/ at = 8 /\ step = "Activate"
         \/ kind = "void" /\ \/ at = 1 /\ step = "LoadPayment"
                             \/ at = 2 /\ step = "VoidPayment"
                             \/ at = 3 /\ step = "ReturnAmount"
                             \/ at = 4 /\ step = "SaveStatus"
                             \/ at = 5 /\ step = "ReadAccount"
                             \/ at = 6 /\ step = "ReversePoints"
                             \/ at = 7 /\ step = "ReverseEntry"
                             \/ at = 8 /\ step = "Deactivate"
         \/ kind = "cancelSale" /\ \/ at = 1 /\ step = "CancelSale"
                                   \/ at = 2 /\ step = "CancelUnpaid"
<1>1. CASE kind = "finalize"
  BY <1>1, ProgramIs
<1>2. CASE kind = "cancel"
  BY <1>2, ProgramIs
<1>3. CASE kind = "pay"
  BY <1>3, ProgramIs
<1>4. CASE kind = "void"
  BY <1>4, ProgramIs
<1>5. CASE kind = "cancelSale"
  BY <1>5, ProgramIs
<1> QED
  BY <1>1, <1>2, <1>3, <1>4, <1>5 DEF Kinds

\* What each name of a step does.
LEMMA DoIs ==
  ASSUME NEW w
  PROVE  /\ Do("LoadDraft", w) = LoadDraft(w) /\ Do("RedeemPoints", w) = RedeemPoints(w)
         /\ Do("RedeemEntry", w) = RedeemEntry(w) /\ Do("SaveFinalized", w) = SaveFinalized(w)
         /\ Do("LoadCancellable", w) = LoadCancellable(w)
         /\ Do("RestorePoints", w) = RestorePoints(w) /\ Do("RestoreEntry", w) = RestoreEntry(w)
         /\ Do("SaveCancelled", w) = SaveCancelled(w) /\ Do("LoadPayable", w) = LoadPayable(w)
         /\ Do("TakePayment", w) = TakePayment(w) /\ Do("SaveStatus", w) = SaveStatus(w)
         /\ Do("SavePayment", w) = SavePayment(w) /\ Do("ReadAccount", w) = ReadAccount(w)
         /\ Do("AwardPoints", w) = AwardPoints(w) /\ Do("AwardEntry", w) = AwardEntry(w)
         /\ Do("Activate", w) = Activate(w) /\ Do("LoadPayment", w) = LoadPayment(w)
         /\ Do("VoidPayment", w) = VoidPayment(w) /\ Do("ReturnAmount", w) = ReturnAmount(w)
         /\ Do("ReversePoints", w) = ReversePoints(w) /\ Do("ReverseEntry", w) = ReverseEntry(w)
         /\ Do("Deactivate", w) = Deactivate(w) /\ Do("CancelSale", w) = CancelSale(w)
         /\ Do("CancelUnpaid", w) = CancelUnpaid(w)
BY DEF Do

\* Every step of a request, whichever, makes progress.
LEMMA StepProgress ==
  ASSUME NEW w, NEW at, Stage(w, at), at \in 1..Len(Program[w.request.kind]),
         NEW x, x = Do(Program[w.request.kind][at], w), x.ok
  PROVE  Progress(w, x, at)
<1> DEFINE kind == w.request.kind
           step == Program[kind][at]
<1>0. w \in Works /\ kind \in Kinds /\ at \in Nat
  BY KindOf, ProgramLength DEF Stage, Kinds
<1>1. \/ kind # "void" /\ w.request.invoice \in Invoices
      \/ kind = "void" /\ at >= 2 /\ w.request.invoice \in Invoices
      \/ kind = "void" /\ at = 1
  BY <1>0, Documents, ProgramLength DEF Stage, Kinds
<1> HIDE DEF kind, step
<1>p. /\ x = Do(step, w) /\ kind = w.request.kind /\ kind \in Kinds /\ at \in 1..Len(Program[kind])
      /\ step = Program[kind][at]
  BY <1>0 DEF step, kind
<1>2. CASE kind = "finalize"
  <2>1. Still(w, x)
    BY <1>0, <1>1, <1>2, <1>p, Positions, DoIs, QuietSteps, StillSteps
  <2> QED
    BY <1>0, <1>1, <1>2, <1>p, <2>1, StillProgress
<1>3. CASE kind = "cancel"
  <2>1. Still(w, x)
    BY <1>0, <1>1, <1>3, <1>p, Positions, DoIs, QuietSteps, StillSteps
  <2> QED
    BY <1>0, <1>1, <1>3, <1>p, <2>1, StillProgress
<1>4. CASE kind = "pay"
  <2>1. CASE at = 2
    BY <1>0, <1>4, <1>p, <2>1, Positions, DoIs, TakePaymentProgress
  <2>2. CASE at = 4
    BY <1>0, <1>4, <1>p, <2>2, Positions, DoIs, SavePaymentProgress
  <2>3. CASE at \notin {2, 4}
    <3>1. Still(w, x)
      BY <1>0, <1>1, <1>4, <1>p, <2>3, Positions, DoIs, QuietSteps, StillSteps
    <3> QED
      BY <1>0, <1>1, <1>4, <1>p, <2>3, <3>1, StillProgress
  <2> QED
    BY <2>1, <2>2, <2>3
<1>5. CASE kind = "void"
  <2>1. CASE at = 1
    BY <1>0, <1>5, <1>p, <2>1, Positions, DoIs, LoadPaymentProgress
  <2>2. CASE at = 2
    BY <1>0, <1>5, <1>p, <2>2, Positions, DoIs, VoidPaymentProgress
  <2>3. CASE at = 3
    BY <1>0, <1>5, <1>p, <2>3, Positions, DoIs, ReturnAmountProgress
  <2>4. CASE at >= 4
    <3>1. Still(w, x)
      BY <1>0, <1>1, <1>5, <1>p, <2>4, Positions, DoIs, QuietSteps, StillSteps
    <3> QED
      BY <1>0, <1>1, <1>5, <1>p, <2>4, <3>1, StillProgress
  <2>5. at \in Nat /\ at >= 1
    BY <1>0, <1>5, <1>p, ProgramLength
  <2> QED
    BY <2>1, <2>2, <2>3, <2>4, <2>5
<1>6. CASE kind = "cancelSale"
  <2>1. Still(w, x)
    BY <1>0, <1>1, <1>6, <1>p, Positions, DoIs, QuietSteps, StillSteps
  <2> QED
    BY <1>0, <1>1, <1>6, <1>p, <2>1, StillProgress
<1> QED
  BY <1>0, <1>2, <1>3, <1>4, <1>5, <1>6 DEF Kinds

-----------------------------------------------------------------------------
(* A whole request in one step: the run of its program.                     *)

F == INSTANCE FoldSteps WITH Op <- Then

\* A run that ends well went through the states of its steps, each of which ended well.
LEMMA RunStates ==
  ASSUME NEW w, NEW p, NEW n \in Nat, DOMAIN p = 1..n, Run(w, p).ok
  PROVE  \E v : /\ v[0] = w /\ v[n] = Run(w, p)
                /\ \A k \in 1..n : v[k].ok /\ v[k] = Do(p[k], v[k - 1])
<1>1. Run(w, p) = F!Folded(w, p, 1..n)
  <2>1. Run(w, p) = (CHOOSE g : g = [T \in SUBSET (DOMAIN p) |->
          IF T = {} THEN w ELSE Then(g[T \ {Max(T)}], p[Max(T)])])[DOMAIN p]
    BY DEF Run, FoldLeft, MapThenFoldSet
  <2> QED
    BY <2>1, Zenon DEF F!Folded, F!IsFoldOn, F!FoldStep, F!Greatest, Max
<1>2. PICK v : /\ v[0] = w
               /\ \A k \in 1..n : v[k] = Then(v[k - 1], p[k])
               /\ Run(w, p) = v[n]
  BY <1>1, F!FoldIsRun DEF F!IsRun
\* a step that fails is the last one to do anything
<1>3. ASSUME NEW m \in 0..n, ~v[m].ok PROVE FALSE
  <2> DEFINE T == {k \in Nat : m + k <= n => ~v[m + k].ok}
  <2>1. 0 \in T
    BY <1>3
  <2>2. ASSUME NEW k \in Nat, k \in T PROVE k + 1 \in T
    <3> SUFFICES ASSUME m + (k + 1) <= n PROVE ~v[m + (k + 1)].ok
      OBVIOUS
    <3>1. ~v[m + k].ok
      BY <2>2
    <3>2. m + (k + 1) \in 1..n /\ (m + (k + 1)) - 1 = m + k
      OBVIOUS
    <3>3. v[m + (k + 1)] = Then(v[m + k], p[m + (k + 1)])
      BY <1>2, <3>2
    <3> QED
      BY <3>1, <3>3 DEF Then
  <2>3. Nat \subseteq T
    <3> HIDE DEF T
    <3> QED
      BY <2>1, <2>2, Induction
  <2>4. n - m \in T /\ m + (n - m) = n
    BY <2>3
  <2> QED
    BY <1>2, <2>4
<1>4. ASSUME NEW k \in 1..n PROVE v[k].ok /\ v[k] = Do(p[k], v[k - 1])
  <2>1. k \in 0..n /\ k - 1 \in 0..n
    OBVIOUS
  <2>2. v[k].ok /\ v[k - 1].ok
    BY <1>3, <2>1
  <2> QED
    BY <1>2, <2>2 DEF Then
<1> QED
  BY <1>2, <1>4

\* A request that completes made progress at each of its steps.
LEMMA RunProgress ==
  ASSUME NEW w, Stage(w, 1), NEW p, p = Program[w.request.kind], NEW n, n = Len(p),
         NEW x, x = Run(w, p), x.ok
  PROVE  \E v : /\ v[0] = w /\ v[n] = x
                /\ \A k \in 1..n : /\ v[k].ok /\ v[k] = Do(p[k], v[k - 1])
                                   /\ Stage(v[k - 1], k) /\ v[k - 1].request.kind = w.request.kind
                                   /\ Progress(v[k - 1], v[k], k)
<1>1. w.request.kind \in Kinds /\ n \in Nat /\ DOMAIN p = 1..n
  BY KindOf, ProgramLength DEF Stage, Kinds
<1>2. PICK v : /\ v[0] = w /\ v[n] = x
               /\ \A k \in 1..n : v[k].ok /\ v[k] = Do(p[k], v[k - 1])
  BY <1>1, RunStates
<1> DEFINE Good(k) == Stage(v[k], k + 1) /\ v[k].request.kind = w.request.kind
           T == {k \in Nat : k <= n => Good(k)}
<1>3. ASSUME NEW k \in 1..n, k - 1 \in T
      PROVE  /\ Stage(v[k - 1], k) /\ v[k - 1].request.kind = w.request.kind
             /\ Progress(v[k - 1], v[k], k)
  <2>1. k - 1 <= n /\ (k - 1) + 1 = k
    BY <1>1
  <2>2. Good(k - 1)
    BY <1>3, <2>1
  <2>3. Stage(v[k - 1], k) /\ v[k - 1].request.kind = w.request.kind
    BY <2>1, <2>2
  <2>4. v[k] = Do(p[k], v[k - 1]) /\ v[k].ok
    BY <1>2
  <2>5. k \in 1..Len(Program[v[k - 1].request.kind]) /\ p[k] = Program[v[k - 1].request.kind][k]
    BY <2>3
  <2> QED
    BY <2>3, <2>4, <2>5, StepProgress
<1>4. 0 \in T
  <2>1. Good(0)
    BY <1>2
  <2> QED
    BY <2>1
<1>5. ASSUME NEW k \in Nat, k \in T PROVE k + 1 \in T
  <2> HIDE DEF Good
  <2> SUFFICES ASSUME k + 1 <= n PROVE Good(k + 1)
    OBVIOUS
  <2>1. k + 1 \in 1..n /\ (k + 1) - 1 = k
    BY <1>1
  <2> HIDE DEF T
  <2>2. v[k].request.kind = w.request.kind /\ Progress(v[k], v[k + 1], k + 1)
    BY <1>3, <1>5, <2>1
  <2> QED
    BY <2>2 DEF Progress, Good
<1>6. Nat \subseteq T
  <2> HIDE DEF T
  <2> QED
    BY <1>4, <1>5, Induction
<1>7. ASSUME NEW k \in 1..n
      PROVE  /\ Stage(v[k - 1], k) /\ v[k - 1].request.kind = w.request.kind
             /\ Progress(v[k - 1], v[k], k)
  <2>1. k - 1 \in T
    BY <1>6
  <2> HIDE DEF T
  <2> QED
    BY <1>3, <2>1
<1> QED
  BY <1>2, <1>7

\* What a completed request leaves: its invoices balance, and the amount shown
\* but not documented is what it was.
LEMMA RunBalanced ==
  ASSUME NEW w, Stage(w, 1), NEW x, x = Run(w, Program[w.request.kind]), x.ok
  PROVE  /\ x \in Works /\ Placed(x.sale)
         /\ \A i \in Invoices :
              /\ x.sale.invoices[i].paid + x.sale.invoices[i].due
                   = w.sale.invoices[i].paid + w.sale.invoices[i].due
              /\ w.sale.invoices[i].due >= 0 => x.sale.invoices[i].due >= 0
              /\ x.sale.invoices[i].paid - Collected(x.sale, i)
                   = w.sale.invoices[i].paid - Collected(w.sale, i)
              /\ x.sale.invoices[i].status = "none" =>
                   /\ w.sale.invoices[i].status = "none"
                   /\ x.sale.invoices[i].paid <= w.sale.invoices[i].paid
         /\ w.sale.subscription = "cancelled" => x.sale.subscription = "cancelled"
<1> DEFINE p == Program[w.request.kind]
           n == Len(p)
<1>1. w.request.kind \in Kinds
  BY KindOf DEF Stage
<1>2. n \in Nat /\ n >= 1 /\ (w.request.kind \in {"pay", "void"} => n = 8)
  <2>1. \A kind \in Kinds : /\ Len(Program[kind]) \in Nat /\ Len(Program[kind]) >= 1
                            /\ kind \in {"pay", "void"} => Len(Program[kind]) = 8
    BY ProgramLength DEF Kinds
  <2> QED
    BY <1>1, <2>1
<1>3. \E v : /\ v[0] = w /\ v[n] = x
             /\ \A k \in 1..n : /\ v[k].ok /\ v[k] = Do(p[k], v[k - 1])
                                /\ Stage(v[k - 1], k) /\ v[k - 1].request.kind = w.request.kind
                                /\ Progress(v[k - 1], v[k], k)
  <2> HIDE DEF n
  <2> QED
    BY RunProgress DEF n
<1> HIDE DEF n, p
<1>4. PICK v : /\ v[0] = w /\ v[n] = x
               /\ \A k \in 1..n : /\ Stage(v[k - 1], k) /\ v[k - 1].request.kind = w.request.kind
                                  /\ Progress(v[k - 1], v[k], k)
  BY <1>3
<1> DEFINE Same(k) ==
             /\ \A i \in Invoices :
                  /\ v[k].sale.invoices[i].paid + v[k].sale.invoices[i].due
                       = w.sale.invoices[i].paid + w.sale.invoices[i].due
                  /\ w.sale.invoices[i].due >= 0 => v[k].sale.invoices[i].due >= 0
                  /\ v[k].sale.invoices[i].paid - Collected(v[k].sale, i) - Held(v[k], k + 1, i)
                       = w.sale.invoices[i].paid - Collected(w.sale, i) - Held(w, 1, i)
                  /\ v[k].sale.invoices[i].status = "none" =>
                       /\ w.sale.invoices[i].status = "none"
                       /\ v[k].sale.invoices[i].paid <= w.sale.invoices[i].paid
             /\ w.sale.subscription = "cancelled" => v[k].sale.subscription = "cancelled"
           T == {k \in Nat : k <= n => Same(k)}
<1>5. 0 \in T
  <2>1. \A i \in Invoices : w.sale.invoices[i].paid \in Int
    BY Amounts DEF Stage
  <2>2. Same(0)
    BY <1>4, <2>1
  <2> QED
    BY <2>2
<1>6. ASSUME NEW k \in Nat, k \in T PROVE k + 1 \in T
  <2> HIDE DEF Same
  <2> SUFFICES ASSUME k + 1 <= n PROVE Same(k + 1)
    OBVIOUS
  <2>1. k + 1 \in 1..n /\ (k + 1) - 1 = k /\ k <= n
    BY <1>2
  <2>2. Progress(v[k], v[k + 1], k + 1)
    BY <1>4, <2>1
  <2>3. Same(k)
    BY <1>6, <2>1
  <2>4. \A i \in Invoices : /\ w.sale.invoices[i].paid \in Int
                            /\ v[k].sale.invoices[i].paid \in Int
                            /\ v[k + 1].sale.invoices[i].paid \in Int
    <3>1. v[k] \in Works
      BY <1>4, <2>1 DEF Stage
    <3>2. v[k + 1] \in Works
      BY <2>2 DEF Progress, Stage
    <3> QED
      BY <3>1, <3>2, Amounts DEF Stage
  <2> QED
    BY <2>2, <2>3, <2>4 DEF Progress, Balanced, Same
<1>7. Nat \subseteq T
  <2> HIDE DEF T
  <2> QED
    BY <1>5, <1>6, Induction
<1>8. Same(n)
  BY <1>2, <1>7
<1>9. Stage(x, n + 1) /\ x.request.kind = w.request.kind
  <2>1. n \in 1..n
    BY <1>2
  <2>2. Progress(v[n - 1], v[n], n) /\ v[n - 1].request.kind = w.request.kind
    BY <1>4, <2>1
  <2> QED
    BY <1>4, <2>2 DEF Progress
<1>10. ASSUME NEW i \in Invoices
       PROVE  /\ Held(x, n + 1, i) = 0 /\ Held(w, 1, i) = 0
              /\ x.sale.invoices[i].paid \in Int /\ Collected(x.sale, i) \in Int
              /\ w.sale.invoices[i].paid \in Int /\ Collected(w.sale, i) \in Int
  <2>1. Held(x, n + 1, i) = 0 /\ Held(w, 1, i) = 0
    BY <1>2, <1>9 DEF Held
  <2> QED
    BY <1>9, <2>1, Amounts DEF Stage
<1> HIDE DEF Same
<1>11. ASSUME NEW i \in Invoices
       PROVE  x.sale.invoices[i].paid - Collected(x.sale, i)
                = w.sale.invoices[i].paid - Collected(w.sale, i)
  <2>1. x.sale.invoices[i].paid - Collected(x.sale, i) - Held(x, n + 1, i)
          = w.sale.invoices[i].paid - Collected(w.sale, i) - Held(w, 1, i)
    BY <1>4, <1>8 DEF Same
  <2> QED
    BY <1>10, <2>1
<1> QED
  BY <1>4, <1>8, <1>9, <1>11 DEF Stage, Same

-----------------------------------------------------------------------------
(* The inductive invariant.                                                 *)

\* A request that goes on with these documents.
On(s, a, kept) ==
  [sale |-> s, account |-> a, request |-> kept.request, doc |-> kept.doc,
   customer |-> kept.customer, settled |-> kept.settled, ok |-> TRUE]

\* Every request under way is where its program has taken it.
OnCourse(s, a, requests) ==
  \A q \in Requests :
    requests[q] \notin {Idle, Done} =>
      /\ requests[q].at \in 1..Len(Program[requests[q].work.request.kind])
      /\ Stage(On(s, a, requests[q].work), requests[q].at)

HeldBy(s, a, request, i) ==
  IF request \in {Idle, Done} THEN 0 ELSE Held(On(s, a, request.work), request.at, i)
HeldFor(s, a, requests, i) ==
  SumFunctionOnSet([q \in Requests |-> HeldBy(s, a, requests[q], i)], Requests)

\* What an invoice shows as paid covers the payments that count and whatever the
\* requests under way have taken or are about to return.
Covered(s, a, requests, exactly) ==
  \A i \in Invoices :
    /\ s.invoices[i].paid + s.invoices[i].due = Payable
    /\ s.invoices[i].due >= 0
    /\ Collected(s, i) + HeldFor(s, a, requests, i) <= s.invoices[i].paid
    /\ exactly => Collected(s, i) = s.invoices[i].paid
    /\ s.invoices[i].status = "none" => s.invoices[i].paid <= 0

BooksInv ==
  /\ atomically \in BOOLEAN
  /\ sale \in SaleDocs /\ Placed(sale) /\ account \in Accounts
  /\ active = [q \in Requests |-> active[q]]
  /\ atomically => \A q \in Requests : active[q] \in {Idle, Done}
  /\ OnCourse(sale, account, active)
  /\ Covered(sale, account, active, atomically)

-----------------------------------------------------------------------------
(* With transactions.                                                       *)

\* Every invoice carries the payment status its amounts give it, only a
\* finalized one holds money, and points are redeemed for none that redeems none.
Derived(s, a) ==
  \A i \in Invoices :
    /\ s.invoices[i].payment = DerivePaymentStatus(s.invoices[i].paid, s.invoices[i].due)
    /\ s.invoices[i].status # "finalized" => s.invoices[i].paid = 0
    /\ Recorded(a, RedeemKey(i)) => s.invoices[i].redeem > 0 /\ s.invoices[i].status # "none"

Explained(a) == a.points - a.debt = InitialPoints + LedgerTotal(a)

Opened(s) ==
  s.subscription = "active" =>
    \E i \in Invoices : s.invoices[i].status = "finalized" /\ s.invoices[i].payment = "paid"

Restored(s, a) ==
  \A i \in Invoices :
    s.invoices[i].status = "cancelled" /\ Recorded(a, RedeemKey(i)) =>
      Recorded(a, RestoreKey(i)) \/ s.subscription = "cancelled"

Standing(s, a) == Derived(s, a) /\ Explained(a) /\ Opened(s) /\ Restored(s, a)

StandingInv == atomically => Standing(sale, account)

\* What a request holds does not depend on what others write.
LEMMA HeldKeeps ==
  ASSUME NEW s, NEW a, NEW kept, NEW at \in Nat, Stage(On(s, a, kept), at),
         NEW t \in SaleDocs, NEW b \in Accounts, Placed(t), Forward(s, t)
  PROVE  /\ Stage(On(t, b, kept), at)
         /\ \A i \in Invoices : Held(On(t, b, kept), at, i) = Held(On(s, a, kept), at, i)
<1> DEFINE w == On(s, a, kept)
           x == On(t, b, kept)
<1>1. /\ w.sale = s /\ w.request = kept.request /\ x.sale = t /\ x.request = kept.request
      /\ w.doc = kept.doc /\ w.customer = kept.customer /\ w.settled = kept.settled
  BY DEF On
<1>2. w \in Works /\ (kept.request.kind = "void" => kept.request.payment \in Payments)
  <2>1. w \in Works /\ w.request \in RequestDocs
    BY DEF Stage, Works
  <2> QED
    BY <1>1, <2>1 DEF RequestDocs
<1>3. kept.request \in RequestDocs /\ kept.doc \in InvoiceDocs /\ kept.customer \in Accounts
      /\ kept.settled \in BOOLEAN
  BY <1>1, <1>2 DEF Works
<1>4. x \in Works
  BY <1>3 DEF On, Works
<1>5. Pay(w) = s.payments[kept.request.payment] /\ Pay(x) = t.payments[kept.request.payment]
  BY <1>1 DEF Pay
<1>6. kept.request.kind = "void" /\ at >= 2 =>
        /\ kept.request.invoice \in Invoices
        /\ Pay(w).status # "none" /\ Pay(w).invoice = kept.request.invoice
        /\ Pay(x).status # "none" /\ Pay(x).invoice = kept.request.invoice
        /\ Pay(x).amount = Pay(w).amount
  BY <1>1, <1>2, <1>5 DEF Stage, Forward
<1>7. kept.request.kind = "void" /\ at >= 3 => Pay(x).status = "voided"
  BY <1>1, <1>2, <1>5 DEF Stage, Forward
<1> HIDE DEF w, x
<1>8. Stage(x, at)
  BY <1>1, <1>4, <1>6, <1>7 DEF Stage
<1>9. \A i \in Invoices : Held(x, at, i) = Held(w, at, i)
  BY <1>1, <1>6 DEF Held
<1> QED
  BY <1>8, <1>9 DEF w, x

\* The length of every program.
LEMMA ProgramsEnd ==
  \A kind \in Kinds : /\ Len(Program[kind]) \in Nat /\ Len(Program[kind]) >= 1
                      /\ kind \in {"pay", "void"} => Len(Program[kind]) = 8
<1> DEFINE length(kind) == Len(Program[kind])
<1>1. /\ length("finalize") = 4 /\ length("cancel") = 4 /\ length("pay") = 8
      /\ length("void") = 8 /\ length("cancelSale") = 2
  BY ProgramLength
<1> HIDE DEF length
<1>2. \A kind \in Kinds : /\ length(kind) \in Nat /\ length(kind) >= 1
                          /\ kind \in {"pay", "void"} => length(kind) = 8
  BY <1>1 DEF Kinds
<1> QED
  BY <1>2 DEF length

\* The position of a request under way is one of its program.
LEMMA AtIsNat ==
  ASSUME NEW s, NEW a, NEW requests, OnCourse(s, a, requests), NEW q \in Requests,
         requests[q] \notin {Idle, Done}
  PROVE  requests[q].at \in Nat
<1> DEFINE w == On(s, a, requests[q].work)
<1>1. requests[q].at \in 1..Len(Program[w.request.kind]) /\ w \in Works
  BY DEF OnCourse, Stage, On
<1> HIDE DEF w
<1>2. w.request.kind \in Kinds
  BY <1>1, KindOf
<1> QED
  BY <1>1, <1>2, ProgramsEnd

\* What one request writes leaves the others on course, holding what they held.
LEMMA OthersKeep ==
  ASSUME NEW s, NEW a, NEW requests, OnCourse(s, a, requests),
         NEW t \in SaleDocs, NEW b \in Accounts, Placed(t), Forward(s, t)
  PROVE  /\ OnCourse(t, b, requests)
         /\ \A q \in Requests : \A i \in Invoices :
              HeldBy(t, b, requests[q], i) = HeldBy(s, a, requests[q], i)
<1>1. ASSUME NEW q \in Requests, requests[q] \notin {Idle, Done}
      PROVE  /\ Stage(On(t, b, requests[q].work), requests[q].at)
             /\ \A i \in Invoices : Held(On(t, b, requests[q].work), requests[q].at, i)
                                      = Held(On(s, a, requests[q].work), requests[q].at, i)
  <2>1. Stage(On(s, a, requests[q].work), requests[q].at) /\ requests[q].at \in Nat
    BY <1>1, AtIsNat DEF OnCourse
  <2> QED
    BY <2>1, HeldKeeps
<1>2. OnCourse(t, b, requests)
  BY <1>1 DEF OnCourse
<1>3. \A q \in Requests : \A i \in Invoices :
        HeldBy(t, b, requests[q], i) = HeldBy(s, a, requests[q], i)
  BY <1>1 DEF HeldBy
<1> QED
  BY <1>2, <1>3

\* What a request holds is a natural number.
LEMMA HeldIsNat ==
  ASSUME NEW s, NEW a, NEW requests, OnCourse(s, a, requests), NEW i \in Invoices
  PROVE  \A q \in Requests : HeldBy(s, a, requests[q], i) \in Nat
<1> SUFFICES ASSUME NEW q \in Requests, requests[q] \notin {Idle, Done}
             PROVE  Held(On(s, a, requests[q].work), requests[q].at, i) \in Nat
  BY DEF HeldBy
<1>1. On(s, a, requests[q].work) \in Works
  BY DEF OnCourse, Stage
<1> QED
  BY <1>1, Amounts

\* What the requests hold for an invoice is a natural number.
LEMMA HeldForIsNat ==
  ASSUME NEW s, NEW a, NEW requests, OnCourse(s, a, requests), NEW i \in Invoices
  PROVE  HeldFor(s, a, requests, i) \in Nat
<1> DEFINE f == [q \in Requests |-> HeldBy(s, a, requests[q], i)]
<1>1. \A q \in Requests : f[q] \in Nat
  BY HeldIsNat
<1>2. IsFiniteSet(Requests)
  BY SettlementAssumption
<1> HIDE DEF f
<1>3. SumFunctionOnSet(f, Requests) \in Nat
  BY <1>1, <1>2, SumNat
<1> QED
  BY <1>3 DEF HeldFor, f

\* Money comes back to the same total when nobody's holding changes.
LEMMA SameHeld ==
  ASSUME NEW s, NEW a, NEW t, NEW b, NEW requests, NEW i,
         \A q \in Requests : HeldBy(t, b, requests[q], i) = HeldBy(s, a, requests[q], i)
  PROVE  HeldFor(t, b, requests, i) = HeldFor(s, a, requests, i)
<1>1. [q \in Requests |-> HeldBy(t, b, requests[q], i)]
        = [q \in Requests |-> HeldBy(s, a, requests[q], i)]
  OBVIOUS
<1> QED
  BY <1>1 DEF HeldFor

\* With no request under way, nothing is held.
LEMMA NothingHeld ==
  ASSUME NEW s, NEW a, NEW requests, \A q \in Requests : requests[q] \in {Idle, Done}
  PROVE  OnCourse(s, a, requests) /\ \A i \in Invoices : HeldFor(s, a, requests, i) = 0
<1>1. ASSUME NEW i \in Invoices PROVE HeldFor(s, a, requests, i) = 0
  <2> DEFINE f == [q \in Requests |-> HeldBy(s, a, requests[q], i)]
  <2>1. \A q \in Requests : f[q] = 0
    BY DEF HeldBy
  <2>2. IsFiniteSet(Requests)
    BY SettlementAssumption
  <2> HIDE DEF f
  <2>3. SumFunctionOnSet(f, Requests) = 0
    BY <2>1, <2>2, SumZero
  <2> QED
    BY <2>3 DEF HeldFor, f
<1> QED
  BY <1>1 DEF OnCourse

\* One request changes what it holds.
LEMMA HeldChanges ==
  ASSUME NEW s, NEW a, NEW requests, OnCourse(s, a, requests),
         NEW t, NEW b, NEW others, OnCourse(t, b, others), NEW q \in Requests,
         NEW i \in Invoices,
         \A r \in Requests \ {q} : HeldBy(t, b, others[r], i) = HeldBy(s, a, requests[r], i)
  PROVE  /\ HeldFor(t, b, others, i)
              = HeldFor(s, a, requests, i) + HeldBy(t, b, others[q], i) - HeldBy(s, a, requests[q], i)
         /\ HeldFor(s, a, requests, i) \in Nat
<1> DEFINE f == [r \in Requests |-> HeldBy(s, a, requests[r], i)]
           h == [r \in Requests |-> HeldBy(t, b, others[r], i)]
<1>1. IsFiniteSet(Requests)
  BY SettlementAssumption
<1>2. \A r \in Requests : f[r] \in Nat /\ h[r] \in Nat
  BY HeldIsNat
<1>3. \A r \in Requests \ {q} : f[r] = h[r]
  OBVIOUS
<1>4. f[q] = HeldBy(s, a, requests[q], i) /\ h[q] = HeldBy(t, b, others[q], i)
  OBVIOUS
<1> HIDE DEF f, h
<1>5. SumFunctionOnSet(h, Requests) = SumFunctionOnSet(f, Requests) + h[q] - f[q]
  <2>1. \A r \in Requests : f[r] \in Int /\ h[r] \in Int
    BY <1>2
  <2> QED
    BY <1>1, <1>3, <2>1, SumChange
<1>6. SumFunctionOnSet(f, Requests) \in Nat
  BY <1>1, <1>2, SumNat
<1>7. /\ HeldFor(t, b, others, i) = SumFunctionOnSet(h, Requests)
      /\ HeldFor(s, a, requests, i) = SumFunctionOnSet(f, Requests)
  BY DEF HeldFor, f, h
<1> QED
  BY <1>4, <1>5, <1>6, <1>7

\* At first nothing is paid, and nothing is held.
LEMMA BooksInit == SettleInit => BooksInv
<1> SUFFICES ASSUME SettleInit PROVE BooksInv
  OBVIOUS
<1>1. PICK s \in {"none", "pending_payment"} :
        sale = [invoices |-> [i \in Invoices |-> NewInvoice],
                payments |-> [p \in Payments |-> NewPayment],
                subscription |-> s, consumed |-> FALSE, loyaltyEnabled |-> TRUE]
  BY DEF SettleInit
<1>2. NewInvoice \in InvoiceDocs /\ NewPayment \in PaymentDocs
  BY SettlementAssumption DEF NewInvoice, NewPayment, InvoiceDocs, PaymentDocs, InvoiceStatus, PaymentStates
<1>3. sale \in SaleDocs
  BY <1>1, <1>2 DEF SaleDocs, SaleStatus
<1>4. /\ \A p \in Payments : sale.payments[p].status = "none"
      /\ \A i \in Invoices : sale.invoices[i] = NewInvoice
  BY <1>1 DEF NewPayment
<1>5. account \in Accounts
  <2>1. {} \in Ledgers
    BY FS_EmptySet DEF Ledgers
  <2> QED
    BY <2>1, SettlementAssumption DEF SettleInit, Accounts
<1>6. atomically \in BOOLEAN /\ active = [q \in Requests |-> Idle]
  BY DEF SettleInit
<1>7. \A q \in Requests : active[q] \in {Idle, Done}
  BY <1>6
<1>8. OnCourse(sale, account, active) /\ \A i \in Invoices : HeldFor(sale, account, active, i) = 0
  BY <1>7, NothingHeld
<1>9. \A i \in Invoices : Collected(sale, i) = 0
  BY <1>4, NoneCollected DEF Collected
<1>10. Covered(sale, account, active, atomically)
  BY <1>4, <1>8, <1>9, SettlementAssumption DEF Covered, NewInvoice
<1>11. Placed(sale)
  BY <1>4 DEF Placed
<1> QED
  BY <1>3, <1>5, <1>6, <1>7, <1>8, <1>10, <1>11 DEF BooksInv

\* Writes that move no money and leave the requests under way alone.
LEMMA BooksKept ==
  ASSUME BooksInv, NEW t \in SaleDocs, NEW b \in Accounts, t.payments = sale.payments,
         \A i \in Invoices :
           /\ t.invoices[i].paid = sale.invoices[i].paid
           /\ t.invoices[i].due = sale.invoices[i].due
           /\ t.invoices[i].status = "none" => sale.invoices[i].status = "none"
  PROVE  Placed(t) /\ OnCourse(t, b, active) /\ Covered(t, b, active, atomically)
<1>1. Placed(t) /\ Forward(sale, t) /\ OnCourse(sale, account, active)
  BY DEF BooksInv, Placed, Forward
<1>2. /\ OnCourse(t, b, active)
      /\ \A q \in Requests : \A i \in Invoices :
           HeldBy(t, b, active[q], i) = HeldBy(sale, account, active[q], i)
  BY <1>1, OthersKeep
<1>3. \A i \in Invoices : HeldFor(t, b, active, i) = HeldFor(sale, account, active, i)
  BY <1>2, SameHeld
<1>4. \A i \in Invoices : Collected(t, i) = Collected(sale, i)
  BY DEF Collected
<1>5. Covered(t, b, active, atomically)
  BY <1>3, <1>4 DEF BooksInv, Covered
<1> QED
  BY <1>1, <1>2, <1>5

\* The fields of a new draft.
LEMMA NewDraft ==
  ASSUME NEW d, NEW due, NEW n,
         d = [[status |-> "none", paid |-> 0, due |-> due, payment |-> "unpaid",
               redeem |-> 0, version |-> 0] EXCEPT !.status = "draft", !.redeem = n]
  PROVE  d = [status |-> "draft", paid |-> 0, due |-> due, payment |-> "unpaid",
              redeem |-> n, version |-> 0]
OBVIOUS

\* A draft takes the place of an invoice that held nothing.
LEMMA BooksCreate ==
  ASSUME BooksInv, NEW i \in Invoices, NEW n \in RedeemChoices, CreateInvoice(i, n)
  PROVE  BooksInv'
<1> DEFINE d == [NewInvoice EXCEPT !.status = "draft", !.redeem = n]
<1>1. /\ sale.invoices[i].status = "none" /\ sale' = [sale EXCEPT !.invoices[i] = d]
      /\ UNCHANGED <<atomically, account, active>>
  BY DEF CreateInvoice
<1>2. d \in InvoiceDocs /\ d.paid = 0 /\ d.due = Payable /\ d.status = "draft"
  <2>1. d = [status |-> "draft", paid |-> 0, due |-> Payable, payment |-> "unpaid",
             redeem |-> n, version |-> 0]
    BY NewDraft DEF NewInvoice
  <2>2. n \in Nat /\ Payable \in Int
    BY SettlementAssumption
  <2> HIDE DEF d
  <2> QED
    BY <2>1, <2>2 DEF InvoiceDocs, InvoiceStatus, PaymentStates
<1> HIDE DEF d
<1>3. sale \in SaleDocs /\ account \in Accounts
  BY DEF BooksInv
<1>4. /\ sale' \in SaleDocs /\ sale'.payments = sale.payments /\ sale'.invoices[i] = d
      /\ \A j \in Invoices \ {i} : sale'.invoices[j] = sale.invoices[j]
  BY <1>1, <1>2, <1>3 DEF SaleDocs
<1>5. sale.invoices[i].paid = 0 /\ sale.invoices[i].due = Payable
  <2>1. /\ sale.invoices[i].paid + sale.invoices[i].due = Payable
        /\ Collected(sale, i) + HeldFor(sale, account, active, i) <= sale.invoices[i].paid
        /\ sale.invoices[i].paid <= 0
    BY <1>1 DEF BooksInv, Covered
  <2>2. HeldFor(sale, account, active, i) \in Nat
    BY HeldForIsNat DEF BooksInv
  <2>3. Collected(sale, i) \in Nat
    BY <1>3, CollectedIsNat DEF Collected, SaleDocs, PaymentTables
  <2>4. sale.invoices[i].paid \in Int /\ sale.invoices[i].due \in Int /\ Payable \in Int
    BY <1>3, SettlementAssumption DEF SaleDocs, InvoiceDocs
  <2> QED
    BY <2>1, <2>2, <2>3, <2>4
<1>6. \A j \in Invoices :
           /\ sale'.invoices[j].paid = sale.invoices[j].paid
           /\ sale'.invoices[j].due = sale.invoices[j].due
           /\ sale'.invoices[j].status = "none" => sale.invoices[j].status = "none"
  BY <1>2, <1>4, <1>5
<1>7. Placed(sale') /\ OnCourse(sale', account, active) /\ Covered(sale', account, active, atomically)
  BY <1>3, <1>4, <1>6, BooksKept
<1> QED
  BY <1>1, <1>3, <1>4, <1>7 DEF BooksInv

\* What is submitted is a request.
LEMMA SubmittedIsRequest == Submitted \subseteq RequestDocs
<1>1. 1..Payable \subseteq Nat
  BY SettlementAssumption
<1> QED
  BY <1>1 DEF Submitted, RequestDocs

\* A request starts with nothing established.
LEMMA WorkStage ==
  ASSUME BooksInv, NEW r \in Submitted
  PROVE  Stage(Work(r), 1) /\ Work(r).request = r /\ Work(r).sale = sale
         /\ Work(r).account = account /\ Work(r).ok = TRUE
<1>1. NewInvoice \in InvoiceDocs
  BY SettlementAssumption DEF NewInvoice, InvoiceDocs, InvoiceStatus, PaymentStates
<1>2. Work(r) = [sale |-> sale, account |-> account, request |-> r, doc |-> NewInvoice,
                 customer |-> account, settled |-> FALSE, ok |-> TRUE]
  BY DEF Work, Resumed
<1>3. Work(r) \in Works
  BY <1>1, <1>2, SubmittedIsRequest DEF BooksInv, Works
<1> QED
  BY <1>2, <1>3 DEF BooksInv, Stage

\* Versions that restart change no amount and no status.
LEMMA UnversionedSale ==
  ASSUME NEW s \in SaleDocs, NEW t, t = Unversioned(s)
  PROVE  /\ t \in SaleDocs /\ t.payments = s.payments /\ t.subscription = s.subscription
         /\ t.consumed = s.consumed /\ t.loyaltyEnabled = s.loyaltyEnabled
         /\ \A i \in Invoices :
              /\ t.invoices[i].paid = s.invoices[i].paid
              /\ t.invoices[i].due = s.invoices[i].due
              /\ t.invoices[i].status = s.invoices[i].status
              /\ t.invoices[i].payment = s.invoices[i].payment
              /\ t.invoices[i].redeem = s.invoices[i].redeem
<1> DEFINE table == [i \in Invoices |-> [s.invoices[i] EXCEPT !.version = 0]]
<1>1. t = [s EXCEPT !.invoices = table]
  BY DEF Unversioned
<1>2. \A i \in Invoices :
        /\ table[i] \in InvoiceDocs
        /\ table[i].paid = s.invoices[i].paid
        /\ table[i].due = s.invoices[i].due
        /\ table[i].status = s.invoices[i].status
        /\ table[i].payment = s.invoices[i].payment
        /\ table[i].redeem = s.invoices[i].redeem
  BY DEF SaleDocs, InvoiceDocs
<1>3. table \in [Invoices -> InvoiceDocs]
  BY <1>2
<1> HIDE DEF table
<1>4. /\ t \in SaleDocs /\ t.invoices = table
      /\ t.payments = s.payments /\ t.subscription = s.subscription
      /\ t.consumed = s.consumed /\ t.loyaltyEnabled = s.loyaltyEnabled
  BY <1>1, <1>3 DEF SaleDocs
<1> QED
  BY <1>2, <1>4

\* Nor do they change points or ledger.
LEMMA UnversionedAccount ==
  ASSUME NEW a \in Accounts, NEW b, b = [a EXCEPT !.version = 0]
  PROVE  b \in Accounts /\ b.points = a.points /\ b.debt = a.debt /\ b.ledger = a.ledger
BY DEF Accounts

\* A program run as one transaction keeps the books, as its steps do one by one.
LEMMA BooksTransact ==
  ASSUME BooksInv, NEW r \in Submitted, Transact(r)
  PROVE  BooksInv' /\ (sale.subscription = "cancelled" => sale'.subscription = "cancelled")
<1> DEFINE w == Work(r)
           x == Run(w, Program[r.kind])
<1>1. /\ x.ok /\ sale' = Unversioned(x.sale) /\ account' = [x.account EXCEPT !.version = 0]
      /\ UNCHANGED <<atomically, active>>
      /\ \A q \in Requests : active[q] \in {Idle, Done}
  BY DEF Transact
<1>2. Stage(w, 1) /\ w.request = r /\ w.sale = sale
  BY WorkStage
<1> HIDE DEF w
<1>3. /\ x \in Works /\ Placed(x.sale)
      /\ \A i \in Invoices :
           /\ x.sale.invoices[i].paid + x.sale.invoices[i].due
                = sale.invoices[i].paid + sale.invoices[i].due
           /\ sale.invoices[i].due >= 0 => x.sale.invoices[i].due >= 0
           /\ x.sale.invoices[i].paid - Collected(x.sale, i)
                = sale.invoices[i].paid - Collected(sale, i)
           /\ x.sale.invoices[i].status = "none" =>
                /\ sale.invoices[i].status = "none"
                /\ x.sale.invoices[i].paid <= sale.invoices[i].paid
      /\ sale.subscription = "cancelled" => x.sale.subscription = "cancelled"
  BY <1>1, <1>2, RunBalanced
<1> HIDE DEF x
<1>4. x.sale \in SaleDocs /\ x.account \in Accounts
  BY <1>3 DEF Works
<1>5. /\ sale' \in SaleDocs /\ sale'.payments = x.sale.payments
      /\ sale'.subscription = x.sale.subscription
      /\ \A i \in Invoices : /\ sale'.invoices[i].paid = x.sale.invoices[i].paid
                             /\ sale'.invoices[i].due = x.sale.invoices[i].due
                             /\ sale'.invoices[i].status = x.sale.invoices[i].status
  BY <1>1, <1>4, UnversionedSale
<1>6. account' \in Accounts
  BY <1>1, <1>4, UnversionedAccount
<1>7. Placed(sale')
  BY <1>3, <1>5 DEF Placed
<1>8. /\ OnCourse(sale', account', active)
      /\ \A i \in Invoices : /\ HeldFor(sale', account', active, i) = 0
                             /\ HeldFor(sale, account, active, i) = 0
  BY <1>1, NothingHeld
<1>9. Covered(sale', account', active, atomically)
  <2> SUFFICES ASSUME NEW i \in Invoices
               PROVE  /\ sale'.invoices[i].paid + sale'.invoices[i].due = Payable
                      /\ sale'.invoices[i].due >= 0
                      /\ Collected(sale', i) <= sale'.invoices[i].paid
                      /\ atomically => Collected(sale', i) = sale'.invoices[i].paid
                      /\ sale'.invoices[i].status = "none" => sale'.invoices[i].paid <= 0
    <3>1. \A i \in Invoices : Collected(sale', i) \in Nat
      BY <1>5, CollectedIsNat DEF Collected, SaleDocs, PaymentTables
    <3> QED
      BY <1>8, <3>1 DEF Covered
  <2>1. /\ sale.invoices[i].paid + sale.invoices[i].due = Payable
        /\ sale.invoices[i].due >= 0
        /\ Collected(sale, i) + 0 <= sale.invoices[i].paid
        /\ atomically => Collected(sale, i) = sale.invoices[i].paid
        /\ sale.invoices[i].status = "none" => sale.invoices[i].paid <= 0
    BY <1>8 DEF BooksInv, Covered
  <2>2. Collected(sale', i) = Collected(x.sale, i)
    BY <1>5 DEF Collected
  <2>3. /\ Collected(sale, i) \in Int /\ Collected(x.sale, i) \in Int
        /\ sale.invoices[i].paid \in Int /\ sale.invoices[i].due \in Int
        /\ x.sale.invoices[i].paid \in Int /\ x.sale.invoices[i].due \in Int
    BY <1>2, <1>3, Amounts DEF Stage
  <2> QED
    BY <1>3, <1>5, <2>1, <2>2, <2>3
<1> QED
  BY <1>1, <1>3, <1>5, <1>6, <1>7, <1>8, <1>9 DEF BooksInv

\* A request takes its place, or leaves it.
LEMMA BooksStart ==
  ASSUME BooksInv, NEW q \in Requests, NEW r \in Submitted, Start(q, r)
  PROVE  BooksInv'
<1> DEFINE frame == [at |-> 1, work |-> Kept(Work(r))]
<1>1. /\ ~atomically /\ active[q] = Idle /\ active' = [active EXCEPT ![q] = frame]
      /\ UNCHANGED <<atomically, sale, account>>
  BY DEF Start
<1>2. Stage(Work(r), 1) /\ Work(r).request = r /\ Work(r).sale = sale
      /\ Work(r).account = account /\ Work(r).ok = TRUE
  BY WorkStage
<1>3. On(sale, account, frame.work) = Work(r) /\ frame.at = 1 /\ frame.work.request = r
  BY <1>2 DEF On, Kept, Work, Resumed
<1>4. 1 \in 1..Len(Program[r.kind])
  <2>1. r.kind \in Kinds
    BY <1>2, KindOf DEF Stage
  <2> QED
    BY <2>1, ProgramsEnd
<1> HIDE DEF frame
<1>5. active'[q] = frame /\ \A other \in Requests \ {q} : active'[other] = active[other]
  BY <1>1 DEF BooksInv
<1>6. OnCourse(sale, account, active) /\ OnCourse(sale, account, active')
  BY <1>2, <1>3, <1>4, <1>5 DEF BooksInv, OnCourse
<1>7. ASSUME NEW i \in Invoices
      PROVE  HeldFor(sale, account, active', i) = HeldFor(sale, account, active, i)
  <2>1. HeldBy(sale, account, active'[q], i) = 0 /\ HeldBy(sale, account, active[q], i) = 0
    BY <1>1, <1>3, <1>5 DEF HeldBy, Held
  <2>2. \A other \in Requests : HeldBy(sale, account, active'[other], i)
                                  = HeldBy(sale, account, active[other], i)
    BY <1>5, <2>1
  <2>3. [p \in Requests |-> HeldBy(sale, account, active'[p], i)]
          = [p \in Requests |-> HeldBy(sale, account, active[p], i)]
    BY <2>2
  <2> QED
    BY <2>3 DEF HeldFor
<1>8. active' = [p \in Requests |-> active'[p]]
  BY <1>1 DEF BooksInv
<1>9. Covered(sale, account, active', atomically)
  BY <1>7 DEF BooksInv, Covered
<1> QED
  BY <1>1, <1>6, <1>8, <1>9 DEF BooksInv

\* A crash releases what its request held: the invoice still covers the payments.
LEMMA BooksCrash ==
  ASSUME BooksInv, NEW q \in Requests, Crash(q)
  PROVE  BooksInv'
<1>1. /\ active[q] \notin {Idle, Done} /\ active' = [active EXCEPT ![q] = Done]
      /\ UNCHANGED <<atomically, sale, account>> /\ ~atomically
  BY DEF Crash, BooksInv
<1>2. active'[q] = Done /\ \A other \in Requests \ {q} : active'[other] = active[other]
  BY <1>1 DEF BooksInv
<1>3. OnCourse(sale, account, active) /\ OnCourse(sale, account, active')
  BY <1>2 DEF BooksInv, OnCourse
<1>4. ASSUME NEW i \in Invoices
      PROVE  HeldFor(sale, account, active', i) <= HeldFor(sale, account, active, i)
             /\ HeldFor(sale, account, active', i) \in Int
             /\ HeldFor(sale, account, active, i) \in Int
  <2>1. HeldBy(sale, account, active'[q], i) = 0 /\ HeldBy(sale, account, active[q], i) \in Nat
    BY <1>2, <1>3, HeldIsNat DEF HeldBy
  <2>2. \A other \in Requests \ {q} : HeldBy(sale, account, active'[other], i)
                                        = HeldBy(sale, account, active[other], i)
    BY <1>2
  <2>3. /\ HeldFor(sale, account, active', i)
              = HeldFor(sale, account, active, i) + HeldBy(sale, account, active'[q], i)
                  - HeldBy(sale, account, active[q], i)
        /\ HeldFor(sale, account, active, i) \in Nat
    BY <1>3, <2>2, HeldChanges
  <2> QED
    BY <2>1, <2>3
<1>5. active' = [p \in Requests |-> active'[p]]
  BY <1>1 DEF BooksInv
<1>6. \A i \in Invoices : Collected(sale, i) \in Nat /\ sale.invoices[i].paid \in Int
  BY CollectedIsNat DEF BooksInv, Collected, SaleDocs, PaymentTables, InvoiceDocs
<1>7. Covered(sale, account, active', atomically)
  BY <1>4, <1>6 DEF BooksInv, Covered
<1> QED
  BY <1>1, <1>3, <1>5, <1>7 DEF BooksInv

\* A request takes its next step: what it takes or returns, it holds.
LEMMA BooksAdvance ==
  ASSUME BooksInv, NEW q \in Requests, Advance(q)
  PROVE  BooksInv' /\ (sale.subscription = "cancelled" => sale'.subscription = "cancelled")
<1> DEFINE w == On(sale, account, active[q].work)
           at == active[q].at
           kind == active[q].work.request.kind
           x == Do(Program[kind][at], w)
           next == IF x.ok /\ at < Len(Program[kind]) THEN [at |-> at + 1, work |-> Kept(x)] ELSE Done
<1>1. /\ active[q] \notin {Idle, Done}
      /\ sale' = IF x.ok THEN x.sale ELSE sale
      /\ account' = IF x.ok THEN x.account ELSE account
      /\ active' = [active EXCEPT ![q] = next] /\ atomically' = atomically /\ ~atomically
  <2>1. Resumed(active[q].work) = w
    BY DEF Resumed, On
  <2>2. ~atomically
    BY DEF Advance, BooksInv
  <2> QED
    BY <2>1, <2>2 DEF Advance
<1>2. OnCourse(sale, account, active) /\ Stage(w, at) /\ kind = w.request.kind
      /\ at \in 1..Len(Program[w.request.kind]) /\ at \in Nat /\ w.sale = sale
  BY <1>1, AtIsNat DEF BooksInv, OnCourse, On
<1>3. /\ active'[q] = next /\ \A other \in Requests \ {q} : active'[other] = active[other]
      /\ active' = [p \in Requests |-> active'[p]]
  BY <1>1 DEF BooksInv
<1> HIDE DEF next
<1>4. CASE ~x.ok
  <2>1. next = Done /\ sale' = sale /\ account' = account
    BY <1>1, <1>4 DEF next
  <2>2. Crash(q)
    BY <1>1, <2>1 DEF Crash
  <2> QED
    BY <2>1, <2>2, BooksCrash
<1>5. CASE x.ok
  <2>1. Progress(w, x, at)
    <3> HIDE DEF w, at
    <3> QED
      BY <1>2, <1>5, StepProgress
  <2>2. /\ sale' = x.sale /\ account' = x.account /\ x \in Works
        /\ Placed(sale') /\ Forward(sale, sale') /\ Stage(x, at + 1)
        /\ x.request.kind = kind
    BY <1>1, <1>2, <1>5, <2>1 DEF Progress, Stage
  <2>3. On(sale', account', Kept(x)) = x
    BY <1>5, <2>2 DEF On, Kept, Works
  <2> HIDE DEF x, w, at, kind
  <2>4. sale' \in SaleDocs /\ account' \in Accounts
    BY <2>2 DEF Works
  <2>5. /\ OnCourse(sale', account', active)
        /\ \A p \in Requests : \A i \in Invoices :
             HeldBy(sale', account', active[p], i) = HeldBy(sale, account, active[p], i)
    BY <1>2, <2>2, <2>4, OthersKeep
  <2>6. next \notin {Idle, Done} =>
          next.at = at + 1 /\ next.work = Kept(x) /\ at + 1 \in 1..Len(Program[kind])
    BY <1>2 DEF next
  <2>7. OnCourse(sale', account', active')
    <3>1. ASSUME next \notin {Idle, Done}
          PROVE  /\ next.at \in 1..Len(Program[next.work.request.kind])
                 /\ Stage(On(sale', account', next.work), next.at)
      <4>1. next.work.request.kind = kind
        BY <2>2, <2>6, <3>1 DEF Kept
      <4> QED
        BY <2>2, <2>3, <2>6, <3>1, <4>1
    <3> QED
      BY <1>3, <2>5, <3>1 DEF OnCourse
  <2>8. ASSUME NEW i \in Invoices
        PROVE  /\ sale'.invoices[i].paid + sale'.invoices[i].due = Payable
               /\ sale'.invoices[i].due >= 0
               /\ Collected(sale', i) + HeldFor(sale', account', active', i)
                    <= sale'.invoices[i].paid
               /\ sale'.invoices[i].status = "none" => sale'.invoices[i].paid <= 0
    <3>1. /\ HeldBy(sale', account', next, i) <= Held(x, at + 1, i)
          /\ HeldBy(sale', account', next, i) \in Nat
          /\ Held(x, at + 1, i) \in Nat
      <4>1. Held(x, at + 1, i) \in Nat
        BY <2>2, Amounts
      <4>2. next \notin {Idle, Done} => HeldBy(sale', account', next, i) = Held(x, at + 1, i)
        BY <2>3, <2>6 DEF HeldBy
      <4>3. next \in {Idle, Done} => HeldBy(sale', account', next, i) = 0
        BY DEF HeldBy
      <4> QED
        BY <4>1, <4>2, <4>3
    <3>2. HeldBy(sale, account, active[q], i) = Held(w, at, i)
      BY <1>1 DEF HeldBy, w, at
    <3>3. /\ HeldFor(sale', account', active', i)
                = HeldFor(sale, account, active, i) + HeldBy(sale', account', next, i) - Held(w, at, i)
          /\ HeldFor(sale, account, active, i) \in Nat
      <4>1. \A r \in Requests \ {q} : HeldBy(sale', account', active'[r], i)
                                        = HeldBy(sale, account, active[r], i)
        BY <1>3, <2>5
      <4> QED
        BY <1>2, <1>3, <2>7, <3>2, <4>1, HeldChanges
    <3>4. /\ sale.invoices[i].paid \in Int /\ sale.invoices[i].due \in Int
          /\ sale'.invoices[i].paid \in Int /\ sale'.invoices[i].due \in Int
          /\ Collected(sale, i) \in Int /\ Collected(sale', i) \in Int
          /\ Held(w, at, i) \in Nat
      <4>1. w \in Works
        BY <1>2 DEF Stage
      <4> QED
        BY <1>2, <2>2, <4>1, Amounts
    <3>5. /\ sale.invoices[i].paid + sale.invoices[i].due = Payable
          /\ sale.invoices[i].due >= 0
          /\ Collected(sale, i) + HeldFor(sale, account, active, i) <= sale.invoices[i].paid
          /\ sale.invoices[i].status = "none" => sale.invoices[i].paid <= 0
      BY DEF BooksInv, Covered
    <3>6. /\ sale'.invoices[i].paid + sale'.invoices[i].due
               = sale.invoices[i].paid + sale.invoices[i].due
          /\ sale.invoices[i].due >= 0 => sale'.invoices[i].due >= 0
          /\ sale'.invoices[i].paid - Collected(sale', i) - Held(x, at + 1, i)
               = sale.invoices[i].paid - Collected(sale, i) - Held(w, at, i)
          /\ sale'.invoices[i].status = "none" =>
               /\ sale.invoices[i].status = "none"
               /\ sale'.invoices[i].paid <= sale.invoices[i].paid
      BY <1>2, <2>1, <2>2 DEF Progress, Balanced
    <3> QED
      BY <3>1, <3>3, <3>4, <3>5, <3>6
  <2>9. Covered(sale', account', active', atomically)
    BY <1>1, <2>8 DEF Covered
  <2>10. sale.subscription = "cancelled" => sale'.subscription = "cancelled"
    BY <1>2, <2>1, <2>2 DEF Progress
  <2>11. atomically' \in BOOLEAN /\ ~atomically'
    BY <1>1 DEF BooksInv
  <2> QED
    BY <1>1, <1>3, <2>2, <2>4, <2>7, <2>9, <2>10, <2>11 DEF BooksInv
<1> QED
  BY <1>4, <1>5

\* The writes that concern neither invoices nor payments.
LEMMA BooksAside ==
  ASSUME BooksInv, UNCHANGED <<atomically, active>>, sale' \in SaleDocs, account' \in Accounts,
         sale'.invoices = sale.invoices, sale'.payments = sale.payments
  PROVE  BooksInv'
<1>1. Placed(sale') /\ OnCourse(sale', account', active) /\ Covered(sale', account', active, atomically)
  BY BooksKept
<1> QED
  BY <1>1 DEF BooksInv

\* An adjustment of points touches no document of the sale.
LEMMA BooksAdjust ==
  ASSUME BooksInv, NEW key \in Keys, NEW delta \in {-1, 1}, AdjustPoints(key, delta)
  PROVE  BooksInv' /\ sale' = sale
<1> DEFINE a == IF delta < 0 THEN Spent(account, -delta) ELSE Credited(account, delta)
<1>1. /\ account' = Entered(a, AdjustKey(key), delta) /\ UNCHANGED <<atomically, sale, active>>
      /\ delta >= 0 \/ CanSpend(account, -delta)
  BY DEF AdjustPoints
<1>2. a \in Accounts
  <2>1. account \in Accounts /\ delta \in Int /\ (delta < 0 => -delta \in Nat) /\ (~(delta < 0) => delta \in Nat)
    BY DEF BooksInv
  <2>2. delta < 0 => CanSpend(account, -delta)
    BY <1>1, <2>1
  <2> QED
    BY <2>1, <2>2, SpentAccount, CreditedAccount
<1> HIDE DEF a
<1>3. AdjustKey(key) \in EntryKeys /\ delta \in Int
  BY DEF EntryKeys
<1>4. account' \in Accounts
  BY <1>1, <1>2, <1>3, EnteredAccount
<1>5. sale' \in SaleDocs /\ sale' = sale
  BY <1>1 DEF BooksInv
<1> QED
  BY <1>1, <1>4, <1>5, BooksAside

\* Nor does a change of the settings.
LEMMA BooksConfig ==
  ASSUME BooksInv, UpdateConfig
  PROVE  BooksInv' /\ sale'.subscription = sale.subscription
<1>1. /\ sale' = [sale EXCEPT !.loyaltyEnabled = ~sale.loyaltyEnabled]
      /\ UNCHANGED <<atomically, account, active>>
  BY DEF UpdateConfig
<1>2. sale \in SaleDocs /\ account \in Accounts
  BY DEF BooksInv
<1>3. /\ sale' \in SaleDocs /\ sale'.invoices = sale.invoices /\ sale'.payments = sale.payments
      /\ sale'.subscription = sale.subscription
  BY <1>1, <1>2 DEF SaleDocs
<1> QED
  BY <1>1, <1>2, <1>3, BooksAside

\* The end of a subscription touches no amount, and spares a cancelled subscription.
LEMMA BooksClose ==
  ASSUME BooksInv, NEW status \in {"exhausted", "expired"}, CloseSale(status)
  PROVE  BooksInv' /\ sale.subscription # "cancelled"
<1>1. /\ sale.subscription \in {"active", "pending_payment"}
      /\ sale' = [sale EXCEPT !.subscription = status,
                              !.consumed = sale.consumed \/ status = "exhausted"]
      /\ UNCHANGED <<atomically, account, active>>
  BY DEF CloseSale
<1>2. sale \in SaleDocs /\ account \in Accounts
  BY DEF BooksInv
<1>3. sale' \in SaleDocs /\ sale'.invoices = sale.invoices /\ sale'.payments = sale.payments
  <2> DEFINE consumed == (sale.consumed \/ status = "exhausted")
  <2>1. consumed \in BOOLEAN /\ status \in SaleStatus
    BY DEF SaleStatus
  <2> HIDE DEF consumed
  <2>2. sale' = [sale EXCEPT !.subscription = status, !.consumed = consumed]
    BY <1>1 DEF consumed
  <2> QED
    BY <1>2, <2>1, <2>2 DEF SaleDocs
<1> QED
  BY <1>1, <1>2, <1>3, BooksAside

\* Every step keeps the books, and leaves a cancelled subscription cancelled.
LEMMA BooksStep ==
  BooksInv /\ [SettleNext]_settleVars =>
    BooksInv' /\ (sale.subscription = "cancelled" => sale'.subscription = "cancelled")
<1> SUFFICES ASSUME BooksInv, [SettleNext]_settleVars
             PROVE  BooksInv' /\ (sale.subscription = "cancelled" => sale'.subscription = "cancelled")
  OBVIOUS
<1>1. ASSUME NEW i \in Invoices, NEW n \in RedeemChoices, CreateInvoice(i, n)
      PROVE  BooksInv' /\ sale'.subscription = sale.subscription
  <2>1. sale'.subscription = sale.subscription
    BY <1>1 DEF CreateInvoice, BooksInv, SaleDocs
  <2> QED
    BY <1>1, <2>1, BooksCreate
<1>2. ASSUME NEW q \in Requests, NEW r \in Submitted, Start(q, r) PROVE BooksInv' /\ sale' = sale
  BY <1>2, BooksStart DEF Start
<1>3. ASSUME NEW q \in Requests, Crash(q) PROVE BooksInv' /\ sale' = sale
  BY <1>3, BooksCrash DEF Crash
<1>4. CASE UNCHANGED settleVars
  BY <1>4 DEF settleVars, BooksInv, Placed, OnCourse, Covered
<1> QED
  BY <1>1, <1>2, <1>3, <1>4, BooksTransact, BooksAdvance, BooksAdjust, BooksConfig, BooksClose
     DEF SettleNext

\* The books balance in every state, in either mode, wherever requests stop.
THEOREM BooksInvariant == SettleSpec => []BooksInv
<1>1. SettleInit => BooksInv
  BY BooksInit
<1>2. BooksInv /\ [SettleNext]_settleVars => BooksInv'
  BY BooksStep
<1> QED
  BY <1>1, <1>2, PTL DEF SettleSpec

\* The types of what a sale and a customer's standing are made of.
THEOREM SettleTypeCorrect == SettleSpec => []SettleTypeOK
<1>1. BooksInv => SettleTypeOK
  BY DEF BooksInv, SettleTypeOK, SaleDocs, InvoiceDocs, PaymentDocs, PaymentStates, Accounts
<1> QED
  BY <1>1, BooksInvariant, PTL

\* In either mode, and wherever requests stop.
THEOREM MoneyIsAccounted == SettleSpec => []MoneyAccounted
<1>1. ASSUME BooksInv, NEW i \in Invoices
      PROVE  /\ sale.invoices[i].paid + sale.invoices[i].due = Payable
             /\ sale.invoices[i].due \in 0..Payable
             /\ CollectedFor(i) <= sale.invoices[i].paid
             /\ atomically => CollectedFor(i) = sale.invoices[i].paid
  <2>1. CollectedFor(i) = Collected(sale, i)
    BY DEF CollectedFor, PaymentsOf, Collected, CollectedIn, Completed
  <2>2. /\ sale.invoices[i].paid + sale.invoices[i].due = Payable
        /\ sale.invoices[i].due >= 0
        /\ Collected(sale, i) + HeldFor(sale, account, active, i) <= sale.invoices[i].paid
        /\ atomically => Collected(sale, i) = sale.invoices[i].paid
    BY <1>1 DEF BooksInv, Covered
  <2>3. /\ sale.invoices[i].paid \in Int /\ sale.invoices[i].due \in Int /\ Payable \in Nat
        /\ Collected(sale, i) \in Nat
    BY <1>1, CollectedIsNat, SettlementAssumption
       DEF BooksInv, Collected, SaleDocs, PaymentTables, InvoiceDocs
  <2>4. HeldFor(sale, account, active, i) \in Nat
    BY <1>1, HeldForIsNat DEF BooksInv
  <2>5. sale.invoices[i].due \in 0..Payable /\ Collected(sale, i) <= sale.invoices[i].paid
    BY <2>2, <2>3, <2>4
  <2> QED
    BY <2>1, <2>2, <2>5
<1>2. BooksInv => MoneyAccounted
  BY <1>1 DEF MoneyAccounted
<1> QED
  BY <1>2, BooksInvariant, PTL

\* Whatever is paid or voided on its invoices afterwards.
THEOREM CancellationIsFinal == SettleSpec => CancelledIsFinal
<1>1. BooksInv /\ [SettleNext]_settleVars =>
        [sale.subscription = "cancelled" => sale'.subscription = "cancelled"]_settleVars
  BY BooksStep
<1>2. SettleSpec => [][sale.subscription = "cancelled" => sale'.subscription = "cancelled"]_settleVars
  BY <1>1, BooksInvariant, PTL DEF SettleSpec
<1> QED
  BY <1>2 DEF CancelledIsFinal

-----------------------------------------------------------------------------
(* With transactions nobody writes between the steps of a request, so that  *)
(* what a whole program does is known exactly.                              *)

\* Nothing but the account may differ.
SameSale(w, x) == x \in Works /\ x.sale = w.sale /\ x.request = w.request

\* The invoice of the request is rewritten, and nothing else of the sale.
Rewritten(s, t, i, status, payment) ==
  /\ t \in SaleDocs
  /\ t.payments = s.payments /\ t.subscription = s.subscription
  /\ t.consumed = s.consumed /\ t.loyaltyEnabled = s.loyaltyEnabled
  /\ \A j \in Invoices \ {i} : t.invoices[j] = s.invoices[j]
  /\ t.invoices[i].status = status /\ t.invoices[i].payment = payment
  /\ t.invoices[i].paid = s.invoices[i].paid /\ t.invoices[i].due = s.invoices[i].due
  /\ t.invoices[i].redeem = s.invoices[i].redeem

\* The document saved over another.
Merged(d, status, payment) ==
  [d EXCEPT !.status = status, !.payment = payment, !.version = d.version + 1]

\* The fields of a document saved over another.
LEMMA MergedIs ==
  ASSUME NEW d \in InvoiceDocs, NEW status \in InvoiceStatus, NEW payment \in PaymentStates,
         NEW e, e = Merged(d, status, payment)
  PROVE  /\ e \in InvoiceDocs /\ e.status = status /\ e.payment = payment
         /\ e.paid = d.paid /\ e.due = d.due /\ e.redeem = d.redeem
<1>1. e = [status |-> status, paid |-> d.paid, due |-> d.due, payment |-> payment,
           redeem |-> d.redeem, version |-> d.version + 1]
  BY InvoiceWritten DEF Merged
<1> QED
  BY <1>1 DEF InvoiceDocs

\* A copy that is still the document is saved as it says.
LEMMA SavedFresh ==
  ASSUME NEW w \in Works, w.request.invoice \in Invoices, w.doc = Inv(w),
         NEW new \in InvoiceDocs, new.paid = w.doc.paid, new.due = w.doc.due,
         new.redeem = w.doc.redeem, NEW x, x = SaveInvoice(w, new)
  PROVE  /\ x \in Works /\ x.ok = w.ok
         /\ x.account = w.account /\ x.request = w.request
         /\ x.customer = w.customer /\ x.settled = w.settled
         /\ x.doc.payment = new.payment
         /\ Rewritten(w.sale, x.sale, w.request.invoice, new.status, new.payment)
<1> DEFINE i == w.request.invoice
           merged == Merged(Inv(w), new.status, new.payment)
           doc == [new EXCEPT !.version = new.version + 1]
           s == [w.sale EXCEPT !.invoices[i] = merged]
<1>1. w.sale \in SaleDocs /\ Inv(w) \in InvoiceDocs /\ Inv(w) = w.sale.invoices[i]
  BY Documents DEF Inv
<1>2. (x = w /\ new = w.doc) \/ x = [w EXCEPT !.sale = s, !.doc = doc]
  BY DEF SaveInvoice, Merged
<1>3. CASE x = w /\ new = w.doc
  BY <1>1, <1>3 DEF Rewritten
<1>4. CASE x = [w EXCEPT !.sale = s, !.doc = doc]
  <2>1. /\ merged \in InvoiceDocs /\ merged.status = new.status /\ merged.payment = new.payment
        /\ merged.paid = Inv(w).paid /\ merged.due = Inv(w).due /\ merged.redeem = Inv(w).redeem
    <3>1. new.status \in InvoiceStatus /\ new.payment \in PaymentStates
      BY DEF InvoiceDocs
    <3> QED
      BY <1>1, <3>1, MergedIs
  <2>2. doc \in InvoiceDocs /\ doc.payment = new.payment
    BY DEF InvoiceDocs
  <2> HIDE DEF merged, doc
  <2>3. /\ s \in SaleDocs /\ s.payments = w.sale.payments
        /\ s.subscription = w.sale.subscription
        /\ s.consumed = w.sale.consumed
        /\ s.loyaltyEnabled = w.sale.loyaltyEnabled
        /\ s.invoices[i] = merged
        /\ \A j \in Invoices \ {i} : s.invoices[j] = w.sale.invoices[j]
    BY <1>1, <2>1 DEF SaleDocs
  <2> HIDE DEF s
  <2>4. /\ x \in Works /\ x.ok = w.ok /\ x.sale = s /\ x.account = w.account
        /\ x.request = w.request /\ x.customer = w.customer /\ x.settled = w.settled
        /\ x.doc = doc
    BY <1>4, <2>2, <2>3 DEF Works
  <2> QED
    BY <1>1, <2>1, <2>2, <2>3, <2>4 DEF Rewritten
<1> QED
  BY <1>2, <1>3, <1>4

\* Points are posted: the balance and the ledger move by the same delta.
Posted(a, b, key, delta) ==
  /\ b \in Accounts
  /\ b.points - b.debt = a.points - a.debt + delta
  /\ LedgerTotal(b) = LedgerTotal(a) + delta
  /\ \A other : Recorded(b, other) <=> (Recorded(a, other) \/ other = key)

\* Moving the balance and entering the same delta is a posting.
LEMMA PostedIs ==
  ASSUME NEW a \in Accounts, NEW c \in Accounts, NEW key \in EntryKeys, NEW delta \in Int,
         ~Recorded(a, key), c.ledger = a.ledger,
         c.points - c.debt = a.points - a.debt + delta, NEW b, b = Entered(c, key, delta)
  PROVE  Posted(a, b, key, delta)
<1>1. LedgerTotal(a) = LedgerTotal(c) /\ \A other : Recorded(a, other) <=> Recorded(c, other)
  BY SameLedger
<1>2. /\ b \in Accounts /\ b.points = c.points /\ b.debt = c.debt
      /\ \A other : Recorded(b, other) <=> Recorded(c, other) \/ other = key
  BY EnteredAccount
<1>3. LedgerTotal(b) = LedgerTotal(c) + delta
  BY <1>1, LedgerGrows
<1> QED
  BY <1>1, <1>2, <1>3 DEF Posted

\* A run ends well only when its steps do: the states it goes through.
Own(u, kind) == u \in Works /\ u.request.kind = kind

\* The states a whole program goes through, with their types.
LEMMA States ==
  ASSUME NEW w, Stage(w, 1), NEW kind, w.request.kind = kind,
         NEW p, p = Program[kind], NEW n, n = Len(p), NEW x, x = Run(w, p), x.ok
  PROVE  \E v : /\ v[0] = w /\ v[n] = x
                /\ \A k \in 1..n : /\ v[k].ok /\ v[k] = Do(p[k], v[k - 1])
                                   /\ Own(v[k - 1], kind)
<1>1. PICK v : /\ v[0] = w /\ v[n] = x
               /\ \A k \in 1..n : /\ v[k].ok /\ v[k] = Do(p[k], v[k - 1])
                                  /\ Stage(v[k - 1], k) /\ v[k - 1].request.kind = w.request.kind
  BY RunProgress
<1> QED
  BY <1>1 DEF Stage, Own

\* Those of a program of two steps,
LEMMA TwoSteps ==
  ASSUME NEW w, Stage(w, 1), NEW kind, w.request.kind = kind,
         NEW p, p = Program[kind], NEW x, x = Run(w, p), x.ok
  PROVE  Len(p) = 2 => \E a :
           /\ a = Do(p[1], w) /\ x = Do(p[2], a)
           /\ a.ok
           /\ Own(w, kind) /\ Own(a, kind)
<1> DEFINE n == Len(p)
<1> HIDE DEF n
<1>1. PICK v : /\ v[0] = w /\ v[n] = x
               /\ \A k \in 1..n : /\ v[k].ok /\ v[k] = Do(p[k], v[k - 1])
                                  /\ Own(v[k - 1], kind)
  BY States DEF n
<1>2. ASSUME n = 2
      PROVE
             /\ v[1] = Do(p[1], w) /\ x = Do(p[2], v[1])
             /\ v[1].ok
             /\ Own(w, kind) /\ Own(v[1], kind)
  <2>1. \A k \in {1, 2} : k \in 1..n
    BY <1>2
  <2> QED
    BY <1>1, <1>2, <2>1
<1> QED
  BY <1>2 DEF n

\* of four,
LEMMA FourSteps ==
  ASSUME NEW w, Stage(w, 1), NEW kind, w.request.kind = kind,
         NEW p, p = Program[kind], NEW x, x = Run(w, p), x.ok
  PROVE  Len(p) = 4 => \E a, b, c :
           /\ a = Do(p[1], w) /\ b = Do(p[2], a) /\ c = Do(p[3], b)
           /\ x = Do(p[4], c)
           /\ a.ok /\ b.ok /\ c.ok
           /\ Own(w, kind) /\ Own(a, kind) /\ Own(b, kind) /\ Own(c, kind)
<1> DEFINE n == Len(p)
<1> HIDE DEF n
<1>1. PICK v : /\ v[0] = w /\ v[n] = x
               /\ \A k \in 1..n : /\ v[k].ok /\ v[k] = Do(p[k], v[k - 1])
                                  /\ Own(v[k - 1], kind)
  BY States DEF n
<1>2. ASSUME n = 4
      PROVE
             /\ v[1] = Do(p[1], w) /\ v[2] = Do(p[2], v[1]) /\ v[3] = Do(p[3], v[2])
             /\ x = Do(p[4], v[3])
             /\ v[1].ok /\ v[2].ok /\ v[3].ok
             /\ Own(w, kind) /\ Own(v[1], kind) /\ Own(v[2], kind) /\ Own(v[3], kind)
  <2>1. \A k \in {1, 2, 3, 4} : k \in 1..n
    BY <1>2
  <2> QED
    BY <1>1, <1>2, <2>1
<1> QED
  BY <1>2 DEF n

\* and of eight.
LEMMA EightSteps ==
  ASSUME NEW w, Stage(w, 1), NEW kind, w.request.kind = kind,
         NEW p, p = Program[kind], NEW x, x = Run(w, p), x.ok
  PROVE  Len(p) = 8 => \E a, b, c, d, e, f, g :
           /\ a = Do(p[1], w) /\ b = Do(p[2], a) /\ c = Do(p[3], b)
           /\ d = Do(p[4], c) /\ e = Do(p[5], d) /\ f = Do(p[6], e)
           /\ g = Do(p[7], f) /\ x = Do(p[8], g)
           /\ a.ok /\ b.ok /\ c.ok /\ d.ok /\ e.ok /\ f.ok /\ g.ok
           /\ Own(w, kind) /\ Own(a, kind) /\ Own(b, kind) /\ Own(c, kind)
           /\ Own(d, kind) /\ Own(e, kind) /\ Own(f, kind) /\ Own(g, kind)
<1> DEFINE n == Len(p)
<1> HIDE DEF n
<1>1. PICK v : /\ v[0] = w /\ v[n] = x
               /\ \A k \in 1..n : /\ v[k].ok /\ v[k] = Do(p[k], v[k - 1])
                                  /\ Own(v[k - 1], kind)
  BY States DEF n
<1>2. ASSUME n = 8
      PROVE
             /\ v[1] = Do(p[1], w) /\ v[2] = Do(p[2], v[1]) /\ v[3] = Do(p[3], v[2])
             /\ v[4] = Do(p[4], v[3]) /\ v[5] = Do(p[5], v[4]) /\ v[6] = Do(p[6], v[5])
             /\ v[7] = Do(p[7], v[6]) /\ x = Do(p[8], v[7])
             /\ v[1].ok /\ v[2].ok /\ v[3].ok /\ v[4].ok /\ v[5].ok /\ v[6].ok /\ v[7].ok
             /\ Own(w, kind) /\ Own(v[1], kind) /\ Own(v[2], kind) /\ Own(v[3], kind)
             /\ Own(v[4], kind) /\ Own(v[5], kind) /\ Own(v[6], kind) /\ Own(v[7], kind)
  <2>1. \A k \in {1, 2, 3, 4, 5, 6, 7, 8} : k \in 1..n
    BY <1>2
  <2> QED
    BY <1>1, <1>2, <2>1
<1> QED
  BY <1>2 DEF n

\* Another copy.
WithDoc(w, d) == [w EXCEPT !.doc = d]

\* Reading the invoice into the copy of the request writes nothing.
LEMMA Loaded ==
  ASSUME NEW w \in Works, w.request.invoice \in Invoices,
         NEW x, x = WithDoc(w, Inv(w))
  PROVE  /\ SameSale(w, x) /\ x.account = w.account /\ x.doc = Inv(x)
         /\ x.doc = w.sale.invoices[w.request.invoice] /\ x.settled = w.settled
<1>1. Inv(w) \in InvoiceDocs
  BY Documents
<1>2. x \in Works /\ x.sale = w.sale /\ x.request = w.request /\ x.account = w.account
      /\ x.doc = Inv(w) /\ x.settled = w.settled
  BY <1>1 DEF Works, WithDoc
<1> QED
  BY <1>2 DEF SameSale, Inv

\* The account is written and nothing else.
Charges(w, x, a) ==
  /\ SameSale(w, x) /\ x.account = a /\ x.doc = w.doc /\ x.settled = w.settled

\* A step that writes the account alone.
LEMMA Written ==
  ASSUME NEW w \in Works, NEW a \in Accounts, NEW x, x = [w EXCEPT !.account = a]
  PROVE  Charges(w, x, a)
BY AccountWritten DEF Charges, SameSale, Quiet

\* A step that writes nothing.
LEMMA Untouched ==
  ASSUME NEW w \in Works
  PROVE  Charges(w, w, w.account)
BY DEF Charges, SameSale

\* Finalization: the points the draft redeems are spent and entered once, and the
\* invoice is frozen with the status its amounts give it.
LEMMA FinalizeRun ==
  ASSUME NEW w, Stage(w, 1), w.request.kind = "finalize",
         NEW x, x = Run(w, Program.finalize), x.ok,
         NEW i, i = w.request.invoice, NEW d, d = w.sale.invoices[i]
  PROVE  /\ x \in Works /\ i \in Invoices /\ d.status = "draft"
         /\ Rewritten(w.sale, x.sale, i, "finalized", DerivePaymentStatus(d.paid, d.due))
         /\ IF d.redeem = 0 \/ Recorded(w.account, RedeemKey(i))
              THEN x.account = w.account
              ELSE Posted(w.account, x.account, RedeemKey(i), -d.redeem)
<1>1. PICK a, b, c :
           /\ a = LoadDraft(w) /\ b = RedeemPoints(a) /\ c = RedeemEntry(b) /\ x = SaveFinalized(c)
           /\ a.ok /\ b.ok /\ c.ok
           /\ Own(w, "finalize") /\ Own(a, "finalize") /\ Own(b, "finalize") /\ Own(c, "finalize")
  <2> DEFINE p == Program["finalize"]
  <2>1. Len(p) = 4 /\ "finalize" \in Kinds
    BY ProgramLength DEF Kinds
  <2>2. p[1] = "LoadDraft" /\ p[2] = "RedeemPoints" /\ p[3] = "RedeemEntry" /\ p[4] = "SaveFinalized"
    BY ProgramIs
  <2>3. x = Run(w, p) /\ p = Program["finalize"]
    OBVIOUS
  <2> HIDE DEF p
  <2>4. PICK a, b, c :
           /\ a = Do(p[1], w) /\ b = Do(p[2], a) /\ c = Do(p[3], b) /\ x = Do(p[4], c)
           /\ a.ok /\ b.ok /\ c.ok
           /\ Own(w, "finalize") /\ Own(a, "finalize") /\ Own(b, "finalize") /\ Own(c, "finalize")
    BY <2>1, <2>3, FourSteps
  <2> QED
    BY <2>2, <2>4, DoIs
<1>2. w \in Works /\ a \in Works /\ b \in Works /\ c \in Works
  BY <1>1 DEF Own
<1>3. i \in Invoices /\ w.account \in Accounts /\ d \in InvoiceDocs
  BY <1>1, <1>2, Documents DEF SaleDocs
<1>4. /\ d.status = "draft" /\ SameSale(w, a) /\ a.account = w.account /\ a.doc = Inv(a) /\ a.doc = d
  <2>1. d.status = "draft" /\ a = WithDoc(w, Inv(w)) /\ w.request.invoice \in Invoices
    BY <1>1, <1>2, <1>3, StopQuiet DEF Inv, LoadDraft, LoadWhere, WithDoc
  <2> QED
    BY <1>1, <1>2, <2>1, Loaded
<1> DEFINE key == RedeemKey(i)
           n == d.redeem
           skip == n = 0 \/ Recorded(w.account, key)
<1>5. a.request.invoice = i /\ a.doc.redeem = n /\ n \in Nat /\ key \in EntryKeys
  BY <1>3, <1>4 DEF SameSale, InvoiceDocs, EntryKeys
<1>6. IF skip THEN Charges(a, b, w.account)
      ELSE CanSpend(w.account, n) /\ Charges(a, b, Spent(w.account, n))
  <2>1. skip => b = a
    BY <1>1, <1>4, <1>5 DEF RedeemPoints
  <2>2. ~skip => CanSpend(w.account, n) /\ b = [a EXCEPT !.account = Spent(w.account, n)]
    BY <1>1, <1>2, <1>4, <1>5, StopQuiet DEF RedeemPoints
  <2>3. CanSpend(w.account, n) => Spent(w.account, n) \in Accounts
    BY <1>3, <1>5, SpentAccount
  <2> HIDE DEF skip, n
  <2> QED
    BY <1>2, <1>4, <2>1, <2>2, <2>3, Untouched, Written
<1>7. b.request.invoice = i /\ b.doc = d /\ b.sale = w.sale
      /\ (Recorded(b.account, key) <=> Recorded(w.account, key))
  <2>1. CanSpend(w.account, n) => (Recorded(Spent(w.account, n), key) <=> Recorded(w.account, key))
    BY <1>3, <1>5, SpentAccount, SameLedger
  <2> HIDE DEF skip, n, key
  <2> QED
    BY <1>4, <1>5, <1>6, <2>1 DEF Charges, SameSale
<1>8. IF skip THEN Charges(b, c, w.account)
      ELSE Charges(b, c, Entered(b.account, key, -n))
  <2>1. skip => c = b /\ b.account = w.account
    BY <1>1, <1>6, <1>7 DEF RedeemEntry, Charges
  <2>2. ~skip => c = [b EXCEPT !.account = Entered(b.account, key, -n)]
    BY <1>1, <1>2, <1>7, StopQuiet DEF RedeemEntry, EnterDelta
  <2>3. Entered(b.account, key, -n) \in Accounts
    BY <1>2, <1>5, Documents, EnteredAccount
  <2> HIDE DEF skip, n, key
  <2> QED
    BY <1>2, <2>1, <2>2, <2>3, Untouched, Written
<1>9. c.request.invoice = i /\ c.sale = w.sale /\ c.doc = d /\ c.doc = Inv(c)
  <2> HIDE DEF skip
  <2> QED
    BY <1>7, <1>8 DEF Charges, SameSale, Inv
<1>10. ~skip => Posted(w.account, c.account, key, -n)
  <2> SUFFICES ASSUME ~skip PROVE Posted(w.account, c.account, key, -n)
    OBVIOUS
  <2>1. /\ c.account = Entered(b.account, key, -n) /\ b.account = Spent(w.account, n)
        /\ CanSpend(w.account, n)
    BY <1>6, <1>8 DEF Charges
  <2>2. /\ b.account \in Accounts /\ b.account.ledger = w.account.ledger
        /\ b.account.points - b.account.debt = w.account.points - w.account.debt - n
    BY <1>3, <1>5, <2>1, SpentAccount
  <2>3. b.account.points - b.account.debt = w.account.points - w.account.debt + (-n)
        /\ -n \in Int /\ ~Recorded(w.account, key)
    BY <1>3, <1>5, <2>2 DEF Accounts
  <2> HIDE DEF key, n
  <2> QED
    BY <1>3, <1>5, <2>1, <2>2, <2>3, PostedIs
<1>11. /\ x \in Works /\ x.account = c.account
       /\ Rewritten(w.sale, x.sale, i, "finalized", DerivePaymentStatus(d.paid, d.due))
  <2> DEFINE payment == DerivePaymentStatus(d.paid, d.due)
             new == [d EXCEPT !.status = "finalized", !.payment = payment]
  <2>1. payment \in PaymentStates
    BY DEF DerivePaymentStatus, PaymentStates
  <2> HIDE DEF payment
  <2>2. /\ new \in InvoiceDocs /\ new.paid = d.paid /\ new.due = d.due /\ new.redeem = d.redeem
        /\ new.status = "finalized" /\ new.payment = payment
    BY <1>3, <2>1 DEF InvoiceDocs, InvoiceStatus
  <2>3. x = SaveInvoice(c, new)
    BY <1>1, <1>9 DEF SaveFinalized, payment
  <2> HIDE DEF new
  <2> QED
    BY <1>2, <1>3, <1>9, <2>2, <2>3, SavedFresh DEF payment
<1>12. skip => x.account = w.account
  BY <1>8, <1>11 DEF Charges
<1> QED
  BY <1>3, <1>4, <1>10, <1>11, <1>12

\* Cancellation: the redeemed points come back once, and the invoice, of which
\* nothing is paid, is cancelled.
LEMMA CancelRun ==
  ASSUME NEW w, Stage(w, 1), w.request.kind = "cancel",
         NEW x, x = Run(w, Program.cancel), x.ok,
         NEW i, i = w.request.invoice, NEW d, d = w.sale.invoices[i]
  PROVE  /\ x \in Works /\ i \in Invoices /\ d.status \in {"draft", "finalized"} /\ d.paid = 0
         /\ Rewritten(w.sale, x.sale, i, "cancelled", d.payment)
         /\ IF /\ d.redeem > 0 /\ Recorded(w.account, RedeemKey(i))
               /\ ~Recorded(w.account, RestoreKey(i))
              THEN Posted(w.account, x.account, RestoreKey(i), d.redeem)
              ELSE x.account = w.account
<1>1. PICK a, b, c :
           /\ a = LoadCancellable(w) /\ b = RestorePoints(a) /\ c = RestoreEntry(b)
           /\ x = SaveCancelled(c)
           /\ a.ok /\ b.ok /\ c.ok
           /\ Own(w, "cancel") /\ Own(a, "cancel") /\ Own(b, "cancel") /\ Own(c, "cancel")
  <2> DEFINE p == Program["cancel"]
  <2>1. Len(p) = 4 /\ "cancel" \in Kinds
    BY ProgramLength DEF Kinds
  <2>2. p[1] = "LoadCancellable" /\ p[2] = "RestorePoints" /\ p[3] = "RestoreEntry"
        /\ p[4] = "SaveCancelled"
    BY ProgramIs
  <2>3. x = Run(w, p) /\ p = Program["cancel"]
    OBVIOUS
  <2> HIDE DEF p
  <2>4. PICK a, b, c :
           /\ a = Do(p[1], w) /\ b = Do(p[2], a) /\ c = Do(p[3], b) /\ x = Do(p[4], c)
           /\ a.ok /\ b.ok /\ c.ok
           /\ Own(w, "cancel") /\ Own(a, "cancel") /\ Own(b, "cancel") /\ Own(c, "cancel")
    BY <2>1, <2>3, FourSteps
  <2> QED
    BY <2>2, <2>4, DoIs
<1>2. w \in Works /\ a \in Works /\ b \in Works /\ c \in Works
  BY <1>1 DEF Own
<1>3. i \in Invoices /\ w.account \in Accounts /\ d \in InvoiceDocs
  BY <1>1, <1>2, Documents DEF SaleDocs
<1>4. /\ d.status \in {"draft", "finalized"} /\ d.paid = 0
      /\ SameSale(w, a) /\ a.account = w.account /\ a.doc = Inv(a) /\ a.doc = d
  <2>1. /\ d.status \in {"draft", "finalized"} /\ d.paid = 0 /\ a = WithDoc(w, Inv(w))
        /\ w.request.invoice \in Invoices
    BY <1>1, <1>2, <1>3, StopQuiet DEF Inv, LoadCancellable, LoadWhere, WithDoc
  <2> QED
    BY <1>1, <1>2, <2>1, Loaded
<1> DEFINE key == RestoreKey(i)
           n == d.redeem
           due == n > 0 /\ Recorded(w.account, RedeemKey(i)) /\ ~Recorded(w.account, key)
<1>5. a.request.invoice = i /\ a.doc.redeem = n /\ n \in Nat /\ key \in EntryKeys
  BY <1>3, <1>4 DEF SameSale, InvoiceDocs, EntryKeys
<1>6. IF due THEN Charges(a, b, Credited(w.account, n)) ELSE Charges(a, b, w.account)
  <2>1. ~due => b = a
    BY <1>1, <1>4, <1>5 DEF RestorePoints, ToRestore
  <2>2. due => b = [a EXCEPT !.account = Credited(w.account, n)]
    BY <1>1, <1>2, <1>4, <1>5 DEF RestorePoints, ToRestore
  <2>3. Credited(w.account, n) \in Accounts
    BY <1>3, <1>5, CreditedAccount
  <2> HIDE DEF due, n
  <2> QED
    BY <1>2, <1>4, <2>1, <2>2, <2>3, Untouched, Written
<1>7. b.request.invoice = i /\ b.doc = d /\ b.sale = w.sale
      /\ \A other : Recorded(b.account, other) <=> Recorded(w.account, other)
  <2>1. \A other : Recorded(Credited(w.account, n), other) <=> Recorded(w.account, other)
    BY <1>3, <1>5, CreditedAccount, SameLedger
  <2> HIDE DEF due, n, key
  <2> QED
    BY <1>4, <1>5, <1>6, <2>1 DEF Charges, SameSale
<1>8. IF due THEN Charges(b, c, Entered(b.account, key, n)) ELSE Charges(b, c, w.account)
  <2>1. ~due => c = b /\ b.account = w.account
    BY <1>1, <1>6, <1>7 DEF RestoreEntry, ToRestore, Charges
  <2>2. due => c = [b EXCEPT !.account = Entered(b.account, key, n)]
    BY <1>1, <1>2, <1>7, StopQuiet DEF RestoreEntry, ToRestore, EnterDelta
  <2>3. Entered(b.account, key, n) \in Accounts
    BY <1>2, <1>5, Documents, EnteredAccount
  <2> HIDE DEF due, n, key
  <2> QED
    BY <1>2, <2>1, <2>2, <2>3, Untouched, Written
<1>9. c.request.invoice = i /\ c.sale = w.sale /\ c.doc = d /\ c.doc = Inv(c)
  <2> HIDE DEF due
  <2> QED
    BY <1>7, <1>8 DEF Charges, SameSale, Inv
<1>10. due => Posted(w.account, c.account, key, n)
  <2> SUFFICES ASSUME due PROVE Posted(w.account, c.account, key, n)
    OBVIOUS
  <2>1. c.account = Entered(b.account, key, n) /\ b.account = Credited(w.account, n)
    BY <1>6, <1>8 DEF Charges
  <2>2. /\ b.account \in Accounts /\ b.account.ledger = w.account.ledger
        /\ b.account.points - b.account.debt = w.account.points - w.account.debt + n
        /\ ~Recorded(w.account, key) /\ n \in Int
    BY <1>3, <1>5, <2>1, CreditedAccount
  <2> HIDE DEF key, n, due
  <2> QED
    BY <1>3, <1>5, <2>1, <2>2, PostedIs
<1>11. /\ x \in Works /\ x.account = c.account
       /\ Rewritten(w.sale, x.sale, i, "cancelled", d.payment)
  <2> DEFINE new == [d EXCEPT !.status = "cancelled"]
  <2>1. /\ new \in InvoiceDocs /\ new.paid = d.paid /\ new.due = d.due /\ new.redeem = d.redeem
        /\ new.status = "cancelled" /\ new.payment = d.payment
    BY <1>3 DEF InvoiceDocs, InvoiceStatus
  <2>2. x = SaveInvoice(c, new)
    BY <1>1, <1>9 DEF SaveCancelled
  <2> HIDE DEF new
  <2> QED
    BY <1>2, <1>3, <1>9, <2>1, <2>2, SavedFresh
<1>12. ~due => x.account = w.account
  BY <1>8, <1>11 DEF Charges
<1> QED
  BY <1>3, <1>4, <1>10, <1>11, <1>12

\* Cancelling the subscription takes along an invoice that is a draft or unpaid.
LEMMA CancelSaleRun ==
  ASSUME NEW w, Stage(w, 1), w.request.kind = "cancelSale",
         NEW x, x = Run(w, Program.cancelSale), x.ok,
         NEW i, i = w.request.invoice, NEW d, d = w.sale.invoices[i]
  PROVE  /\ x \in Works /\ i \in Invoices /\ x.account = w.account
         /\ x.sale.subscription = "cancelled"
         /\ \A j \in Invoices \ {i} : x.sale.invoices[j] = w.sale.invoices[j]
         /\ \/ x.sale.invoices[i] = d
            \/ /\ d.status = "draft" \/ (d.status # "none" /\ d.payment = "unpaid")
               /\ x.sale.invoices[i].status = "cancelled"
               /\ x.sale.invoices[i].payment = d.payment /\ x.sale.invoices[i].paid = d.paid
               /\ x.sale.invoices[i].due = d.due /\ x.sale.invoices[i].redeem = d.redeem
<1>1. PICK a : /\ a = CancelSale(w) /\ x = CancelUnpaid(a) /\ a.ok
               /\ Own(w, "cancelSale") /\ Own(a, "cancelSale")
  <2> DEFINE p == Program["cancelSale"]
  <2>1. Len(p) = 2 /\ "cancelSale" \in Kinds
    BY ProgramLength DEF Kinds
  <2>2. p[1] = "CancelSale" /\ p[2] = "CancelUnpaid"
    BY ProgramIs
  <2>3. x = Run(w, p) /\ p = Program["cancelSale"]
    OBVIOUS
  <2> HIDE DEF p
  <2>4. PICK a : /\ a = Do(p[1], w) /\ x = Do(p[2], a) /\ a.ok
                 /\ Own(w, "cancelSale") /\ Own(a, "cancelSale")
    BY <2>1, <2>3, TwoSteps
  <2> QED
    BY <2>2, <2>4, DoIs
<1>2. w \in Works /\ a \in Works
  BY <1>1 DEF Own
<1>3. i \in Invoices /\ w.sale \in SaleDocs
  BY <1>1, <1>2, Documents
<1>4. /\ a.account = w.account /\ a.request = w.request /\ a.sale.invoices = w.sale.invoices
      /\ a.sale.subscription = "cancelled"
  <2> DEFINE s == [w.sale EXCEPT !.subscription = "cancelled"]
  <2>1. s \in SaleDocs /\ s.invoices = w.sale.invoices /\ s.subscription = "cancelled"
    BY <1>3 DEF SaleDocs, SaleStatus
  <2>2. a = [w EXCEPT !.sale = s]
    BY <1>1, <1>2, StopQuiet DEF CancelSale
  <2> HIDE DEF s
  <2> QED
    BY <1>2, <2>1, <2>2 DEF Works
<1> DEFINE takes == d.status = "draft" \/ (d.status # "none" /\ d.payment = "unpaid")
           new == [d EXCEPT !.status = "cancelled"]
           b == WithDoc(a, Inv(a))
<1>5. Inv(a) = d /\ d \in InvoiceDocs
  BY <1>3, <1>4 DEF Inv, SaleDocs
<1>6. x = a \/ (takes /\ x = SaveInvoice(b, new))
  BY <1>1, <1>5 DEF CancelUnpaid, WithDoc
<1>7. CASE x = a
  BY <1>2, <1>3, <1>4, <1>7
<1>8. CASE takes /\ x = SaveInvoice(b, new)
  <2>1. /\ b \in Works /\ b.account = a.account /\ b.request = a.request /\ b.sale = a.sale
        /\ b.doc = Inv(b) /\ b.doc = d
    <3>1. SameSale(a, b) /\ b.account = a.account /\ b.doc = Inv(b) /\ b.doc = d
      BY <1>2, <1>3, <1>4, <1>5, Loaded
    <3> HIDE DEF b
    <3> QED
      BY <3>1 DEF SameSale
  <2>2. /\ new \in InvoiceDocs /\ new.paid = d.paid /\ new.due = d.due /\ new.redeem = d.redeem
        /\ new.status = "cancelled" /\ new.payment = d.payment
    BY <1>5 DEF InvoiceDocs, InvoiceStatus
  <2>3. b.request.invoice = i /\ x = SaveInvoice(b, new)
    BY <1>4, <1>8, <2>1
  <2> HIDE DEF b, new, takes
  <2>4. /\ x \in Works /\ x.account = b.account
        /\ Rewritten(b.sale, x.sale, i, "cancelled", d.payment)
    <3>1. /\ b \in Works /\ b.request.invoice \in Invoices /\ b.doc = Inv(b)
          /\ new \in InvoiceDocs /\ new.paid = b.doc.paid /\ new.due = b.doc.due
          /\ new.redeem = b.doc.redeem /\ x = SaveInvoice(b, new)
      BY <1>3, <2>1, <2>2, <2>3
    <3>2. /\ x \in Works /\ x.account = b.account
          /\ Rewritten(b.sale, x.sale, b.request.invoice, new.status, new.payment)
      BY <3>1, SavedFresh
    <3> QED
      BY <2>2, <2>3, <3>2
  <2> QED
    BY <1>3, <1>4, <1>5, <1>8, <2>1, <2>4 DEF Rewritten, takes
<1> QED
  BY <1>6, <1>7, <1>8

\* Saving a copy of the account just read succeeds.
LEMMA SavedAccount ==
  ASSUME NEW w \in Works, w.customer = w.account, NEW new \in Accounts,
         new.ledger = w.account.ledger, NEW x, x = SaveAccount(w, new)
  PROVE  Charges(w, x, new)
<1>1. [new EXCEPT !.ledger = w.account.ledger] = new
  BY DEF Accounts
<1>2. x = [w EXCEPT !.account = new, !.customer = new]
  BY <1>1 DEF SaveAccount
<1> QED
  BY <1>2 DEF Works, Charges, SameSale

\* Reading the account writes nothing.
LEMMA AccountRead ==
  ASSUME NEW w \in Works, NEW x, x = ReadAccount(w)
  PROVE  Charges(w, x, w.account) /\ x.customer = x.account
BY DEF ReadAccount, Works, Charges, SameSale

\* The second half of a payment: award once, then open the subscription.
LEMMA AwardHalf ==
  ASSUME NEW d \in Works, d.request.invoice \in Invoices,
         NEW e \in Works, NEW f \in Works, NEW g \in Works, NEW x,
         e = ReadAccount(d), f = AwardPoints(e), g = AwardEntry(f), x = Activate(g),
         f.ok, g.ok, NEW i, i = d.request.invoice
  PROVE  /\ x.account = d.account \/ Posted(d.account, x.account, EarnKey(i), EarnPoints)
         /\ x.sale.invoices = d.sale.invoices
         /\ \/ x.sale.subscription = d.sale.subscription
            \/ /\ d.sale.subscription = "pending_payment" /\ x.sale.subscription = "active"
               /\ d.settled
<1> DEFINE key == EarnKey(i)
           new == Awarded(d.account, EarnPoints)
           earns == /\ d.settled /\ d.sale.loyaltyEnabled /\ EarnPoints > 0
                    /\ ~Recorded(d.account, key)
<1>1. Charges(d, e, d.account) /\ e.customer = d.account
  BY AccountRead DEF Charges
<1>2. d.account \in Accounts /\ key \in EntryKeys /\ EarnPoints \in Nat
  BY Documents, SettlementAssumption DEF EntryKeys
<1>3. /\ new \in Accounts /\ new.ledger = d.account.ledger
      /\ new.points - new.debt = d.account.points - d.account.debt + EarnPoints
  BY <1>2, AwardedAccount
<1>4. IF earns THEN Charges(e, f, new) ELSE Charges(e, f, d.account)
  <2>1. Earns(e) <=> earns
    BY <1>1 DEF Earns, Charges, SameSale
  <2>2. ~earns => f = e /\ e.account = d.account
    BY <1>1, <2>1 DEF AwardPoints, Charges
  <2>3. earns => f = SaveAccount(e, new) /\ e.customer = e.account /\ new.ledger = e.account.ledger
    BY <1>1, <1>3, <2>1 DEF AwardPoints, Charges
  <2> HIDE DEF earns, new
  <2> QED
    BY <1>3, <2>2, <2>3, Untouched, SavedAccount
<1>5. /\ f.request.invoice = i /\ f.sale = d.sale /\ f.settled = d.settled
      /\ (Recorded(f.account, key) <=> Recorded(d.account, key))
  <2>1. Recorded(new, key) <=> Recorded(d.account, key)
    BY <1>3, SameLedger
  <2> HIDE DEF earns, new, key
  <2> QED
    BY <1>1, <1>4, <2>1 DEF Charges, SameSale
<1>6. IF earns THEN Charges(f, g, Entered(f.account, key, EarnPoints)) ELSE Charges(f, g, d.account)
  <2>1. Earns(f) <=> earns
    BY <1>5 DEF Earns
  <2>2. ~earns => g = f /\ f.account = d.account
    BY <1>4, <2>1 DEF AwardEntry, Charges
  <2>3. earns => g = [f EXCEPT !.account = Entered(f.account, key, EarnPoints)]
    BY <1>5, <2>1, StopQuiet DEF AwardEntry, EnterDelta
  <2>4. Entered(f.account, key, EarnPoints) \in Accounts
    BY <1>2, Documents, EnteredAccount
  <2> HIDE DEF earns, new, key
  <2> QED
    BY <2>2, <2>3, <2>4, Untouched, Written
<1>7. g.sale = d.sale /\ g.settled = d.settled
  <2> HIDE DEF earns
  <2> QED
    BY <1>5, <1>6 DEF Charges, SameSale
<1>8. g.account = d.account \/ Posted(d.account, g.account, key, EarnPoints)
  <2>1. CASE ~earns
    BY <1>6, <2>1 DEF Charges
  <2>2. CASE earns
    <3>1. g.account = Entered(f.account, key, EarnPoints) /\ f.account = new
      BY <1>4, <1>6, <2>2 DEF Charges
    <3>2. ~Recorded(d.account, key) /\ EarnPoints \in Int
      BY <1>2, <2>2
    <3> HIDE DEF earns, key, new
    <3> QED
      BY <1>2, <1>3, <3>1, <3>2, PostedIs
  <2> QED
    BY <2>1, <2>2
<1>9. /\ x.account = g.account /\ x.sale.invoices = g.sale.invoices
      /\ \/ x.sale.subscription = g.sale.subscription
         \/ /\ g.sale.subscription = "pending_payment" /\ x.sale.subscription = "active"
            /\ g.settled
  <2> DEFINE s == [g.sale EXCEPT !.subscription = "active"]
  <2>1. s.invoices = g.sale.invoices /\ s.subscription = "active"
    BY Documents DEF SaleDocs
  <2>2. x = g \/ (g.settled /\ g.sale.subscription = "pending_payment" /\ x = [g EXCEPT !.sale = s])
    BY DEF Activate
  <2> HIDE DEF s
  <2> QED
    BY <2>1, <2>2 DEF Works
<1> QED
  BY <1>7, <1>8, <1>9

\* An amount is put on an invoice, whose payment status follows.
Settles(s, t, i, amount) ==
  /\ \A j \in Invoices \ {i} : t.invoices[j] = s.invoices[j]
  /\ t.invoices[i].paid = s.invoices[i].paid + amount
  /\ t.invoices[i].due = s.invoices[i].due - amount
  /\ t.invoices[i].payment = DerivePaymentStatus(t.invoices[i].paid, t.invoices[i].due)
  /\ t.invoices[i].status = s.invoices[i].status
  /\ t.invoices[i].redeem = s.invoices[i].redeem

\* After a charge, saving the derived payment status settles the invoice by that amount.
LEMMA StatusSaved ==
  ASSUME NEW w \in Works, NEW b \in Works, NEW i, NEW amount \in Int, Moved(w, b, i, amount),
         i \in Invoices, b.request.invoice = i, NEW c, c = SaveStatus(b)
  PROVE  /\ c \in Works /\ c.account = w.account /\ c.request = w.request /\ c.ok = b.ok
         /\ c.settled = w.settled /\ Settles(w.sale, c.sale, i, amount)
         /\ c.doc.payment = c.sale.invoices[i].payment
         /\ c.sale.subscription = w.sale.subscription
         /\ c.sale.loyaltyEnabled = w.sale.loyaltyEnabled
         /\ c.sale.payments = w.sale.payments
<1> DEFINE payment == DerivePaymentStatus(b.doc.paid, b.doc.due)
           new == [b.doc EXCEPT !.payment = payment]
<1>1. b.doc \in InvoiceDocs /\ b.doc = Inv(b)
  BY Documents DEF Moved, Inv
<1>2. payment \in PaymentStates
  BY DEF DerivePaymentStatus, PaymentStates
<1> HIDE DEF payment
<1>3. /\ new \in InvoiceDocs /\ new.paid = b.doc.paid /\ new.due = b.doc.due
      /\ new.redeem = b.doc.redeem /\ new.status = b.doc.status /\ new.payment = payment
  BY <1>1, <1>2 DEF InvoiceDocs
<1>4. c = SaveInvoice(b, new)
  BY DEF SaveStatus, payment
<1> HIDE DEF new
<1>5. /\ c \in Works /\ c.ok = b.ok /\ c.account = b.account /\ c.request = b.request
      /\ c.settled = b.settled /\ c.doc.payment = payment
      /\ Rewritten(b.sale, c.sale, i, b.doc.status, payment)
  BY <1>1, <1>3, <1>4, SavedFresh
<1>6. /\ b.account = w.account /\ b.request = w.request /\ b.settled = w.settled
      /\ b.sale.subscription = w.sale.subscription /\ b.sale.payments = w.sale.payments
      /\ b.sale.loyaltyEnabled = w.sale.loyaltyEnabled
      /\ b.doc = b.sale.invoices[i]
      /\ \A j \in Invoices \ {i} : b.sale.invoices[j] = w.sale.invoices[j]
      /\ b.sale.invoices[i].paid = w.sale.invoices[i].paid + amount
      /\ b.sale.invoices[i].due = w.sale.invoices[i].due - amount
      /\ b.sale.invoices[i].status = w.sale.invoices[i].status
      /\ b.sale.invoices[i].redeem = w.sale.invoices[i].redeem
  BY DEF Moved, Otherwise
<1>7. payment = DerivePaymentStatus(b.sale.invoices[i].paid, b.sale.invoices[i].due)
  BY <1>6 DEF payment
<1> QED
  BY <1>5, <1>6, <1>7 DEF Rewritten, Settles

\* A payment: the amount goes on the invoice, and one that settles it opens the
\* subscription.
LEMMA PayRun ==
  ASSUME NEW w, Stage(w, 1), w.request.kind = "pay",
         NEW x, x = Run(w, Program.pay), x.ok,
         NEW i, i = w.request.invoice, NEW s, s = w.sale
  PROVE  /\ x \in Works /\ i \in Invoices /\ s.invoices[i].status = "finalized"
         /\ w.request.amount \in Nat /\ w.request.amount <= s.invoices[i].due
         /\ Settles(s, x.sale, i, w.request.amount)
         /\ x.account = w.account \/ Posted(w.account, x.account, EarnKey(i), EarnPoints)
         /\ \/ x.sale.subscription = s.subscription
            \/ /\ s.subscription = "pending_payment" /\ x.sale.subscription = "active"
               /\ x.sale.invoices[i].payment = "paid"
<1>1. PICK a, b, c, d, e, f, g :
           /\ a = LoadPayable(w) /\ b = TakePayment(a) /\ c = SaveStatus(b) /\ d = SavePayment(c)
           /\ e = ReadAccount(d) /\ f = AwardPoints(e) /\ g = AwardEntry(f) /\ x = Activate(g)
           /\ a.ok /\ b.ok /\ c.ok /\ d.ok /\ e.ok /\ f.ok /\ g.ok
           /\ Own(w, "pay") /\ Own(a, "pay") /\ Own(b, "pay") /\ Own(c, "pay")
           /\ Own(d, "pay") /\ Own(e, "pay") /\ Own(f, "pay") /\ Own(g, "pay")
  <2> DEFINE p == Program["pay"]
  <2>1. Len(p) = 8 /\ "pay" \in Kinds
    BY ProgramLength DEF Kinds
  <2>2. /\ p[1] = "LoadPayable" /\ p[2] = "TakePayment" /\ p[3] = "SaveStatus"
        /\ p[4] = "SavePayment" /\ p[5] = "ReadAccount" /\ p[6] = "AwardPoints"
        /\ p[7] = "AwardEntry" /\ p[8] = "Activate"
    BY ProgramIs
  <2>3. x = Run(w, p) /\ p = Program["pay"]
    OBVIOUS
  <2> HIDE DEF p
  <2>4. PICK a, b, c, d, e, f, g :
           /\ a = Do(p[1], w) /\ b = Do(p[2], a) /\ c = Do(p[3], b) /\ d = Do(p[4], c)
           /\ e = Do(p[5], d) /\ f = Do(p[6], e) /\ g = Do(p[7], f) /\ x = Do(p[8], g)
           /\ a.ok /\ b.ok /\ c.ok /\ d.ok /\ e.ok /\ f.ok /\ g.ok
           /\ Own(w, "pay") /\ Own(a, "pay") /\ Own(b, "pay") /\ Own(c, "pay")
           /\ Own(d, "pay") /\ Own(e, "pay") /\ Own(f, "pay") /\ Own(g, "pay")
    BY <2>1, <2>3, EightSteps
  <2> QED
    BY <2>2, <2>4, DoIs
<1>2. /\ w \in Works /\ a \in Works /\ b \in Works /\ c \in Works /\ d \in Works
      /\ e \in Works /\ f \in Works /\ g \in Works /\ c.request.kind = "pay"
  BY <1>1 DEF Own
<1> DEFINE n == w.request.amount
<1>3. i \in Invoices /\ n \in Nat /\ w.request.invoice \in Invoices
  BY <1>2, Documents
<1>4. s.invoices[i].status = "finalized" /\ n <= s.invoices[i].due
      /\ SameSale(w, a) /\ a.account = w.account /\ a.settled = w.settled
  <2>1. s.invoices[i].status = "finalized" /\ n <= s.invoices[i].due /\ a = WithDoc(w, Inv(w))
    BY <1>1, <1>2, <1>3, StopQuiet DEF Inv, LoadPayable, LoadWhere, WithDoc
  <2> QED
    BY <1>2, <1>3, <2>1, Loaded
<1>5. Moved(a, b, i, n)
  <2>1. b = Charged(a, a.request.amount)
    BY <1>1, <1>2, StopQuiet DEF TakePayment
  <2>2. a.request.amount = n /\ a.request.invoice = i /\ n \in Int
    BY <1>3, <1>4 DEF SameSale
  <2> HIDE DEF n
  <2> QED
    BY <1>2, <1>3, <2>1, <2>2, ChargedEffect
<1>6. /\ c.account = w.account /\ c.request.invoice = i /\ Settles(s, c.sale, i, n)
      /\ c.doc.payment = c.sale.invoices[i].payment
      /\ c.sale.subscription = s.subscription
  <2>1. b.request.invoice = i /\ n \in Int
    BY <1>3, <1>4, <1>5 DEF Moved, Otherwise, SameSale
  <2> HIDE DEF n
  <2>2. /\ c.account = a.account /\ c.request = a.request /\ Settles(a.sale, c.sale, i, n)
        /\ c.doc.payment = c.sale.invoices[i].payment
        /\ c.sale.subscription = a.sale.subscription
    BY <1>1, <1>2, <1>3, <1>5, <2>1, StatusSaved
  <2> QED
    BY <1>4, <2>2 DEF SameSale
<1>7. /\ d.account = w.account /\ d.request.invoice = i
      /\ d.settled = (c.doc.payment = "paid")
      /\ d.sale.invoices = c.sale.invoices /\ d.sale.subscription = s.subscription
  <2>1. /\ Otherwise(c, d) /\ d.settled = (c.doc.payment = "paid")
        /\ d.sale.invoices = c.sale.invoices
    BY <1>1, <1>2, SavePaymentEffect, StopQuiet
  <2> QED
    BY <1>6, <2>1 DEF Otherwise
<1>8. /\ x.account = w.account \/ Posted(w.account, x.account, EarnKey(i), EarnPoints)
      /\ x.sale.invoices = c.sale.invoices
      /\ \/ x.sale.subscription = s.subscription
         \/ /\ s.subscription = "pending_payment" /\ x.sale.subscription = "active"
            /\ d.settled
  BY <1>1, <1>2, <1>3, <1>7, AwardHalf
<1>9. Settles(s, x.sale, i, n) /\ x.sale.invoices[i].payment = c.doc.payment
  BY <1>6, <1>8 DEF Settles
<1>10. x \in Works
  <2>1. g.request.invoice \in Invoices
    BY <1>1, <1>2, Documents DEF Own
  <2> QED
    BY <1>1, <1>2, <2>1, StillSteps DEF Still
<1> QED
  BY <1>3, <1>4, <1>7, <1>8, <1>9, <1>10

\* The second half of a void: reverse what the payment earned, then close.
LEMMA ReverseHalf ==
  ASSUME NEW d \in Works, d.request.kind = "void",
         NEW e \in Works, NEW f \in Works, NEW g \in Works, NEW x,
         e = ReadAccount(d), f = ReversePoints(e), g = ReverseEntry(f), x = Deactivate(g),
         f.ok, g.ok, NEW p, p = d.request.payment
  PROVE  /\ x.account = d.account \/ Posted(d.account, x.account, ReverseKey(p), -EarnPoints)
         /\ x.sale.invoices = d.sale.invoices
         /\ x.sale.subscription = IF /\ d.settled /\ d.doc.payment # "paid"
                                     /\ d.sale.subscription \notin {"none", "cancelled"}
                                    THEN "pending_payment"
                                    ELSE d.sale.subscription
<1> DEFINE key == ReverseKey(p)
           earn == EarnKey(d.request.invoice)
           new == Reversed(d.account, EarnPoints)
           reverses == /\ d.settled /\ d.doc.payment # "paid"
                       /\ Recorded(d.account, earn) /\ ~Recorded(d.account, key)
<1>1. Charges(d, e, d.account) /\ e.customer = d.account
  BY AccountRead DEF Charges
<1>2. d.account \in Accounts /\ key \in EntryKeys /\ EarnPoints \in Nat /\ -EarnPoints \in Int
  <2>1. d.request \in RequestDocs
    BY DEF Works
  <2>2. p \in Payments
    BY <2>1 DEF RequestDocs
  <2> QED
    BY <2>2, Documents, SettlementAssumption DEF EntryKeys
<1>3. /\ new \in Accounts /\ new.ledger = d.account.ledger
      /\ new.points - new.debt = d.account.points - d.account.debt - EarnPoints
  BY <1>2, ReversedAccount
<1>4. IF reverses THEN Charges(e, f, new) ELSE Charges(e, f, d.account)
  <2>1. Reverses(e) <=> reverses
    BY <1>1 DEF Reverses, Unsettled, Charges, SameSale
  <2>2. ~reverses => f = e /\ e.account = d.account
    BY <1>1, <2>1 DEF ReversePoints, Charges
  <2>3. reverses => f = SaveAccount(e, new) /\ e.customer = e.account /\ new.ledger = e.account.ledger
    BY <1>1, <1>3, <2>1 DEF ReversePoints, Charges
  <2> HIDE DEF reverses, new
  <2> QED
    BY <1>3, <2>2, <2>3, Untouched, SavedAccount
<1>5. /\ f.request = d.request /\ f.sale = d.sale /\ f.settled = d.settled /\ f.doc = d.doc
      /\ \A other : Recorded(f.account, other) <=> Recorded(d.account, other)
  <2>1. \A other : Recorded(new, other) <=> Recorded(d.account, other)
    BY <1>3, SameLedger
  <2> HIDE DEF reverses, new, key
  <2> QED
    BY <1>1, <1>4, <2>1 DEF Charges, SameSale
<1>6. IF reverses THEN Charges(f, g, Entered(f.account, key, -EarnPoints))
      ELSE Charges(f, g, d.account)
  <2>1. Reverses(f) <=> reverses
    BY <1>5 DEF Reverses, Unsettled
  <2>2. ~reverses => g = f /\ f.account = d.account
    BY <1>4, <2>1 DEF ReverseEntry, Charges
  <2>3. reverses => g = [f EXCEPT !.account = Entered(f.account, key, -EarnPoints)]
    BY <1>5, <2>1, StopQuiet DEF ReverseEntry, EnterDelta
  <2>4. Entered(f.account, key, -EarnPoints) \in Accounts
    BY <1>2, Documents, EnteredAccount
  <2> HIDE DEF reverses, new, key
  <2> QED
    BY <2>2, <2>3, <2>4, Untouched, Written
<1>7. g.sale = d.sale /\ g.settled = d.settled /\ g.doc = d.doc
  <2> HIDE DEF reverses
  <2> QED
    BY <1>5, <1>6 DEF Charges, SameSale
<1>8. g.account = d.account \/ Posted(d.account, g.account, key, -EarnPoints)
  <2>1. CASE ~reverses
    BY <1>6, <2>1 DEF Charges
  <2>2. CASE reverses
    <3>1. g.account = Entered(f.account, key, -EarnPoints) /\ f.account = new
      BY <1>4, <1>6, <2>2 DEF Charges
    <3>2. /\ ~Recorded(d.account, key)
          /\ new.points - new.debt = d.account.points - d.account.debt + (-EarnPoints)
      BY <1>2, <1>3, <2>2 DEF Accounts
    <3> HIDE DEF reverses, key, new
    <3> QED
      BY <1>2, <1>3, <3>1, <3>2, PostedIs
  <2> QED
    BY <2>1, <2>2
<1>9. /\ x.account = g.account /\ x.sale.invoices = g.sale.invoices
      /\ x.sale.subscription = IF /\ g.settled /\ g.doc.payment # "paid"
                                  /\ g.sale.subscription \notin {"none", "cancelled"}
                                 THEN "pending_payment"
                                 ELSE g.sale.subscription
  <2> DEFINE s == [g.sale EXCEPT !.subscription = "pending_payment"]
             closes == /\ g.settled /\ g.doc.payment # "paid"
                       /\ g.sale.subscription \notin {"none", "cancelled"}
  <2>1. s.invoices = g.sale.invoices /\ s.subscription = "pending_payment"
    BY Documents DEF SaleDocs
  <2>2. IF closes THEN x = [g EXCEPT !.sale = s] ELSE x = g
    BY DEF Deactivate, Unsettled
  <2> HIDE DEF s, closes
  <2>3. /\ x.account = g.account /\ x.sale.invoices = g.sale.invoices
        /\ x.sale.subscription = IF closes THEN "pending_payment" ELSE g.sale.subscription
    BY <2>1, <2>2 DEF Works
  <2> QED
    BY <2>3 DEF closes
<1> QED
  BY <1>7, <1>8, <1>9

\* A void: the amount comes off the invoice of its payment, and an invoice that
\* is not paid any more closes the subscription.
LEMMA VoidRun ==
  ASSUME NEW w, Stage(w, 1), w.request.kind = "void",
         NEW x, x = Run(w, Program.void), x.ok,
         NEW s, s = w.sale, NEW p, p = w.request.payment, NEW i, i = s.payments[p].invoice,
         NEW n, n = s.payments[p].amount, NEW m, m = -n
  PROVE  /\ x \in Works /\ i \in Invoices /\ p \in Payments /\ n \in Nat /\ m \in Int
         /\ Settles(s, x.sale, i, m)
         /\ x.account = w.account \/ Posted(w.account, x.account, ReverseKey(p), -EarnPoints)
         /\ x.sale.subscription = IF /\ s.invoices[i].payment = "paid"
                                     /\ x.sale.invoices[i].payment # "paid"
                                     /\ s.subscription \notin {"none", "cancelled"}
                                    THEN "pending_payment"
                                    ELSE s.subscription
<1>1. PICK a, b, c, d, e, f, g :
           /\ a = LoadPayment(w) /\ b = VoidPayment(a) /\ c = ReturnAmount(b) /\ d = SaveStatus(c)
           /\ e = ReadAccount(d) /\ f = ReversePoints(e) /\ g = ReverseEntry(f) /\ x = Deactivate(g)
           /\ a.ok /\ b.ok /\ c.ok /\ d.ok /\ e.ok /\ f.ok /\ g.ok
           /\ Own(w, "void") /\ Own(a, "void") /\ Own(b, "void") /\ Own(c, "void")
           /\ Own(d, "void") /\ Own(e, "void") /\ Own(f, "void") /\ Own(g, "void")
  <2> DEFINE q == Program["void"]
  <2>1. Len(q) = 8 /\ "void" \in Kinds
    BY ProgramLength DEF Kinds
  <2>2. /\ q[1] = "LoadPayment" /\ q[2] = "VoidPayment" /\ q[3] = "ReturnAmount"
        /\ q[4] = "SaveStatus" /\ q[5] = "ReadAccount" /\ q[6] = "ReversePoints"
        /\ q[7] = "ReverseEntry" /\ q[8] = "Deactivate"
    BY ProgramIs
  <2>3. x = Run(w, q) /\ q = Program["void"]
    OBVIOUS
  <2> HIDE DEF q
  <2>4. PICK a, b, c, d, e, f, g :
           /\ a = Do(q[1], w) /\ b = Do(q[2], a) /\ c = Do(q[3], b) /\ d = Do(q[4], c)
           /\ e = Do(q[5], d) /\ f = Do(q[6], e) /\ g = Do(q[7], f) /\ x = Do(q[8], g)
           /\ a.ok /\ b.ok /\ c.ok /\ d.ok /\ e.ok /\ f.ok /\ g.ok
           /\ Own(w, "void") /\ Own(a, "void") /\ Own(b, "void") /\ Own(c, "void")
           /\ Own(d, "void") /\ Own(e, "void") /\ Own(f, "void") /\ Own(g, "void")
    BY <2>1, <2>3, EightSteps
  <2> QED
    BY <2>2, <2>4, DoIs
<1>2. /\ w \in Works /\ a \in Works /\ b \in Works /\ c \in Works /\ d \in Works
      /\ e \in Works /\ f \in Works /\ g \in Works
      /\ a.request.kind = "void" /\ d.request.kind = "void"
  BY <1>1 DEF Own
<1>3. p \in Payments /\ n \in Nat /\ m \in Int
  <2>1. w.request \in RequestDocs /\ s \in SaleDocs
    BY <1>2 DEF Works
  <2>2. p \in Payments
    BY <2>1 DEF RequestDocs
  <2> QED
    BY <2>1, <2>2 DEF SaleDocs, PaymentDocs
<1>4. /\ a.sale = s /\ a.account = w.account /\ a.request.payment = p /\ a.request.invoice = i
      /\ a.settled = (s.invoices[i].payment = "paid") /\ i \in Invoices
  <2>2. a # Stop(w) /\ a = LoadPayment(w)
    BY <1>1, <1>2, StopQuiet
  <2>3. /\ Pay(w).status = "completed" /\ a.sale = w.sale /\ a.account = w.account
        /\ a.request.payment = w.request.payment /\ a.request.invoice = Pay(w).invoice
        /\ a.settled = (w.sale.invoices[Pay(w).invoice].payment = "paid")
    BY <1>2, <2>2, LoadPaymentEffect
  <2>4. Pay(w) = s.payments[p]
    BY DEF Pay
  <2>1. /\ Pay(w).status = "completed" /\ Pay(w) = s.payments[p]
        /\ a.sale = s /\ a.account = w.account /\ a.request.payment = p
        /\ a.request.invoice = i /\ a.settled = (s.invoices[i].payment = "paid")
    BY <2>3, <2>4
  <2> QED
    BY <1>3, <2>1 DEF Stage, Placed
<1>5. /\ b.sale.invoices = s.invoices /\ b.request = a.request /\ b.account = w.account
      /\ b.settled = a.settled /\ b.sale.subscription = s.subscription
      /\ b.sale.payments[p].amount = n
  <2>1. b # Stop(a)
    BY <1>1, <1>2, StopQuiet
  <2>2. /\ Otherwise(a, b) /\ b.settled = a.settled /\ b.sale.invoices = a.sale.invoices
        /\ b.sale.payments[a.request.payment].amount = a.sale.payments[a.request.payment].amount
    BY <1>1, <1>2, <2>1, VoidPaymentEffect
  <2>3. a.request.payment = p /\ a.sale = s
    BY <1>4
  <2> QED
    BY <1>4, <2>2, <2>3 DEF Otherwise
<1>6. Moved(b, c, i, m)
  <2>1. Pay(b).amount = n /\ b.request.invoice = i
    BY <1>4, <1>5 DEF Pay
  <2>2. c = Charged(b, m)
    BY <1>1, <2>1 DEF ReturnAmount
  <2> QED
    BY <1>2, <1>3, <1>4, <2>1, <2>2, ChargedEffect
<1>7. /\ d.account = w.account /\ d.request.payment = p /\ d.request.invoice = i /\ d.settled = a.settled
      /\ Settles(s, d.sale, i, m) /\ d.doc.payment = d.sale.invoices[i].payment
      /\ d.sale.subscription = s.subscription
  <2>1. c.request.invoice = i
    <3>1. c.request = b.request
      BY <1>6 DEF Moved, Otherwise
    <3> QED
      BY <1>4, <1>5, <3>1
  <2>2. /\ d.account = b.account /\ d.request = b.request /\ d.settled = b.settled
        /\ Settles(b.sale, d.sale, i, m) /\ d.doc.payment = d.sale.invoices[i].payment
        /\ d.sale.subscription = b.sale.subscription
    <3>1. d = SaveStatus(c)
      BY <1>1
    <3>2. i \in Invoices
      BY <1>4
    <3>3. m \in Int
      BY <1>3
    <3>4. ASSUME NEW j \in Invoices, NEW k \in Int, Moved(b, c, j, k), c.request.invoice = j
          PROVE  /\ d.account = b.account /\ d.request = b.request /\ d.settled = b.settled
                 /\ Settles(b.sale, d.sale, j, k) /\ d.doc.payment = d.sale.invoices[j].payment
                 /\ d.sale.subscription = b.sale.subscription
      <4>1. b \in Works /\ c \in Works
        BY <1>2
      <4> QED
        BY <3>1, <3>4, <4>1, StatusSaved
    <3> QED
      BY <1>6, <2>1, <3>2, <3>3, <3>4
  <2> QED
    BY <1>4, <1>5, <2>2 DEF Settles
<1>8. /\ x.account = w.account \/ Posted(w.account, x.account, ReverseKey(p), -EarnPoints)
      /\ x.sale.invoices = d.sale.invoices
      /\ x.sale.subscription = IF /\ d.settled /\ d.doc.payment # "paid"
                                  /\ d.sale.subscription \notin {"none", "cancelled"}
                                 THEN "pending_payment"
                                 ELSE d.sale.subscription
  <2>1. /\ e = ReadAccount(d) /\ f = ReversePoints(e) /\ g = ReverseEntry(f)
        /\ x = Deactivate(g) /\ f.ok /\ g.ok
    BY <1>1
  <2>2. p = d.request.payment
    BY <1>7
  <2>3. /\ x.account = d.account \/ Posted(d.account, x.account, ReverseKey(p), -EarnPoints)
        /\ x.sale.invoices = d.sale.invoices
        /\ x.sale.subscription = IF /\ d.settled /\ d.doc.payment # "paid"
                                    /\ d.sale.subscription \notin {"none", "cancelled"}
                                   THEN "pending_payment"
                                   ELSE d.sale.subscription
    BY <1>2, <2>1, <2>2, ReverseHalf
  <2> QED
    BY <1>7, <2>3
<1>9. Settles(s, x.sale, i, m) /\ x.sale.invoices[i].payment = d.doc.payment
  BY <1>7, <1>8 DEF Settles
<1>10. x \in Works
  <2>1. e.request = d.request
    BY <1>1, <1>2, AccountRead DEF Charges, SameSale
  <2>2. e.request.invoice \in Invoices
    BY <1>4, <1>7, <2>1
  <2>3. f.request = e.request
    BY <1>1, <1>2, <2>2, QuietSteps DEF Quiet
  <2>4. g.request = f.request
    <3>1. f.request.invoice \in Invoices
      BY <2>2, <2>3
    <3>2. g = ReverseEntry(f) /\ f \in Works /\ f.request.kind = "void"
      BY <1>1, <1>2, <2>3 DEF Own
    <3> QED
      BY <3>1, <3>2, QuietSteps DEF Quiet
  <2>5. g.request.invoice \in Invoices
    BY <2>2, <2>3, <2>4
  <2> QED
    BY <1>1, <1>2, <2>5, StillSteps DEF Still
<1> QED
  BY <1>3, <1>4, <1>7, <1>8, <1>9, <1>10


-----------------------------------------------------------------------------
(* What a program does to the customer's standing.                          *)

\* What an invoice shows as paid and due is never negative, and adds up.
Counted(s) ==
  \A i \in Invoices : /\ s.invoices[i].paid \in Nat /\ s.invoices[i].due \in Nat
                      /\ s.invoices[i].paid + s.invoices[i].due = Payable

\* The keys of the ledger tell apart what they are for, and what they are about.
LEMMA KeysDiffer ==
  ASSUME NEW i, NEW j
  PROVE  /\ RedeemKey(i) = RedeemKey(j) => i = j
         /\ RedeemKey(i) # RestoreKey(j) /\ RedeemKey(i) # EarnKey(j)
         /\ RedeemKey(i) # ReverseKey(j) /\ RedeemKey(i) # AdjustKey(j)
BY DEF RedeemKey, RestoreKey, EarnKey, ReverseKey, AdjustKey

\* The total of a ledger is a number.
LEMMA LedgerIsInt ==
  ASSUME NEW a \in Accounts
  PROVE  LedgerTotal(a) \in Int
<1> DEFINE f == [t \in a.ledger |-> t.delta]
<1>1. IsFiniteSet(a.ledger) /\ \A t \in a.ledger : f[t] \in Int
  BY DEF Accounts, Ledgers
<1>2. LedgerTotal(a) = SumFunctionOnSet(f, a.ledger)
  BY DEF LedgerTotal
<1> HIDE DEF f
<1> QED
  BY <1>1, <1>2, SumInt

\* Points posted to the balance and to the ledger leave it explained.
LEMMA PostedExplains ==
  ASSUME NEW a \in Accounts, NEW b, NEW key, NEW delta \in Int, Explained(a),
         Posted(a, b, key, delta)
  PROVE  b \in Accounts /\ Explained(b)
<1>1. /\ b \in Accounts /\ b.points - b.debt = a.points - a.debt + delta
      /\ LedgerTotal(b) = LedgerTotal(a) + delta
  BY DEF Posted
<1>2. /\ LedgerTotal(a) \in Int /\ InitialPoints \in Int
      /\ a.points \in Int /\ a.debt \in Int /\ b.points \in Int /\ b.debt \in Int
  BY <1>1, LedgerIsInt, SettlementAssumption DEF Accounts
<1>3. a.points - a.debt = InitialPoints + LedgerTotal(a)
  BY DEF Explained
<1> QED
  BY <1>1, <1>2, <1>3 DEF Explained

\* A draft or a finalized invoice takes a payment status its amounts give it.
LEMMA DerivedStatus ==
  ASSUME NEW paid \in Nat, NEW due \in Nat, paid + due = Payable
  PROVE  /\ DerivePaymentStatus(paid, due) = "paid" => due = 0 /\ paid > 0
         /\ DerivePaymentStatus(paid, due) = "unpaid" => paid = 0
         /\ paid = 0 => DerivePaymentStatus(paid, due) = "unpaid"
         /\ due = 0 => DerivePaymentStatus(paid, due) = "paid"
BY SettlementAssumption DEF DerivePaymentStatus

\* Points posted under a key that redeems nothing leave every redemption as it was.
LEMMA PostedOther ==
  ASSUME NEW s, NEW a \in Accounts, NEW b, NEW key, NEW delta \in Int, Standing(s, a),
         b = a \/ Posted(a, b, key, delta), \A i \in Invoices : RedeemKey(i) # key
  PROVE  Standing(s, b)
<1>1. CASE b = a
  BY <1>1
<1>2. CASE Posted(a, b, key, delta)
  <2>1. \A other : Recorded(b, other) <=> Recorded(a, other) \/ other = key
    BY <1>2 DEF Posted
  <2>2. Explained(b)
    BY <1>2, PostedExplains DEF Standing
  <2> QED
    BY <2>1, <2>2 DEF Standing, Derived, Restored
<1> QED
  BY <1>1, <1>2

\* Finalization redeems the points of a draft that redeems some.
LEMMA StandingFinalize ==
  ASSUME NEW s \in SaleDocs, NEW t, NEW a \in Accounts, NEW b, NEW i \in Invoices,
         NEW d, d = s.invoices[i], NEW payment, payment = DerivePaymentStatus(d.paid, d.due),
         Standing(s, a), d.status = "draft", Rewritten(s, t, i, "finalized", payment),
         IF d.redeem = 0 \/ Recorded(a, RedeemKey(i))
           THEN b = a
           ELSE Posted(a, b, RedeemKey(i), -d.redeem)
  PROVE  Standing(t, b)
<1>1. /\ \A j \in Invoices \ {i} : t.invoices[j] = s.invoices[j]
      /\ t.invoices[i].status = "finalized"
      /\ t.invoices[i].payment = DerivePaymentStatus(t.invoices[i].paid, t.invoices[i].due)
      /\ t.invoices[i].redeem = d.redeem /\ t.subscription = s.subscription
  BY DEF Rewritten
<1>2. d.redeem \in Nat /\ -d.redeem \in Int
  BY DEF SaleDocs, InvoiceDocs
<1>3. /\ Explained(b)
      /\ \A other : Recorded(a, other) => Recorded(b, other)
      /\ \A other : Recorded(b, other) => \/ Recorded(a, other)
                                          \/ other = RedeemKey(i) /\ d.redeem > 0
  <2>1. CASE d.redeem = 0 \/ Recorded(a, RedeemKey(i))
    BY <2>1 DEF Standing
  <2>2. CASE ~(d.redeem = 0 \/ Recorded(a, RedeemKey(i)))
    <3>1. Posted(a, b, RedeemKey(i), -d.redeem) /\ d.redeem > 0
      BY <1>2, <2>2
    <3>2. Explained(b)
      BY <1>2, <3>1, PostedExplains DEF Standing
    <3> QED
      BY <3>1, <3>2 DEF Posted
  <2> QED
    BY <2>1, <2>2
<1>4. \A j \in Invoices : RedeemKey(j) = RedeemKey(i) => j = i
  BY KeysDiffer
<1>5. Derived(t, b)
  BY <1>1, <1>3, <1>4 DEF Standing, Derived
<1>6. Opened(t)
  BY <1>1 DEF Standing, Opened
<1>7. Restored(t, b)
  BY <1>1, <1>3, <1>4 DEF Standing, Restored
<1> QED
  BY <1>3, <1>5, <1>6, <1>7 DEF Standing

\* Cancellation gives them back.
LEMMA StandingCancel ==
  ASSUME NEW s \in SaleDocs, NEW t, NEW a \in Accounts, NEW b, NEW i \in Invoices,
         NEW d, d = s.invoices[i], Standing(s, a), Counted(s),
         d.status \in {"draft", "finalized"}, d.paid = 0,
         Rewritten(s, t, i, "cancelled", d.payment),
         IF d.redeem > 0 /\ Recorded(a, RedeemKey(i)) /\ ~Recorded(a, RestoreKey(i))
           THEN Posted(a, b, RestoreKey(i), d.redeem)
           ELSE b = a
  PROVE  Standing(t, b)
<1>1. /\ \A j \in Invoices \ {i} : t.invoices[j] = s.invoices[j]
      /\ t.invoices[i].status = "cancelled" /\ t.invoices[i].payment = d.payment
      /\ t.invoices[i].paid = d.paid /\ t.invoices[i].due = d.due
      /\ t.invoices[i].redeem = d.redeem /\ t.subscription = s.subscription
  BY DEF Rewritten
<1>2. d.redeem \in Int
  BY DEF SaleDocs, InvoiceDocs
<1>3. /\ Explained(b)
      /\ \A other : Recorded(a, other) => Recorded(b, other)
      /\ \A other : Recorded(b, other) => Recorded(a, other) \/ other = RestoreKey(i)
      /\ d.redeem > 0 /\ Recorded(a, RedeemKey(i)) => Recorded(b, RestoreKey(i))
  <2>1. CASE d.redeem > 0 /\ Recorded(a, RedeemKey(i)) /\ ~Recorded(a, RestoreKey(i))
    <3>1. Posted(a, b, RestoreKey(i), d.redeem)
      BY <2>1
    <3>2. Explained(b)
      BY <1>2, <3>1, PostedExplains DEF Standing
    <3> QED
      BY <3>1, <3>2 DEF Posted
  <2>2. CASE ~(d.redeem > 0 /\ Recorded(a, RedeemKey(i)) /\ ~Recorded(a, RestoreKey(i)))
    BY <2>2 DEF Standing
  <2> QED
    BY <2>1, <2>2
<1>4. \A j \in Invoices : RedeemKey(j) # RestoreKey(i)
  BY KeysDiffer
<1>5. /\ Recorded(a, RedeemKey(i)) => d.redeem > 0
      /\ d.payment = DerivePaymentStatus(d.paid, d.due)
  BY DEF Standing, Derived
<1>6. d.payment # "paid"
  <2>1. d.paid \in Nat /\ d.due \in Nat /\ d.paid + d.due = Payable
    BY DEF Counted
  <2> QED
    BY <1>5, <2>1, DerivedStatus
<1>7. Derived(t, b)
  BY <1>1, <1>3, <1>4, <1>5 DEF Standing, Derived
<1>8. Opened(t)
  BY <1>1, <1>6 DEF Standing, Opened
<1>9. Restored(t, b)
  BY <1>1, <1>3, <1>4, <1>5 DEF Standing, Restored
<1> QED
  BY <1>3, <1>7, <1>8, <1>9 DEF Standing

\* The cancellation of the subscription may take an invoice without money along.
LEMMA StandingCancelSale ==
  ASSUME NEW s \in SaleDocs, NEW t, NEW a \in Accounts, NEW i \in Invoices,
         NEW d, d = s.invoices[i], NEW e, e = t.invoices[i], Standing(s, a), Counted(s),
         t.subscription = "cancelled",
         \A j \in Invoices \ {i} : t.invoices[j] = s.invoices[j],
         \/ e = d
         \/ /\ d.status = "draft" \/ (d.status # "none" /\ d.payment = "unpaid")
            /\ e.status = "cancelled" /\ e.payment = d.payment /\ e.paid = d.paid
            /\ e.due = d.due /\ e.redeem = d.redeem
  PROVE  Standing(t, a)
<1>1. /\ d.payment = DerivePaymentStatus(d.paid, d.due)
      /\ d.status = "draft" => d.paid = 0
  BY DEF Standing, Derived
<1>2. d.paid \in Nat /\ d.due \in Nat /\ d.paid + d.due = Payable
  BY DEF Counted
<1>3. e = d \/ (d.paid = 0 /\ d.status # "none" /\ e.payment = d.payment /\ e.paid = d.paid
                /\ e.due = d.due /\ e.redeem = d.redeem /\ e.status = "cancelled")
  BY <1>1, <1>2, DerivedStatus
<1>4. Derived(t, a)
  BY <1>3 DEF Standing, Derived
<1> QED
  BY <1>4 DEF Standing, Opened, Restored

\* A payment, and what a void returns, leave an invoice with the status its
\* amounts give it.
LEMMA StandingSettles ==
  ASSUME NEW s \in SaleDocs, NEW t, NEW a \in Accounts, NEW i \in Invoices, NEW m \in Int,
         Standing(s, a), Counted(s), Counted(t), Settles(s, t, i, m),
         s.invoices[i].status = "finalized" \/ m <= 0
  PROVE  /\ Derived(t, a)
         /\ (s.subscription = "cancelled" => t.subscription = "cancelled") => Restored(t, a)
         /\ \A j \in Invoices : t.invoices[j].status = s.invoices[j].status
<1>1. /\ \A j \in Invoices \ {i} : t.invoices[j] = s.invoices[j]
      /\ t.invoices[i].paid = s.invoices[i].paid + m
      /\ t.invoices[i].payment = DerivePaymentStatus(t.invoices[i].paid, t.invoices[i].due)
      /\ t.invoices[i].status = s.invoices[i].status
      /\ t.invoices[i].redeem = s.invoices[i].redeem
  BY DEF Settles
<1>2. t.invoices[i].paid \in Nat /\ s.invoices[i].paid \in Nat
  BY DEF Counted
<1>3. s.invoices[i].status # "finalized" => s.invoices[i].paid = 0
  BY DEF Standing, Derived
<1>4. t.invoices[i].status # "finalized" => t.invoices[i].paid = 0
  BY <1>1, <1>2, <1>3
<1> QED
  BY <1>1, <1>4 DEF Standing, Derived, Restored


\* A payment that settles the invoice opens the subscription.
LEMMA StandingPay ==
  ASSUME NEW s \in SaleDocs, NEW t, NEW a \in Accounts, NEW b, NEW i \in Invoices,
         NEW m \in Nat, Standing(s, a), Counted(s), Counted(t), Settles(s, t, i, m),
         s.invoices[i].status = "finalized", m <= s.invoices[i].due,
         b = a \/ Posted(a, b, EarnKey(i), EarnPoints),
         \/ t.subscription = s.subscription
         \/ /\ s.subscription = "pending_payment" /\ t.subscription = "active"
            /\ t.invoices[i].payment = "paid"
  PROVE  Standing(t, b)
<1>1. /\ Derived(t, a) /\ Restored(t, a)
      /\ \A j \in Invoices : t.invoices[j].status = s.invoices[j].status
  <2>1. s.subscription = "cancelled" => t.subscription = "cancelled"
    OBVIOUS
  <2>2. m \in Int
    OBVIOUS
  <2> QED
    BY <2>1, <2>2, StandingSettles
<1>2. s.invoices[i].payment = "paid" => t.invoices[i].payment = "paid"
  <2>1. s.invoices[i].payment = DerivePaymentStatus(s.invoices[i].paid, s.invoices[i].due)
    BY DEF Standing, Derived
  <2>2. /\ s.invoices[i].paid \in Nat /\ s.invoices[i].due \in Nat
        /\ s.invoices[i].paid + s.invoices[i].due = Payable
        /\ t.invoices[i].paid \in Nat /\ t.invoices[i].due \in Nat
        /\ t.invoices[i].paid + t.invoices[i].due = Payable
    BY DEF Counted
  <2>3. /\ t.invoices[i].due = s.invoices[i].due - m
        /\ t.invoices[i].payment = DerivePaymentStatus(t.invoices[i].paid, t.invoices[i].due)
    BY DEF Settles
  <2>4. s.invoices[i].due = 0 => t.invoices[i].due = 0
    BY <2>2, <2>3
  <2> QED
    BY <2>1, <2>2, <2>3, <2>4, DerivedStatus
<1>3. \A j \in Invoices \ {i} : t.invoices[j] = s.invoices[j]
  BY DEF Settles
<1>4. Opened(t)
  BY <1>1, <1>2, <1>3 DEF Standing, Opened
<1>5. Standing(t, a)
  BY <1>1, <1>4 DEF Standing
<1>6. EarnPoints \in Int /\ \A j \in Invoices : RedeemKey(j) # EarnKey(i)
  BY KeysDiffer, SettlementAssumption
<1> QED
  BY <1>5, <1>6, PostedOther

\* A void that leaves the invoice unpaid closes it.
LEMMA StandingVoid ==
  ASSUME NEW s \in SaleDocs, NEW t, NEW a \in Accounts, NEW b, NEW i \in Invoices, NEW p,
         NEW n \in Nat, NEW m, m = -n, Standing(s, a), Counted(s), Counted(t),
         Settles(s, t, i, m),
         b = a \/ Posted(a, b, ReverseKey(p), -EarnPoints),
         t.subscription = IF /\ s.invoices[i].payment = "paid"
                             /\ t.invoices[i].payment # "paid"
                             /\ s.subscription \notin {"none", "cancelled"}
                            THEN "pending_payment"
                            ELSE s.subscription
  PROVE  Standing(t, b)
<1>1. /\ Derived(t, a) /\ Restored(t, a)
      /\ \A j \in Invoices : t.invoices[j].status = s.invoices[j].status
  <2>1. s.subscription = "cancelled" => t.subscription = "cancelled"
    OBVIOUS
  <2>2. m \in Int /\ m <= 0
    OBVIOUS
  <2> QED
    BY <2>1, <2>2, StandingSettles
<1>2. \A j \in Invoices \ {i} : t.invoices[j] = s.invoices[j]
  BY DEF Settles
<1>3. Opened(t)
  <2>1. t.subscription = "active" =>
          /\ s.subscription = "active"
          /\ s.invoices[i].payment = "paid" => t.invoices[i].payment = "paid"
    OBVIOUS
  <2> QED
    BY <1>1, <1>2, <2>1 DEF Standing, Opened
<1>4. Standing(t, a)
  BY <1>1, <1>3 DEF Standing
<1>5. -EarnPoints \in Int /\ \A j \in Invoices : RedeemKey(j) # ReverseKey(p)
  BY KeysDiffer, SettlementAssumption
<1> QED
  BY <1>4, <1>5, PostedOther

\* A customer's standing is about amounts and statuses, not versions.
LEMMA SameStanding ==
  ASSUME NEW s, NEW t, NEW a, NEW b, Standing(s, a), t.subscription = s.subscription,
         \A i \in Invoices : /\ t.invoices[i].paid = s.invoices[i].paid
                             /\ t.invoices[i].due = s.invoices[i].due
                             /\ t.invoices[i].status = s.invoices[i].status
                             /\ t.invoices[i].payment = s.invoices[i].payment
                             /\ t.invoices[i].redeem = s.invoices[i].redeem,
         b.points = a.points, b.debt = a.debt, b.ledger = a.ledger
  PROVE  Standing(t, b)
<1>1. LedgerTotal(a) = LedgerTotal(b) /\ \A key : Recorded(a, key) <=> Recorded(b, key)
  BY SameLedger
<1>2. Derived(t, b)
  BY <1>1 DEF Standing, Derived
<1>3. Explained(b)
  BY <1>1 DEF Standing, Explained
<1>4. Opened(t)
  BY DEF Standing, Opened
<1>5. Restored(t, b)
  BY <1>1 DEF Standing, Restored
<1> QED
  BY <1>2, <1>3, <1>4, <1>5 DEF Standing

\* With transactions the amounts of an invoice are the payments that count.
LEMMA BooksCount ==
  ASSUME NEW s \in SaleDocs, NEW a, NEW requests, Covered(s, a, requests, TRUE)
  PROVE  Counted(s)
<1> SUFFICES ASSUME NEW i \in Invoices
             PROVE  /\ s.invoices[i].paid \in Nat /\ s.invoices[i].due \in Nat
                    /\ s.invoices[i].paid + s.invoices[i].due = Payable
  BY DEF Counted
<1>1. /\ s.invoices[i].paid + s.invoices[i].due = Payable /\ s.invoices[i].due >= 0
      /\ Collected(s, i) = s.invoices[i].paid
  BY DEF Covered
<1>2. Collected(s, i) \in Nat /\ s.invoices[i].due \in Int
  BY CollectedIsNat DEF Collected, SaleDocs, PaymentTables, InvoiceDocs
<1> QED
  BY <1>1, <1>2

\* A whole program keeps the standing of the customer, whatever its kind.
LEMMA StandingTransact ==
  ASSUME BooksInv, BooksInv', Standing(sale, account), atomically, atomically',
         NEW r \in Submitted, Transact(r)
  PROVE  Standing(sale', account')
<1> DEFINE w == Work(r)
<1>1. PICK x : /\ x = Run(w, Program[r.kind]) /\ x.ok
               /\ sale' = Unversioned(x.sale) /\ account' = [x.account EXCEPT !.version = 0]
  BY DEF Transact
<1>2. /\ Stage(w, 1) /\ w.request = r /\ w.sale = sale /\ w.account = account
      /\ w.request.kind = r.kind
  BY WorkStage
<1> HIDE DEF w
<1>3. x \in Works /\ x.sale \in SaleDocs /\ x.account \in Accounts
  BY <1>1, <1>2, RunBalanced DEF Works
<1>4. /\ sale' \in SaleDocs /\ sale'.subscription = x.sale.subscription
      /\ \A i \in Invoices : /\ sale'.invoices[i].paid = x.sale.invoices[i].paid
                             /\ sale'.invoices[i].due = x.sale.invoices[i].due
                             /\ sale'.invoices[i].status = x.sale.invoices[i].status
                             /\ sale'.invoices[i].payment = x.sale.invoices[i].payment
                             /\ sale'.invoices[i].redeem = x.sale.invoices[i].redeem
      /\ account'.points = x.account.points /\ account'.debt = x.account.debt
      /\ account'.ledger = x.account.ledger
  BY <1>1, <1>3, UnversionedSale, UnversionedAccount
<1>5. sale \in SaleDocs /\ account \in Accounts /\ Counted(sale)
  BY BooksCount DEF BooksInv
<1>6. Counted(x.sale)
  <2>1. Counted(sale')
    BY <1>4, BooksCount DEF BooksInv
  <2> QED
    BY <1>4, <2>1 DEF Counted
<1>7. Standing(x.sale, x.account)
  <2>1. CASE r.kind = "finalize"
    <3>1. x = Run(w, Program.finalize) /\ w.request.kind = "finalize"
      BY <1>1, <1>2, <2>1
    <3> QED
      BY <1>1, <1>2, <1>5, <3>1, FinalizeRun, StandingFinalize
  <2>2. CASE r.kind = "cancel"
    <3>1. x = Run(w, Program.cancel) /\ w.request.kind = "cancel"
      BY <1>1, <1>2, <2>2
    <3> QED
      <4>1. PICK i : i = w.request.invoice
        OBVIOUS
      <4>2. PICK d : d = sale.invoices[i]
        OBVIOUS
      <4>3. /\ i \in Invoices /\ d.status \in {"draft", "finalized"} /\ d.paid = 0
            /\ Rewritten(sale, x.sale, i, "cancelled", d.payment)
            /\ IF d.redeem > 0 /\ Recorded(account, RedeemKey(i))
                  /\ ~Recorded(account, RestoreKey(i))
                 THEN Posted(account, x.account, RestoreKey(i), d.redeem)
                 ELSE x.account = account
        BY <1>1, <1>2, <3>1, <4>1, <4>2, CancelRun
      <4> QED
        BY <1>5, <4>2, <4>3, StandingCancel
  <2>3. CASE r.kind = "cancelSale"
    <3>1. x = Run(w, Program.cancelSale) /\ w.request.kind = "cancelSale"
      BY <1>1, <1>2, <2>3
    <3> QED
      BY <1>1, <1>2, <1>5, <3>1, CancelSaleRun, StandingCancelSale
  <2>4. CASE r.kind = "pay"
    <3>1. x = Run(w, Program.pay) /\ w.request.kind = "pay"
      BY <1>1, <1>2, <2>4
    <3> QED
      <4>1. PICK i : i = w.request.invoice
        OBVIOUS
      <4>2. PICK m : m = w.request.amount
        OBVIOUS
      <4>3. /\ i \in Invoices /\ sale.invoices[i].status = "finalized"
            /\ m \in Nat /\ m <= sale.invoices[i].due /\ Settles(sale, x.sale, i, m)
            /\ x.account = account \/ Posted(account, x.account, EarnKey(i), EarnPoints)
            /\ \/ x.sale.subscription = sale.subscription
               \/ /\ sale.subscription = "pending_payment" /\ x.sale.subscription = "active"
                  /\ x.sale.invoices[i].payment = "paid"
        BY <1>1, <1>2, <3>1, <4>1, <4>2, PayRun
      <4> QED
        BY <1>5, <1>6, <4>3, StandingPay
  <2>5. CASE r.kind = "void"
    <3>1. x = Run(w, Program.void) /\ w.request.kind = "void"
      BY <1>1, <1>2, <2>5
    <3> QED
      <4>1. PICK p : p = w.request.payment
        OBVIOUS
      <4>2. PICK i, n : i = sale.payments[p].invoice /\ n = sale.payments[p].amount
        OBVIOUS
      <4>3. PICK m : m = -n
        OBVIOUS
      <4>4. /\ i \in Invoices /\ n \in Nat /\ m \in Int /\ Settles(sale, x.sale, i, m)
            /\ x.account = account \/ Posted(account, x.account, ReverseKey(p), -EarnPoints)
            /\ x.sale.subscription = IF /\ sale.invoices[i].payment = "paid"
                                        /\ x.sale.invoices[i].payment # "paid"
                                        /\ sale.subscription \notin {"none", "cancelled"}
                                       THEN "pending_payment"
                                       ELSE sale.subscription
        BY <1>1, <1>2, <3>1, <4>1, <4>2, <4>3, VoidRun
      <4> QED
        BY <1>5, <1>6, <4>3, <4>4, StandingVoid
  <2> QED
    BY <2>1, <2>2, <2>3, <2>4, <2>5 DEF Submitted
<1> QED
  BY <1>4, <1>7, SameStanding


\* A draft holds no money, and nothing is redeemed for it yet.
LEMMA StandingCreate ==
  ASSUME BooksInv, Standing(sale, account), NEW i \in Invoices, NEW n \in RedeemChoices,
         CreateInvoice(i, n)
  PROVE  Standing(sale', account')
<1> DEFINE d == [NewInvoice EXCEPT !.status = "draft", !.redeem = n]
<1>1. /\ sale.invoices[i].status = "none" /\ sale' = [sale EXCEPT !.invoices[i] = d]
      /\ account' = account
  BY DEF CreateInvoice
<1>2. d.status = "draft" /\ d.paid = 0 /\ d.due = Payable /\ d.payment = "unpaid"
  BY NewDraft DEF NewInvoice
<1> HIDE DEF d
<1>3. /\ sale'.invoices[i] = d /\ sale'.subscription = sale.subscription
      /\ \A j \in Invoices \ {i} : sale'.invoices[j] = sale.invoices[j]
  BY <1>1 DEF BooksInv, SaleDocs
<1>4. d.payment = DerivePaymentStatus(d.paid, d.due)
  BY <1>2, SettlementAssumption DEF DerivePaymentStatus
<1>5. ~Recorded(account, RedeemKey(i))
  BY <1>1 DEF Standing, Derived
<1>6. Derived(sale', account)
  BY <1>2, <1>3, <1>4, <1>5 DEF Standing, Derived
<1>7. Opened(sale')
  BY <1>1, <1>3 DEF Standing, Opened
<1>8. Restored(sale', account)
  BY <1>2, <1>3 DEF Standing, Restored
<1> QED
  BY <1>1, <1>6, <1>7, <1>8 DEF Standing

\* An adjustment is posted to the balance and to the ledger alike.
LEMMA StandingAdjust ==
  ASSUME BooksInv, Standing(sale, account), NEW key \in Keys, NEW delta \in {-1, 1},
         AdjustPoints(key, delta)
  PROVE  Standing(sale', account')
<1> DEFINE a == IF delta < 0 THEN Spent(account, -delta) ELSE Credited(account, delta)
<1>1. /\ account' = Entered(a, AdjustKey(key), delta) /\ sale' = sale
      /\ ~Recorded(account, AdjustKey(key))
      /\ delta >= 0 \/ CanSpend(account, -delta)
  BY DEF AdjustPoints
<1>2. account \in Accounts /\ delta \in Int
  BY DEF BooksInv
<1>3. /\ a \in Accounts /\ a.ledger = account.ledger
      /\ a.points - a.debt = account.points - account.debt + delta
  <2>1. CASE delta = -1
    <3>1. a = Spent(account, 1) /\ CanSpend(account, 1)
      BY <1>1, <2>1
    <3> HIDE DEF a
    <3>2. /\ a \in Accounts /\ a.ledger = account.ledger
          /\ a.points - a.debt = account.points - account.debt - 1
      BY <1>2, <3>1, SpentAccount
    <3>3. account.points \in Int /\ account.debt \in Int /\ a.points \in Int /\ a.debt \in Int
      BY <1>2, <3>2 DEF Accounts
    <3> QED
      BY <2>1, <3>2, <3>3
  <2>2. CASE delta = 1
    <3>1. a = Credited(account, 1)
      BY <2>2
    <3> HIDE DEF a
    <3> QED
      BY <1>2, <2>2, <3>1, CreditedAccount
  <2> QED
    BY <2>1, <2>2
<1> HIDE DEF a
<1>4. AdjustKey(key) \in EntryKeys
  BY DEF EntryKeys
<1>5. Posted(account, account', AdjustKey(key), delta)
  BY <1>1, <1>2, <1>3, <1>4, PostedIs
<1>6. \A i \in Invoices : RedeemKey(i) # AdjustKey(key)
  BY KeysDiffer
<1> QED
  BY <1>1, <1>2, <1>5, <1>6, PostedOther

\* Settings are no part of a customer's standing.
LEMMA StandingConfig ==
  ASSUME BooksInv, Standing(sale, account), UpdateConfig
  PROVE  Standing(sale', account')
<1>1. /\ sale' = [sale EXCEPT !.loyaltyEnabled = ~sale.loyaltyEnabled] /\ account' = account
  BY DEF UpdateConfig
<1>2. sale'.invoices = sale.invoices /\ sale'.subscription = sale.subscription
  BY <1>1 DEF BooksInv, SaleDocs
<1> QED
  BY <1>1, <1>2, SameStanding

\* A subscription that is used up or expires is not active any more.
LEMMA StandingClose ==
  ASSUME BooksInv, Standing(sale, account), NEW status \in {"exhausted", "expired"},
         CloseSale(status)
  PROVE  Standing(sale', account')
<1>1. /\ sale.subscription \in {"active", "pending_payment"}
      /\ sale' = [sale EXCEPT !.subscription = status,
                              !.consumed = sale.consumed \/ status = "exhausted"]
      /\ account' = account
  BY DEF CloseSale
<1>2. sale'.invoices = sale.invoices /\ sale'.subscription = status
  BY <1>1 DEF BooksInv, SaleDocs
<1>3. sale'.subscription \notin {"active", "cancelled"} /\ sale.subscription # "cancelled"
  BY <1>1, <1>2
<1> QED
  BY <1>1, <1>2, <1>3 DEF Standing, Derived, Opened, Restored

\* At first the ledger is empty, and nothing is billed.
LEMMA StandingStart == SettleInit => StandingInv
<1> SUFFICES ASSUME SettleInit PROVE Standing(sale, account)
  BY DEF StandingInv
<1>1. PICK s \in {"none", "pending_payment"} :
        sale = [invoices |-> [i \in Invoices |-> NewInvoice],
                payments |-> [p \in Payments |-> NewPayment],
                subscription |-> s, consumed |-> FALSE, loyaltyEnabled |-> TRUE]
  BY DEF SettleInit
<1>2. account = [points |-> InitialPoints, debt |-> 0, version |-> 0, ledger |-> {}]
  BY DEF SettleInit
<1>3. \A key : ~Recorded(account, key)
  BY <1>2 DEF Recorded
<1>4. LedgerTotal(account) = 0
  <2>1. account.ledger = {}
    BY <1>2
  <2> DEFINE f == [t \in account.ledger |-> t.delta]
  <2>2. LedgerTotal(account) = SumFunctionOnSet(f, {})
    BY <2>1 DEF LedgerTotal
  <2> HIDE DEF f
  <2> QED
    BY <2>2, SumEmpty
<1>5. Explained(account)
  BY <1>2, <1>4, SettlementAssumption DEF Explained
<1>6. \A i \in Invoices : /\ sale.invoices[i].status = "none"
                          /\ sale.invoices[i].paid = 0 /\ sale.invoices[i].due = Payable
                          /\ sale.invoices[i].payment = "unpaid"
  BY <1>1 DEF NewInvoice
<1>7. DerivePaymentStatus(0, Payable) = "unpaid"
  BY SettlementAssumption DEF DerivePaymentStatus
<1>8. sale.subscription # "active"
  BY <1>1
<1> QED
  BY <1>3, <1>5, <1>6, <1>7, <1>8 DEF Standing, Derived, Opened, Restored

\* Without requests under way, every step is a whole program or an action of its own.
LEMMA StandingStep ==
  BooksInv /\ BooksInv' /\ StandingInv /\ [SettleNext]_settleVars => StandingInv'
<1> SUFFICES ASSUME BooksInv, BooksInv', StandingInv, [SettleNext]_settleVars, atomically'
             PROVE  Standing(sale', account')
  BY DEF StandingInv
<1>1. atomically' = atomically
  <2>1. ASSUME NEW i \in Invoices, NEW n \in RedeemChoices, CreateInvoice(i, n)
        PROVE  atomically' = atomically
    BY <2>1 DEF CreateInvoice
  <2>2. ASSUME NEW r \in Submitted, Transact(r) PROVE atomically' = atomically
    BY <2>2 DEF Transact
  <2>3. ASSUME NEW q \in Requests, NEW r \in Submitted, Start(q, r)
        PROVE  atomically' = atomically
    BY <2>3 DEF Start
  <2>4. ASSUME NEW q \in Requests, Advance(q) \/ Crash(q) PROVE atomically' = atomically
    BY <2>4 DEF Advance, Crash
  <2>5. ASSUME NEW key \in Keys, NEW delta \in {-1, 1}, AdjustPoints(key, delta)
        PROVE  atomically' = atomically
    BY <2>5 DEF AdjustPoints
  <2>6. CASE UpdateConfig
    BY <2>6 DEF UpdateConfig
  <2>7. ASSUME NEW status \in {"exhausted", "expired"}, CloseSale(status)
        PROVE  atomically' = atomically
    BY <2>7 DEF CloseSale
  <2>8. CASE UNCHANGED settleVars
    BY <2>8 DEF settleVars
  <2> QED
    BY <2>1, <2>2, <2>3, <2>4, <2>5, <2>6, <2>7, <2>8 DEF SettleNext
<1>2. Standing(sale, account) /\ atomically
  BY <1>1 DEF StandingInv
<1>3. \A q \in Requests : active[q] \in {Idle, Done}
  BY <1>2 DEF BooksInv
<1>4. ASSUME NEW i \in Invoices, NEW n \in RedeemChoices, CreateInvoice(i, n)
      PROVE  Standing(sale', account')
  BY <1>2, <1>4, StandingCreate
<1>5. ASSUME NEW r \in Submitted, Transact(r) PROVE Standing(sale', account')
  BY <1>1, <1>2, <1>5, StandingTransact
<1>6. ASSUME NEW q \in Requests, NEW r \in Submitted, Start(q, r) PROVE FALSE
  BY <1>2, <1>6 DEF Start
<1>7. ASSUME NEW q \in Requests, Advance(q) \/ Crash(q) PROVE FALSE
  BY <1>3, <1>7 DEF Advance, Crash
<1>8. ASSUME NEW key \in Keys, NEW delta \in {-1, 1}, AdjustPoints(key, delta)
      PROVE  Standing(sale', account')
  BY <1>2, <1>8, StandingAdjust
<1>9. CASE UpdateConfig
  BY <1>2, <1>9, StandingConfig
<1>10. ASSUME NEW status \in {"exhausted", "expired"}, CloseSale(status)
       PROVE  Standing(sale', account')
  BY <1>2, <1>10, StandingClose
<1>11. CASE UNCHANGED settleVars
  <2>1. sale' = sale /\ account' = account
    BY <1>11 DEF settleVars
  <2> QED
    BY <1>2, <2>1, SameStanding
<1> QED
  BY <1>4, <1>5, <1>6, <1>7, <1>8, <1>9, <1>10, <1>11 DEF SettleNext

\* With transactions the documents of a sale and the customer's standing agree
\* after every request.
THEOREM StandingInvariant == SettleSpec => [](BooksInv /\ StandingInv)
<1>1. SettleInit => BooksInv /\ StandingInv
  BY BooksInit, StandingStart
<1>2. BooksInv /\ StandingInv /\ [SettleNext]_settleVars => BooksInv' /\ StandingInv'
  BY BooksStep, StandingStep
<1> QED
  BY <1>1, <1>2, PTL DEF SettleSpec

\* PointsAccounted: the balance less the debt is the initial balance plus every
\* recorded delta, whatever is redeemed, restored, earned, reversed or adjusted.
THEOREM PointsAreAccounted == SettleSpec => []PointsAccounted
<1>1. StandingInv => PointsAccounted
  BY DEF StandingInv, Standing, Explained, PointsAccounted
<1> QED
  BY <1>1, StandingInvariant, PTL

\* ActiveIsPaid: a subscription is active only while an invoice of its sale is
\* settled.
THEOREM ActiveOnlyWhilePaid == SettleSpec => []ActiveIsPaid
<1>1. StandingInv => ActiveIsPaid
  BY DEF StandingInv, Standing, Opened, ActiveIsPaid
<1> QED
  BY <1>1, StandingInvariant, PTL

\* CancelledKeepsNothing: a cancelled invoice keeps no payment that counts, and
\* no points, unless the cancellation of its subscription took it along.
THEOREM CancelledInvoicesKeepNothing == SettleSpec => []CancelledKeepsNothing
<1>1. ASSUME BooksInv, StandingInv, NEW i \in Invoices, atomically,
             sale.invoices[i].status = "cancelled"
      PROVE  /\ CollectedFor(i) = 0
             /\ \/ Recorded(account, RedeemKey(i)) => Recorded(account, RestoreKey(i))
                \/ sale.subscription = "cancelled"
  <2>1. Derived(sale, account) /\ Restored(sale, account)
    BY <1>1 DEF StandingInv, Standing
  <2>2. sale.invoices[i].paid = 0
    BY <1>1, <2>1 DEF Derived
  <2>3. Collected(sale, i) = sale.invoices[i].paid
    BY <1>1 DEF BooksInv, Covered
  <2>4. CollectedFor(i) = Collected(sale, i)
    BY DEF CollectedFor, PaymentsOf, Collected, CollectedIn, Completed
  <2> QED
    BY <1>1, <2>1, <2>2, <2>3, <2>4 DEF Restored
<1>2. BooksInv /\ StandingInv => CancelledKeepsNothing
  BY <1>1 DEF CancelledKeepsNothing
<1> QED
  BY <1>2, StandingInvariant, PTL
=============================================================================
