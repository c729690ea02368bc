----------------------------- MODULE InvoiceDraft -----------------------------
(***************************************************************************)
(* A draft invoice edited by several members of staff.  Discounts come in  *)
(* two forms: the scalar of the creation and of updateDraftInvoice, which  *)
(* already holds the loyalty discount, and the itemised records of         *)
(* apply/modify/removeInvoiceDiscount, from which the totals are computed  *)
(* anew.  Every handler reads the invoice, computes, and writes under the  *)
(* version it read; nothing is paid on a draft.                            *)
(***************************************************************************)
EXTENDS InvoiceMoney, FiniteSets

CONSTANTS
  DraftLines,      \* totals, in cents, of the lines no subscription covers:
                   \* a covered line is free and never takes a discount
  Editors,         \* requests that edit the invoice
  NoEdit,          \* an editor that has read nothing yet
  Scalars,         \* discountTotal entered at creation or by updateDraftInvoice
  PointRequests,   \* redeemLoyaltyPoints entered
  Discounts,       \* [type, value] of itemised discounts
  Balance,         \* the customer's loyaltyPoints while the invoice is a draft
  MinPoints, MaxPercentage, PointValue,   \* the loyalty configuration
  MaxVersion       \* bound on the writes to the invoice

ASSUME DraftAssumption ==
  /\ DraftLines \in Seq(Nat) /\ DraftLines # <<>>
  /\ Balance \in Nat
  /\ Scalars \subseteq Nat /\ PointRequests \subseteq Nat
  /\ \A d \in Discounts : /\ d.type \in {"percentage", "fixed"} /\ d.value \in Nat \ {0}
                          /\ d.type = "percentage" => d.value <= 100
  /\ {MinPoints, MaxPercentage, PointValue, MaxVersion} \subseteq Nat \ {0}

VARIABLES
  sheet,    \* the invoice document
  editing,  \* the copy of it each editor holds, or NoEdit
  granted   \* identities of the itemised discounts granted and not removed

draftVars == <<sheet, editing, granted>>

LineIdx == DOMAIN DraftLines
Eligible == SumOf(DraftLines)
LegacyId == -1

-----------------------------------------------------------------------------
(* Totals *)

\* calculateInvoiceTotals: one scalar over all uncovered lines, loyalty included.
ScalarTotals(desired) ==
  LET effective == Capped(Eligible, desired)
      shares == Split(DraftLines, effective)
  IN  [discountTotal |-> effective,
       payable |-> Eligible - effective,
       lineDiscount |-> shares,
       linePayable |-> [i \in LineIdx |-> IF shares[i] > DraftLines[i]
                                            THEN 0 ELSE DraftLines[i] - shares[i]]]

\* Mutant of LoyaltyTaken: the redemption is not capped at what is left.
LoyaltyUncapped(left, loyalty) == loyalty

LoyaltyTaken(left, loyalty) == Capped(left, loyalty)

\* recalculateInvoiceFinancials: line discounts, then invoice discounts over the
\* net lines, then the loyalty discount, which no line carries.
ItemisedTotals(lineDiscounts, invoiceDiscounts, loyalty) ==
  LET net == [i \in LineIdx |-> AfterDiscounts(DraftLines[i], lineDiscounts[i])]
      pool == SumOf(net)
      left == AfterDiscounts(pool, invoiceDiscounts)
      shares == Split(net, pool - left)
      off == [i \in LineIdx |-> DraftLines[i] - net[i] + shares[i]]
      total == (Eligible - left) + LoyaltyTaken(left, loyalty)
  IN  [discountTotal |-> total,
       payable |-> Eligible - total,
       lineDiscount |-> off,
       linePayable |-> [i \in LineIdx |-> IF off[i] > DraftLines[i]
                                            THEN 0 ELSE DraftLines[i] - off[i]]]

\* The totals a scalar discount and a redemption request lead to.
PointsRefused(standard, points) ==
  points > 0 /\ RedemptionRefused(points, Balance, ScalarTotals(standard).payable,
                                  MinPoints, MaxPercentage, PointValue)
Redeemed(standard, points) ==
  IF points = 0 THEN 0
  ELSE PointsApplied(points, Balance, ScalarTotals(standard).payable,
                     MinPoints, MaxPercentage, PointValue)

NoItems == [i \in LineIdx |-> <<>>]

\* The draft createInvoiceFromAppointment saves, before any redemption is committed.
NewDraft(standard, points) ==
  LET redeemed == Redeemed(standard, points)
      loyalty == redeemed * PointValue
      totals == ScalarTotals(standard + loyalty)
  IN  [status |-> "draft", version |-> 0, points |-> redeemed, loyalty |-> loyalty,
       lineItems |-> NoItems, invoiceItems |-> <<>>,
       discountTotal |-> totals.discountTotal, payable |-> totals.payable,
       lineDiscount |-> totals.lineDiscount, linePayable |-> totals.linePayable]

\* New totals on a copy of the invoice.
WithTotals(s, totals) ==
  [s EXCEPT !.discountTotal = totals.discountTotal, !.payable = totals.payable,
            !.lineDiscount = totals.lineDiscount, !.linePayable = totals.linePayable]

\* materializeLegacyDiscountIfNeeded: the whole scalar becomes one itemised record.
Materialized(s) ==
  IF s.lineItems = NoItems /\ s.invoiceItems = <<>> /\ s.discountTotal > 0
    THEN <<[id |-> LegacyId, level |-> "invoice", type |-> "fixed",
            value |-> s.discountTotal]>>
    ELSE s.invoiceItems

Itemised(s, lineItems, invoiceItems) ==
  WithTotals([s EXCEPT !.lineItems = lineItems, !.invoiceItems = invoiceItems],
             ItemisedTotals(lineItems, invoiceItems, s.loyalty))

\* The records an invoice shows, and their identities.
Records(s) == Range(s.invoiceItems) \cup UNION {Range(s.lineItems[l]) : l \in LineIdx}
ItemIds(s) == {x.id : x \in Records(s)}

-----------------------------------------------------------------------------
(* Changes: what each handler makes of the copy it read *)

Item(id, level, d, value) == [id |-> id, level |-> level, type |-> d.type, value |-> value]

WithItem(s, l, item) == [s.lineItems EXCEPT ![l] = Append(@, item)]

ApplyToLine(s, l, d, id) ==
  Itemised(s, WithItem(s, l, Item(id, "line", d, d.value)), Materialized(s))

ApplyToInvoice(s, d, id) ==
  Itemised(s, s.lineItems, Append(Materialized(s), Item(id, "invoice", d, d.value)))

\* A fixed amount over selected lines is clamped to what they still cost, and
\* split over it; order is the lines, the last of which takes the remainder.
SelectedShares(order, cost, amount) ==
  LET bases == [k \in DOMAIN order |-> cost[order[k]]]
      shares == Split(bases, Capped(amount, SumOf(bases)))
  IN  [l \in Range(order) |->
         LET k == CHOOSE k \in DOMAIN order : order[k] = l
         IN  Capped(shares[k], bases[k])]

\* order: the lines as the request lists them, none of them twice.
ApplyToSelectedLines(s, order, d, id) ==
  LET cost == [l \in LineIdx |-> AfterDiscounts(DraftLines[l], s.lineItems[l])]
      shares == SelectedShares(order, cost, d.value)
      value(l) == IF d.type = "percentage" THEN d.value ELSE shares[l]
  IN  Itemised(s, [l \in LineIdx |->
                     IF l \in Range(order)
                       THEN Append(s.lineItems[l], Item(id, "selected_lines", d, value(l)))
                       ELSE s.lineItems[l]],
               Materialized(s))

\* The lines that carry a record, in the order of the invoice.
Carries(s, l, id) == \E x \in Range(s.lineItems[l]) : x.id = id
Listed(lines, line) == IF line.carries THEN Append(lines, line.index) ELSE lines
Carriers(s, id) ==
  FoldLeft(Listed, <<>>, [l \in LineIdx |-> [index |-> l, carries |-> Carries(s, l, id)]])

\* What a line costs but for one discount.
Others(items, id) ==
  [i \in DOMAIN items |->
     IF items[i].id = id THEN [type |-> "fixed", value |-> 0] ELSE items[i]]

\* A new value for a record on every line that carries it, or else at the root.
ModifyItem(s, id, value) ==
  LET lines == Carriers(s, id)
      cost == [l \in LineIdx |-> AfterDiscounts(DraftLines[l], Others(s.lineItems[l], id))]
      shares == SelectedShares(lines, cost, value)
      new(x, l) == [x EXCEPT !.value = IF x.level = "selected_lines" /\ x.type = "fixed"
                                         THEN shares[l] ELSE value]
      onLines == [l \in LineIdx |-> [i \in DOMAIN s.lineItems[l] |->
                    IF s.lineItems[l][i].id = id THEN new(s.lineItems[l][i], l)
                                                 ELSE s.lineItems[l][i]]]
      root == Materialized(s)
      atRoot == [i \in DOMAIN root |-> IF root[i].id = id THEN [root[i] EXCEPT !.value = value]
                                                          ELSE root[i]]
  IN  Itemised(s, onLines, IF lines = <<>> THEN atRoot ELSE root)

\* The record named goes from the list it is found in.
FirstOf(items, id) ==
  CHOOSE i \in DOMAIN items : items[i].id = id /\ \A j \in 1..(i - 1) : items[j].id # id
Without(items, id) ==
  IF \E x \in Range(items) : x.id = id THEN RemoveAt(items, FirstOf(items, id)) ELSE items

RemoveItem(s, id) ==
  Itemised(s, [l \in LineIdx |-> Without(s.lineItems[l], id)],
           IF Carriers(s, id) = <<>> THEN Without(Materialized(s), id) ELSE Materialized(s))

\* updateDraftInvoice leaves the itemised records as they are.
UpdateScalar(s, standard, points) ==
  LET redeemed == Redeemed(standard, points)
  IN  WithTotals([s EXCEPT !.points = redeemed, !.loyalty = redeemed * PointValue],
                 ScalarTotals(standard + redeemed * PointValue))

-----------------------------------------------------------------------------
DraftInit ==
  /\ \E standard \in Scalars, points \in PointRequests :
       /\ ~PointsRefused(standard, points)
       /\ sheet = NewDraft(standard, points)
  /\ editing = [e \in Editors |-> NoEdit]
  /\ granted = {}

\* A handler loads the invoice and stops unless it is a draft.
ReadDraft(e) ==
  /\ editing[e] = NoEdit
  /\ sheet.status = "draft"
  /\ sheet.version < MaxVersion
  /\ editing' = [editing EXCEPT ![e] = sheet]
  /\ UNCHANGED <<sheet, granted>>

\* Mutant of WriteGuard: the version is not part of the condition.
WriteGuardStatusOnly(read) == sheet.status = "draft"

\* The write: findOneAndUpdate, or a save, on the version read.
WriteGuard(read) == sheet.version = read.version /\ sheet.status = "draft"

Write(e, new) ==
  /\ editing[e] # NoEdit
  /\ WriteGuard(editing[e])
  /\ sheet' = [new EXCEPT !.version = sheet.version + 1]
  /\ editing' = [editing EXCEPT ![e] = NoEdit]

\* The new record's identity: the version its write produces names it.
NewId(e) == editing[e].version + 1

\* The lines a request may select.
Selections ==
  {order \in UNION {[1..n -> LineIdx] : n \in LineIdx} :
     \A j, k \in DOMAIN order : order[j] = order[k] => j = k}

ApplyInvoiceDiscount(e, d) ==
  /\ editing[e] # NoEdit
  /\ \/ \E l \in LineIdx : Write(e, ApplyToLine(editing[e], l, d, NewId(e)))
     \/ \E order \in Selections :
          Write(e, ApplyToSelectedLines(editing[e], order, d, NewId(e)))
     \/ Write(e, ApplyToInvoice(editing[e], d, NewId(e)))
  /\ granted' = granted \cup {NewId(e)}

\* A record is named by the identity a write has stored: the legacy record a
\* handler makes up on reading cannot be named yet.
ModifyInvoiceDiscount(e, id, value) ==
  /\ editing[e] # NoEdit
  /\ id \in ItemIds(editing[e])
  /\ \A x \in Records(editing[e]) : x.id = id /\ x.type = "percentage" => value <= 100
  /\ Write(e, ModifyItem(editing[e], id, value))
  /\ UNCHANGED granted

RemoveInvoiceDiscount(e, id) ==
  /\ editing[e] # NoEdit
  /\ id \in ItemIds(editing[e])
  /\ Write(e, RemoveItem(editing[e], id))
  /\ granted' = granted \ {id}

\* The two fields are optional; the one left out keeps its value.
Updates(read) ==
  (Scalars \X (PointRequests \cup {read.points}))
    \cup ({read.discountTotal - read.loyalty} \X PointRequests)

UpdateDraftInvoice(e, standard, points) ==
  /\ editing[e] # NoEdit
  /\ <<standard, points>> \in Updates(editing[e])
  /\ standard >= 0
  /\ ~PointsRefused(standard, points)
  /\ Write(e, UpdateScalar(editing[e], standard, points))
  /\ UNCHANGED granted

FinalizeDraft(e) ==
  /\ editing[e] # NoEdit
  /\ Write(e, [editing[e] EXCEPT !.status = "finalized"])
  /\ UNCHANGED granted

\* A stale write matches nothing: 409, "modified concurrently".
EditConflict(e) ==
  /\ editing[e] # NoEdit
  /\ ~WriteGuard(editing[e])
  /\ editing' = [editing EXCEPT ![e] = NoEdit]
  /\ UNCHANGED <<sheet, granted>>

DraftNext ==
  \E e \in Editors :
    \/ ReadDraft(e)
    \/ \E d \in Discounts : ApplyInvoiceDiscount(e, d)
    \/ \E id \in 1..MaxVersion \cup {LegacyId}, d \in Discounts :
         ModifyInvoiceDiscount(e, id, d.value)
    \/ \E id \in 1..MaxVersion \cup {LegacyId} : RemoveInvoiceDiscount(e, id)
    \/ \E standard \in 0..Eligible \cup Scalars, points \in 0..Balance :
         UpdateDraftInvoice(e, standard, points)
    \/ FinalizeDraft(e)
    \/ EditConflict(e)

-----------------------------------------------------------------------------
(* Properties *)

ItemType ==
  [id : Int, level : {"line", "selected_lines", "invoice"},
   type : {"percentage", "fixed"}, value : Nat]

DraftTypeOK ==
  /\ sheet.status \in {"draft", "finalized"}
  /\ sheet.version \in 0..MaxVersion
  /\ {sheet.discountTotal, sheet.payable, sheet.points, sheet.loyalty} \subseteq Nat
  /\ \A l \in LineIdx :
       /\ Range(sheet.lineItems[l]) \subseteq ItemType
       /\ {sheet.lineDiscount[l], sheet.linePayable[l]} \subseteq Nat
  /\ Range(sheet.invoiceItems) \subseteq ItemType
  /\ granted \subseteq 1..MaxVersion

\* Header and lines tell one story whatever was applied, changed and removed, in
\* whatever order and rounding: no line is discounted below zero, the lines'
\* payables and discounts add up to their totals, and they exceed the header's
\* payable by at most the loyalty discount, which only the header may carry
\* ("exact reconciliation between invoice header and line items").  It holds of
\* up to three lines: the last one takes the remainder uncapped, and from four
\* lines on the roundings before it can leave it more than it costs.
LinesReconcile ==
  LET over == SumOf(sheet.linePayable) - sheet.payable
  IN  /\ \A l \in LineIdx : sheet.lineDiscount[l] + sheet.linePayable[l] = DraftLines[l]
      /\ over \in 0..sheet.loyalty
      /\ sheet.payable >= 0

\* Two requests that edit the invoice at once never lose a discount: the records
\* it shows, but for the legacy one, are those granted and not removed since,
\* whichever copies the writes were computed from.
NoDiscountLost == ItemIds(sheet) \ {LegacyId} = granted

DraftSpec == DraftInit /\ [][DraftNext]_draftVars
=============================================================================
