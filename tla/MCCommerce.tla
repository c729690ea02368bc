------------------------------- MODULE MCCommerce -------------------------------
(***************************************************************************)
(* Instances of the three modules about sales: the draft invoice, its      *)
(* settlement, and the subscription sold.  They share no variable; a       *)
(* behaviour follows one of them, chosen at the start, while the others    *)
(* rest, so that one run explores the three state graphs side by side.     *)
(***************************************************************************)
EXTENDS InvoiceDraft, InvoiceSettlement, SubscriptionLifecycle

CONSTANTS i1, i2, payer, friend

VARIABLE commerce   \* the module this behaviour follows

commerceVars == <<commerce, draftVars, settleVars, lifeVars>>

\* Two lines of five cents and one of three: shares that do not divide evenly.
MCLines == <<5, 5, 3>>
MCDiscounts == {[type |-> "percentage", value |-> 50], [type |-> "fixed", value |-> 4]}

\* The requests that interleave without transactions.
MCInterleaved == [kinds |-> {"pay", "void", "cancel"}, invoices |-> {i1}]

\* Two units for each of two members.
MCAllotment == [m \in Members |-> 2]

CommerceInit ==
  /\ commerce \in {"draft", "settlement", "subscription"}
  /\ DraftInit /\ SettleInit /\ LifeInit
  \* what rests has one initial state
  /\ commerce # "draft" => sheet = NewDraft(0, 0)
  /\ commerce # "settlement" => atomically /\ sale.subscription = "none"

CommerceNext ==
  \/ commerce = "draft" /\ DraftNext /\ UNCHANGED <<commerce, settleVars, lifeVars>>
  \/ commerce = "settlement" /\ SettleNext /\ UNCHANGED <<commerce, draftVars, lifeVars>>
  \/ commerce = "subscription" /\ LifeNext /\ UNCHANGED <<commerce, draftVars, settleVars>>

CommerceSpec == CommerceInit /\ [][CommerceNext]_commerceVars
=============================================================================
