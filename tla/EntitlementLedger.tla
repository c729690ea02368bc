-------------------------- MODULE EntitlementLedger --------------------------
(***************************************************************************)
(* What the subscription document promises about its prepaid balance, with *)
(* no process, message or challenge in sight: an operation identity takes  *)
(* one unit at most once, gives back only what it took and at most once,   *)
(* and once fenced never takes anything.                                   *)
(* SubscriptionRedemption is shown to implement this module.               *)
(***************************************************************************)
EXTENDS Integers, FiniteSets

CONSTANTS
  Operations,      \* the durable operation identities (appliedOperations)
  Subscriptions,   \* the subscriptions whose balance they touch
  SubscriptionOf,  \* the subscription of each operation
  Quota            \* the units every subscription starts with

VARIABLES
  balance,         \* units left per subscription
  state            \* what each operation has done so far

vars == <<balance, state>>

Init ==
  /\ balance = [s \in Subscriptions |-> Quota]
  /\ state = [op \in Operations |-> "unused"]

\* Operations that take one unit each, all in one atomic step.
Consume(ops) ==
  LET Taken(s) == Cardinality({op \in ops : SubscriptionOf[op] = s}) IN
  /\ \A op \in ops : state[op] = "unused"
  /\ \A s \in Subscriptions : Taken(s) <= balance[s]
  /\ balance' = [s \in Subscriptions |-> balance[s] - Taken(s)]
  /\ state' = [op \in Operations |-> IF op \in ops THEN "consumed" ELSE state[op]]

\* An operation that took a unit gives it back.
Restore(op) ==
  /\ state[op] = "consumed"
  /\ balance' = [balance EXCEPT ![SubscriptionOf[op]] = @ + 1]
  /\ state' = [state EXCEPT ![op] = "restored"]

\* An operation that has not taken anything is shut out for good.
Fence(op) ==
  /\ state[op] = "unused"
  /\ state' = [state EXCEPT ![op] = "fenced"]
  /\ UNCHANGED balance

Next ==
  \/ \E ops \in (SUBSET Operations) \ {{}} : Consume(ops)
  \/ \E op \in Operations : Restore(op) \/ Fence(op)

Spec == Init /\ [][Next]_vars
=============================================================================
