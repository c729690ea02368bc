----------------------- MODULE MCSubscriptionRedemption -----------------------
(***************************************************************************)
(* Small instances of SubscriptionRedemption for TLC: an appointment with  *)
(* two lines, both covered by one subscription or by one each.             *)
(***************************************************************************)
EXTENDS SubscriptionRedemption, TLC

CONSTANTS a1, l1, l2, s1, s2

MCOneAppointment == [l \in Lines |-> a1]
MCSharedSubscription == [l \in Lines |-> s1]
MCOwnSubscriptions == [l \in Lines |-> IF l = l1 THEN s1 ELSE s2]

\* Requests, passes and challenge ids are interchangeable.
MCSymmetry ==
  Permutations(Workers) \cup Permutations(Sweepers) \cup Permutations(Challenges)
=============================================================================
