-------------------------- MODULE MCSubscriptions --------------------------
(* Instances of Subscriptions for TLC: a billing period, a grace buffer and *)
(* a retry window of one clock unit each.                                   *)
EXTENDS Subscriptions, TLC

Ids == 1..2

\* Two handlers race: a write of each shape, with and without a second step.
RacingTypes == {"RENEWAL", "EXPIRATION", "TRANSFER"}
RacingPayloads == {{"family"}}

\* One handler: every class of event and payload.
AllTypes == {"INITIAL_PURCHASE", "RENEWAL", "CANCELLATION", "EXPIRATION", "BILLING_ISSUE",
             "PRODUCT_CHANGE", "TRANSFER", "TEST"}
AllPayloads == {{}, {"family"}, {"individual", "family"}}

Symmetry == Permutations(Requests)
=============================================================================
