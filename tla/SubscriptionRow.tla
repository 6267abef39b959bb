-------------------------- MODULE SubscriptionRow --------------------------
(***************************************************************************)
(* One row of the subscriptions table as a value: what each RevenueCat     *)
(* webhook writes into it, what a reconcile against RevenueCat's REST view  *)
(* writes into it, and the tier the entitlement checks read out of it.     *)
(*                                                                         *)
(* The identity columns (rcOriginalTransactionId, rcProductId, rcStore)    *)
(* are left out: no decision of the code reads them.  A time is a number   *)
(* of clock units, and Grace is the 24 hours of                            *)
(* SUBSCRIPTION_GRACE_PERIOD_MS.                                           *)
(***************************************************************************)
EXTENDS Integers

CONSTANTS
    Grace,      \* the buffer after currentPeriodEnd, in clock units
    Null,       \* SQL NULL
    Keep        \* JavaScript's undefined in a SET payload: column not written

ASSUME GraceAssumption == Grace \in Nat
ASSUME NullAssumption ==
    /\ Null \notin Int /\ Keep \notin Int /\ Keep # Null
    /\ Null # "active"

(***************************************************************************)
(* The row                                                                 *)
(***************************************************************************)
Paid == {"individual", "family"}
NonExpiringTiers == {"free", "lifetime"}
Tiers == Paid \union NonExpiringTiers
Statuses == {"active", "in_grace_period", "expired", Null}
Stamp == Int \union {Null}

\* "none" stands for the absence of a row (before sign-up, after deletion).
Row == [tier : Tiers \union {"none"}, status : Statuses, end : Stamp, unsub : Stamp]

NoRow == [tier |-> "none", status |-> Null, end |-> Null, unsub |-> Null]

\* The row upsertUser inserts: every column but the tier has its default.
FreshRow(tier) == [tier |-> tier, status |-> Null, end |-> Null, unsub |-> Null]

\* notLifetime(userId): the WHERE clause of every webhook and reconcile UPDATE.
\* (WritableAnyTier is the clause forgotten.)
WritableAnyTier(r) == r.tier # "none"
Writable(r) == r.tier \notin {"none", "lifetime"}

(***************************************************************************)
(* Reading the row: the tier an entitlement check works with               *)
(***************************************************************************)
\* A row in grace ends at the provider's date, any other one Grace later.
\* (PastExactEnd is the buffer forgotten.)
PastExactEnd(r, now) == now > r.end
PastEnd(r, now) == IF r.status = "in_grace_period"
                   THEN now > r.end
                   ELSE now > r.end + Grace

IsSubscriptionExpired(r, now) ==
    /\ r.tier \notin NonExpiringTiers
    /\ \/ r.status = "expired"
       \/ r.end # Null /\ PastEnd(r, now)

EffectiveTier(r, now) ==
    IF r.tier = "none" \/ IsSubscriptionExpired(r, now) THEN "free" ELSE r.tier

(***************************************************************************)
(* Webhook events.  A payload is reduced to the set of entitlement ids it  *)
(* names, the one period end it carries (expiration_at_ms, or              *)
(* grace_period_expiration_at_ms for a billing issue) and the time it was  *)
(* sent.                                                                   *)
(***************************************************************************)
ActiveTypes == {"INITIAL_PURCHASE", "RENEWAL", "UNCANCELLATION", "REFUND_REVERSED"}
ExpiringTypes == {"EXPIRATION", "SUBSCRIPTION_PAUSED"}
ReconcileAfterTypes == {"SUBSCRIBER_ALIAS", "TRANSFER"}
SkippedTypes == {"NON_RENEWING_PURCHASE", "TEST"}
KnownTypes == ActiveTypes \union ExpiringTypes \union ReconcileAfterTypes \union SkippedTypes
                \union {"CANCELLATION", "BILLING_ISSUE", "PRODUCT_CHANGE"}

\* resolveTier: the individual entitlement wins; Null when neither is named.
ResolveTier(ents) ==
    IF "individual" \in ents THEN "individual"
    ELSE IF "family" \in ents THEN "family" ELSE Null

AfterActive(r, e) ==
    IF ResolveTier(e.ents) = Null THEN r
    ELSE [tier |-> ResolveTier(e.ents), status |-> "active", end |-> e.end, unsub |-> Null]

AfterCancellation(r, now) == [r EXCEPT !.unsub = now]

AfterExpiration == [tier |-> "free", status |-> "expired", end |-> Null, unsub |-> Null]

AfterBillingIssue(r, e) == [r EXCEPT !.status = "in_grace_period", !.end = e.end]

AfterProductChange(r, e) ==
    IF ResolveTier(e.ents) = Null THEN r ELSE [r EXCEPT !.tier = ResolveTier(e.ents)]

\* dispatch: the row after event e is handled at time now, WHERE included.
AfterEvent(r, e, now) ==
    IF ~Writable(r) THEN r
    ELSE CASE e.type \in ActiveTypes    -> AfterActive(r, e)
           [] e.type = "CANCELLATION"   -> AfterCancellation(r, now)
           [] e.type \in ExpiringTypes  -> AfterExpiration
           [] e.type = "BILLING_ISSUE"  -> AfterBillingIssue(r, e)
           [] e.type = "PRODUCT_CHANGE" -> AfterProductChange(r, e)
           [] OTHER                     -> r

(***************************************************************************)
(* RevenueCat's REST view of a subscriber: the entitlements and their      *)
(* common expiry, the matching subscription block (absent for a            *)
(* promotional grant, else in good standing or with a billing issue) and   *)
(* that block's unsubscribe mark.                                          *)
(***************************************************************************)
View == [ents : SUBSET Paid, end : Stamp, sub : {"absent", "good", "billing"}, unsub : Stamp]

NoView == [ents |-> {}, end |-> Null, sub |-> "absent", unsub |-> Null]

RcActive(v, now) == v.ents # {} /\ (v.end # Null => v.end > now)

\* What RevenueCat grants the subscriber, in this system's tiers.
RcTier(v, now) == IF RcActive(v, now) THEN ResolveTier(v.ents) ELSE "free"

Desired == [tier : Paid \union {"free"}, status : {"active", "in_grace_period", "expired"},
            end : Stamp, unsub : Stamp \union {Keep}]

\* deriveDesiredState.  (DeriveKeepingLapsed leaves a lapsed subscriber's tier
\* to the expiration job.)
DeriveKeepingLapsed(v, now) ==
    [tier   |-> IF v.ents = {} THEN "free" ELSE ResolveTier(v.ents),
     status |-> IF v.sub = "billing" THEN "in_grace_period" ELSE "active",
     end    |-> v.end,
     unsub  |-> IF v.sub = "absent" THEN Keep ELSE v.unsub]

DeriveDesiredState(v, now) ==
    IF RcActive(v, now)
    THEN [tier   |-> ResolveTier(v.ents),
          status |-> IF v.sub = "billing" THEN "in_grace_period" ELSE "active",
          end    |-> v.end,
          unsub  |-> IF v.sub = "absent" THEN Keep ELSE v.unsub]
    ELSE [tier |-> "free", status |-> "expired", end |-> Null, unsub |-> Null]

AfterReconcile(r, want) ==
    IF ~Writable(r) THEN r
    ELSE [tier |-> want.tier, status |-> want.status, end |-> want.end,
          unsub |-> IF want.unsub = Keep THEN r.unsub ELSE want.unsub]
=============================================================================
