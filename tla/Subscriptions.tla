--------------------------- MODULE Subscriptions ---------------------------
(***************************************************************************)
(* The subscriptions table and everything that writes it concurrently:     *)
(*                                                                         *)
(*   - the RevenueCat webhook, which looks the event up in the dedupe log  *)
(*     in one transaction and applies it in a second one;                  *)
(*   - the reconcile against RevenueCat's REST view, run after alias and   *)
(*     transfer events and by POST /entitlements/sync;                     *)
(*   - the hourly expiration job, which selects in one transaction and     *)
(*     downgrades in another, and the daily prune of the dedupe log;       *)
(*   - the Clerk webhook, which creates and deletes users;                 *)
(*   - the operator, who grants lifetime memberships by hand.              *)
(*                                                                         *)
(* Transactions run at READ COMMITTED, PostgreSQL's default: an UPDATE     *)
(* sees the row as last committed when it gets the row's lock, so one      *)
(* action per statement whose result another statement relies on, and a    *)
(* transaction's writes appear with its last statement.                    *)
(***************************************************************************)
EXTENDS SubscriptionRow, FiniteSets

CONSTANTS
    Users,
    Requests,       \* handler invocations in flight at once
    EventIds,       \* 1..n, in the order RevenueCat sends them
    EventTypes,     \* the event types RevenueCat sends
    EntitlementSets,\* the sets of entitlement ids a payload may name
    NewUserTier,    \* GRANT_LIFETIME_TO_NEW_USERS: "lifetime", else "free"
    Period,         \* length of a billing period
    RetryWindow,    \* how long RevenueCat keeps retrying a delivery
    Retention,      \* PROCESSED_EVENTS_RETENTION_MS
    OptionalEnds,   \* TRUE when RevenueCat may send a payload without an end
    MaxClock        \* bound: the clock stops here

ASSUME UsersAssumption == Null \notin Users
ASSUME RequestsAssumption == IsFiniteSet(Requests)
ASSUME EventsAssumption == EventIds \subseteq Nat \ {0}
ASSUME EventTypesAssumption == EventTypes \subseteq KnownTypes
ASSUME EntitlementsAssumption == EntitlementSets \subseteq SUBSET Paid
ASSUME OptionalEndsAssumption == OptionalEnds \in BOOLEAN
ASSUME NewUserAssumption == NewUserTier \in NonExpiringTiers
ASSUME TimesAssumption ==
    /\ Period \in Nat /\ RetryWindow \in Nat /\ Retention \in Nat
    /\ MaxClock \in Nat
    \* "RC retries deliveries for ~2.5h; anything older than that is well past
    \* the dedupe window" (processed-events-prune.service.ts)
    /\ RetryWindow <= Retention

VARIABLES
    clock,
    row,        \* subscriptions, by user
    receivedAt, \* processed_revenuecat_events: when recorded, Null if absent
    req,        \* the handler invocations
    found,      \* the ids findExpiredSubscriptions returned, {} between runs
    \* RevenueCat
    rc,         \* its view of each subscriber
    event,      \* the events it has sent, Null if not yet
    \* Observation only: no action's guard reads these
    applied,    \* how many transactions have applied each event
    touched     \* users of found whose row was written since it was found

vars == <<clock, row, receivedAt, req, found, rc, event, applied, touched>>

externalVars == <<rc, event>>

(***************************************************************************)
(* Handler invocations                                                     *)
(*   checked    isEventProcessed said no                                   *)
(*   expiring   applyExpiration has selected a row that is not lifetime    *)
(*   reconcile  reconcileFromRc was called                                 *)
(*   derived    RevenueCat answered, the desired state is derived          *)
(*   writing    the reconcile's SELECT found no lifetime row               *)
(***************************************************************************)
Event == [type : KnownTypes, user : Users, ents : SUBSET Paid, end : Stamp, sentAt : Nat]

ASSUME NoEventAssumption == Null \notin Event

WebhookStages == {"checked", "expiring"}
SyncStages == {"reconcile", "derived", "writing"}

Idle == [stage |-> "idle", id |-> Null, user |-> Null, want |-> Null]

Request ==
    {Idle}
    \union [stage : WebhookStages, id : EventIds, user : Users, want : {Null}]
    \union [stage : {"reconcile"}, id : {Null}, user : Users, want : {Null}]
    \union [stage : {"derived", "writing"}, id : {Null}, user : Users, want : Desired]

TypeOK ==
    /\ clock \in Nat
    /\ row \in [Users -> Row]
    /\ receivedAt \in [EventIds -> Nat \union {Null}]
    /\ req \in [Requests -> Request]
    /\ found \subseteq Users
    /\ rc \in [Users -> View]
    /\ event \in [EventIds -> Event \union {Null}]
    /\ applied \in [EventIds -> Nat]
    /\ touched \subseteq Users

Init ==
    /\ clock = 0
    /\ row = [u \in Users |-> NoRow]
    /\ receivedAt = [i \in EventIds |-> Null]
    /\ req = [q \in Requests |-> Idle]
    /\ found = {}
    /\ rc = [u \in Users |-> NoView]
    /\ event = [i \in EventIds |-> Null]
    /\ applied = [i \in EventIds |-> 0]
    /\ touched = {}

(***************************************************************************)
(* RevenueCat (external): a subscriber's state changes, and an event that  *)
(* says so is queued.                                                      *)
(***************************************************************************)
\* What RevenueCat may tell of a subscriber, and its view from then on.
News == [type : KnownTypes, ents : SUBSET Paid, end : Stamp, view : View]

Tell(t, s, x, v) == [type |-> t, ents |-> s, end |-> x, view |-> v]

Mapped == {s \in EntitlementSets : ResolveTier(s) # Null}

Ends == {clock + Period} \union IF OptionalEnds THEN {Null} ELSE {}

\* A purchase of an entitlement this system knows; without a subscription
\* block when it is a promotional grant.
Purchases ==
    {Tell(t, s, x, [ents |-> s, end |-> x, sub |-> b, unsub |-> Null]) :
        t \in ActiveTypes, s \in Mapped, x \in Ends, b \in {"absent", "good"}}

\* A purchase or a product change to something the configuration does not map.
Unmapped(u) ==
    {Tell(t, s, Null, rc[u]) :
        t \in ActiveTypes \union {"PRODUCT_CHANGE"}, s \in EntitlementSets \ Mapped}

\* Changes to a running subscription.
ProductChanges(u) == {Tell("PRODUCT_CHANGE", s, Null, [rc[u] EXCEPT !.ents = s]) : s \in Mapped}

Cancellations(u) == {Tell("CANCELLATION", {}, Null, [rc[u] EXCEPT !.unsub = clock])}

BillingIssues(u) ==
    {Tell("BILLING_ISSUE", {}, x, [rc[u] EXCEPT !.sub = "billing", !.end = x]) : x \in Ends}

Expirations == {Tell(t, {}, Null, NoView) : t \in ExpiringTypes}

\* A transfer takes the subscription away or brings one; an alias may too.
Transfers ==
    {Tell(t, {}, Null, v) :
        t \in ReconcileAfterTypes,
        v \in {NoView} \union {[ents |-> s, end |-> clock + Period, sub |-> "good", unsub |-> Null] :
                                 s \in EntitlementSets \ {{}}}}

Others(u) == {Tell(t, {}, Null, rc[u]) : t \in SkippedTypes}

NewsOf(u) ==
    Purchases \union Unmapped(u) \union Transfers \union Others(u)
    \union (IF RcActive(rc[u], clock) THEN ProductChanges(u) ELSE {})
    \union (IF RcActive(rc[u], clock) /\ rc[u].sub # "absent"
            THEN Cancellations(u) \union BillingIssues(u) ELSE {})
    \union (IF rc[u].ents # {} THEN Expirations ELSE {})

Send(i, u) ==
    /\ event[i] = Null
    /\ \A j \in EventIds : j < i => event[j] # Null
    /\ \E n \in NewsOf(u) :
          /\ n.type \in EventTypes
          /\ event' = [event EXCEPT ![i] = [type |-> n.type, user |-> u, ents |-> n.ents,
                                            end |-> n.end, sentAt |-> clock]]
          /\ rc' = [rc EXCEPT ![u] = n.view]
    /\ UNCHANGED <<clock, row, receivedAt, req, found, applied, touched>>

(***************************************************************************)
(* The RevenueCat webhook                                                  *)
(***************************************************************************)

\* POST /webhooks/revenuecat up to isEventProcessed.  A recorded event is
\* answered at once; at-least-once delivery may run two handlers of one event.
Deliver(q, i) ==
    /\ req[q] = Idle
    /\ event[i] # Null
    /\ clock <= event[i].sentAt + RetryWindow
    /\ req' = IF receivedAt[i] # Null THEN req
              ELSE [req EXCEPT ![q] = [stage |-> "checked", id |-> i, user |-> event[i].user,
                                       want |-> Null]]
    /\ UNCHANGED <<clock, row, receivedAt, found, applied, touched, externalVars>>

Touch(u) == touched' = touched \union {v \in found \intersect {u} : row'[v] # row[v]}

\* The dedupe insert, ON CONFLICT DO NOTHING, in the transaction of the write.
Record(i) ==
    /\ receivedAt' = [receivedAt EXCEPT ![i] = IF @ = Null THEN clock ELSE @]
    /\ applied' = [applied EXCEPT ![i] = @ + 1]

\* processEvent for every type but an expiration: dispatch, record, commit.
\* An alias or a transfer goes on to the reconcile.
ProcessEvent(q) ==
    LET i == req[q].id
        u == req[q].user
        t == event[i].type
    IN  /\ req[q].stage = "checked"
        /\ t \notin ExpiringTypes
        /\ row' = [row EXCEPT ![u] = AfterEvent(@, event[i], clock)]
        /\ Record(i)
        /\ req' = [req EXCEPT ![q] = IF t \in ReconcileAfterTypes
                                     THEN [Idle EXCEPT !.stage = "reconcile", !.user = u]
                                     ELSE Idle]
        /\ Touch(u)
        /\ UNCHANGED <<clock, found, externalVars>>

\* applyExpiration's SELECT: a lifetime row ends it, and the event is recorded.
ExpirationSelect(q) ==
    LET i == req[q].id
    IN  /\ req[q].stage = "checked"
        /\ event[i].type \in ExpiringTypes
        /\ IF row[req[q].user].tier = "lifetime"
           THEN Record(i) /\ req' = [req EXCEPT ![q] = Idle]
           ELSE req' = [req EXCEPT ![q].stage = "expiring"] /\ UNCHANGED <<receivedAt, applied>>
        /\ UNCHANGED <<clock, row, found, touched, externalVars>>

\* applyExpiration's UPDATE ... WHERE notLifetime, the dedupe insert, commit.
ExpirationWrite(q) ==
    LET i == req[q].id
        u == req[q].user
    IN  /\ req[q].stage = "expiring"
        /\ row' = [row EXCEPT ![u] = AfterEvent(@, event[i], clock)]
        /\ Record(i)
        /\ req' = [req EXCEPT ![q] = Idle]
        /\ Touch(u)
        /\ UNCHANGED <<clock, found, externalVars>>

\* The transaction fails or the process dies: nothing of it is committed.
HandlerFails(q) ==
    /\ req[q].stage \in WebhookStages \union SyncStages
    /\ req' = [req EXCEPT ![q] = Idle]
    /\ UNCHANGED <<clock, row, receivedAt, found, applied, touched, externalVars>>

(***************************************************************************)
(* Reconcile                                                               *)
(***************************************************************************)

\* POST /entitlements/sync by the user.
Sync(q, u) ==
    /\ req[q] = Idle
    /\ row[u].tier # "none"
    /\ req' = [req EXCEPT ![q] = [Idle EXCEPT !.stage = "reconcile", !.user = u]]
    /\ UNCHANGED <<clock, row, receivedAt, found, applied, touched, externalVars>>

\* fetchSubscriber and deriveDesiredState, before any transaction.
Fetch(q) ==
    LET u == req[q].user
    IN  /\ req[q].stage = "reconcile"
        /\ req' = [req EXCEPT ![q] = [stage |-> "derived", id |-> Null, user |-> u,
                                      want |-> DeriveDesiredState(rc[u], clock)]]
        /\ UNCHANGED <<clock, row, receivedAt, found, applied, touched, externalVars>>

ReconcileSelect(q) ==
    /\ req[q].stage = "derived"
    /\ req' = IF row[req[q].user].tier = "lifetime"
              THEN [req EXCEPT ![q] = Idle]
              ELSE [req EXCEPT ![q].stage = "writing"]
    /\ UNCHANGED <<clock, row, receivedAt, found, applied, touched, externalVars>>

ReconcileWrite(q) ==
    LET u == req[q].user
    IN  /\ req[q].stage = "writing"
        /\ row' = [row EXCEPT ![u] = AfterReconcile(@, req[q].want)]
        /\ req' = [req EXCEPT ![q] = Idle]
        /\ Touch(u)
        /\ UNCHANGED <<clock, receivedAt, found, applied, externalVars>>

(***************************************************************************)
(* Scheduled jobs                                                          *)
(***************************************************************************)
\* findExpiredSubscriptions' WHERE clause.  (ExpiredIgnoringGrace is the grace
\* period forgotten.)
ExpiredIgnoringGrace(r) == r.tier \in Paid /\ r.end # Null /\ r.end < clock
Expired(r) ==
    /\ r.tier \in Paid
    /\ r.end # Null
    /\ r.end < clock - Grace

FindExpired ==
    /\ found = {}
    /\ found' = {u \in Users : Expired(row[u])}
    /\ found' # {}
    /\ touched' = {}
    /\ UNCHANGED <<clock, row, receivedAt, req, applied, externalVars>>

\* The downgrade of a job that leaves rows in a provider's grace period alone.
DowngradeSparingGrace ==
    /\ found # {}
    /\ row' = [u \in Users |-> IF u \in found /\ row[u].status # "in_grace_period"
                               THEN [row[u] EXCEPT !.tier = "free"] ELSE row[u]]
    /\ found' = {}
    /\ touched' = {}
    /\ UNCHANGED <<clock, receivedAt, req, applied, externalVars>>

\* UPDATE ... SET tier = 'free' WHERE id IN ids: the rows are not looked at again.
DowngradeExpired ==
    /\ found # {}
    /\ row' = [u \in Users |-> IF u \in found THEN [row[u] EXCEPT !.tier = "free"] ELSE row[u]]
    /\ found' = {}
    /\ touched' = {}
    /\ UNCHANGED <<clock, receivedAt, req, applied, externalVars>>

\* The job's second transaction fails; the error is logged, the next hour retries.
DowngradeFails ==
    /\ found # {}
    /\ found' = {}
    /\ touched' = {}
    /\ UNCHANGED <<clock, row, receivedAt, req, applied, externalVars>>

\* The prune with its comparison off by one.
PruneAtCutoff ==
    LET old == {i \in EventIds : receivedAt[i] # Null /\ receivedAt[i] <= clock - Retention}
    IN  /\ old # {}
        /\ receivedAt' = [i \in EventIds |-> IF i \in old THEN Null ELSE receivedAt[i]]
        /\ UNCHANGED <<clock, row, req, found, applied, touched, externalVars>>

\* pruneOldEvents: every record received before the retention cutoff goes.
PruneOldEvents ==
    LET old == {i \in EventIds : receivedAt[i] # Null /\ receivedAt[i] < clock - Retention}
    IN  /\ old # {}
        /\ receivedAt' = [i \in EventIds |-> IF i \in old THEN Null ELSE receivedAt[i]]
        /\ UNCHANGED <<clock, row, req, found, applied, touched, externalVars>>

(***************************************************************************)
(* Users, the operator and time                                            *)
(***************************************************************************)

\* upsertUser without the tier it computes (and no column default).
UpsertUserWithoutTier(u) ==
    /\ row[u].tier = "none"
    /\ row' = [row EXCEPT ![u] = FreshRow(Null)]
    /\ UNCHANGED <<clock, receivedAt, req, found, applied, touched, externalVars>>

\* upsertUser's subscription insert, ON CONFLICT DO NOTHING.
UpsertUser(u) ==
    /\ row[u].tier = "none"
    /\ row' = [row EXCEPT ![u] = FreshRow(NewUserTier)]
    /\ UNCHANGED <<clock, receivedAt, req, found, applied, touched, externalVars>>

\* deleteUser: the row goes by cascade.  A user who comes back gets a row with
\* a new id, so an id in found matches nothing any more.
DeleteUser(u) ==
    /\ row[u].tier # "none"
    /\ row' = [row EXCEPT ![u] = NoRow]
    /\ found' = found \ {u}
    /\ touched' = touched \ {u}
    /\ UNCHANGED <<clock, receivedAt, req, applied, externalVars>>

\* A lifetime membership is granted by hand in the database (external).
GrantLifetime(u) ==
    /\ Writable(row[u])
    /\ row' = [row EXCEPT ![u].tier = "lifetime"]
    /\ Touch(u)
    /\ UNCHANGED <<clock, receivedAt, req, found, applied, externalVars>>

Tick ==
    /\ clock < MaxClock
    /\ clock' = clock + 1
    /\ UNCHANGED <<row, receivedAt, req, found, applied, touched, externalVars>>

-----------------------------------------------------------------------------
Webhook(q) ==
    \/ \E i \in EventIds : Deliver(q, i)
    \/ ProcessEvent(q)
    \/ ExpirationSelect(q)
    \/ ExpirationWrite(q)

Reconcile(q) ==
    \/ \E u \in Users : Sync(q, u)
    \/ Fetch(q)
    \/ ReconcileSelect(q)
    \/ ReconcileWrite(q)

Jobs == FindExpired \/ DowngradeExpired \/ DowngradeFails \/ PruneOldEvents

Next ==
    \/ \E i \in EventIds, u \in Users : Send(i, u)
    \/ \E q \in Requests : Webhook(q) \/ Reconcile(q) \/ HandlerFails(q)
    \/ Jobs
    \/ \E u \in Users : UpsertUser(u) \/ DeleteUser(u) \/ GrantLifetime(u)
    \/ Tick

Spec == Init /\ [][Next]_vars

(***************************************************************************)
(* Safety                                                                  *)
(***************************************************************************)

\* A lifetime membership survives every webhook, every reconcile and every
\* job, also one that had read the row before the grant.  The single way to
\* lose it, short of deleting the user, is a grant that lands between the two
\* transactions of the expiration job.
LifetimeSafe ==
    [][\A u \in Users :
        row[u].tier = "lifetime" /\ row'[u] # row[u] =>
            \/ row'[u] = NoRow
            \/ u \in touched /\ row'[u] = [row[u] EXCEPT !.tier = "free"]]_vars

\* The job's query and the entitlement checks agree: nobody it selects still
\* has access, as long as the row is the one it selected.
FoundAreLapsed ==
    \A u \in found \ touched : EffectiveTier(row[u], clock) = "free"

\* However often RevenueCat delivers an event, and however the dedupe log is
\* pruned, it is applied at most once per handler that can run at one time:
\* a delivery that starts after the first commit is always recognised.  This is
\* weaker than the schema's "duplicate deliveries ... are no-ops": one that
\* starts before the first commit is applied again.
BoundedReapplication ==
    \A i \in EventIds :
        applied[i] + Cardinality({q \in Requests : req[q].id = i}) <= Cardinality(Requests)

\* A reconcile that writes what RevenueCat still says leaves the user with
\* exactly the tier RevenueCat grants, whatever webhooks or jobs did before.
SyncAligns ==
    [][\A q \in Requests :
        LET u == req[q].user IN
        /\ ReconcileWrite(q)
        /\ Writable(row[u])
        /\ req[q].want = DeriveDesiredState(rc[u], clock)
        => EffectiveTier(row'[u], clock) = RcTier(rc[u], clock)]_vars

\* What the expiration job's comment says of the rows it downgrades: one of a
\* paid tier is past its period and the grace.
DowngradesOnlyExpired ==
    [][DowngradeExpired => \A u \in found : row[u].tier \in Paid => Expired(row[u])]_vars

(***************************************************************************)
(* An orderly environment: RevenueCat's deliveries succeed in order, once  *)
(* each and within its retry window, users exist before they buy, a        *)
(* renewal follows a running subscription, no reconcile races a change at  *)
(* RevenueCat or is lost, and no write lands between the expiration job's  *)
(* transactions.                                                           *)
(***************************************************************************)
Waiting(u) == {i \in EventIds : event[i] # Null /\ applied[i] = 0 /\ event[i].user = u}

Orderly ==
    /\ \A i \in EventIds : event'[i] # event[i] =>
          LET e == event'[i] IN
          /\ row[e.user].tier # "none"
          /\ \A q \in Requests : ~(req[q].stage \in SyncStages /\ req[q].user = e.user)
          /\ e.type = "RENEWAL" => RcActive(rc[e.user], clock) /\ e.ents = rc[e.user].ents
    /\ \A q \in Requests : req'[q].id # Null =>
          applied'[req'[q].id] = 0 /\ \A i \in EventIds : i < req'[q].id => applied[i] > 0
    /\ \A q \in Requests : req[q].stage \in SyncStages => ~HandlerFails(q)
    /\ \A u \in Users : row[u].tier # "none" => row'[u].tier # "none"
    /\ touched' = {}
    /\ clock' # clock =>
          /\ \A u \in Users : \A i \in Waiting(u) : clock < event[i].sentAt + RetryWindow
          /\ \A q \in Requests : req[q].stage \notin SyncStages

JobFairness == WF_vars(FindExpired) /\ SF_vars(DowngradeExpired)

OrderlySpec == Init /\ [][Next /\ Orderly]_vars /\ JobFairness

\* RevenueCat retries a delivery for about 2.5 hours, and the buffer is 24 hours
\* long.  (The clock counts in units, and an end that is reached is not yet past.)
RetriesFitGrace == RetryWindow <= Grace + 1

\* In an orderly environment a subscriber RevenueCat grants access has it here:
\* the granted tier once every event is applied, and some access while a
\* renewal is still on its way, which is what the 24-hour buffer is for.  (A
\* row in grace has no buffer, and may lapse while the renewal is on its way.)
SubscriberKeepsAccess ==
    \A u \in Users :
        LET granted == RcActive(rc[u], clock) /\ Writable(row[u])
            here    == EffectiveTier(row[u], clock)
            reconciling == \E q \in Requests : req[q].stage \in SyncStages /\ req[q].user = u
        IN  /\ granted /\ Waiting(u) = {} /\ ~reconciling => here = RcTier(rc[u], clock)
            /\ granted /\ ~reconciling /\ (\A i \in Waiting(u) : event[i].type = "RENEWAL")
                 /\ row[u].status = "active" => here # "free"

\* A paid row past its end and its buffer is downgraded or renewed; it does
\* not stay paid for ever.
LapsedIsDowngraded == \A u \in Users : Expired(row[u]) ~> ~Expired(row[u])
=============================================================================
