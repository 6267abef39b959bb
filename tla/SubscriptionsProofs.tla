------------------------ MODULE SubscriptionsProofs ------------------------
(***************************************************************************)
(* Theorems about Subscriptions, for every set of users, handlers and      *)
(* events, every clock and every length of the periods.                    *)
(***************************************************************************)
EXTENDS Subscriptions, FiniteSetTheorems, WellFoundedInduction, TLAPS

(***************************************************************************)
(* Facts about one row                                                     *)
(***************************************************************************)

\* Applying any event to a row yields a row.
LEMMA AfterEventType ==
    ASSUME NEW r \in Row, NEW e \in Event, NEW now \in Nat
    PROVE  AfterEvent(r, e, now) \in Row
<1> USE DEF Row, Event, Stamp, Statuses, Tiers, Paid, NonExpiringTiers
<1>1. AfterActive(r, e) \in Row
  BY DEF AfterActive, ResolveTier
<1>2. AfterCancellation(r, now) \in Row
  BY DEF AfterCancellation
<1>3. AfterExpiration \in Row
  BY DEF AfterExpiration
<1>4. AfterBillingIssue(r, e) \in Row
  BY DEF AfterBillingIssue
<1>5. AfterProductChange(r, e) \in Row
  BY DEF AfterProductChange, ResolveTier
<1> HIDE DEF Row, Event, Stamp, Statuses, Tiers, Paid, NonExpiringTiers
<1>6. QED
  BY <1>1, <1>2, <1>3, <1>4, <1>5 DEF AfterEvent

\* What a reconcile derives from RevenueCat's view is a desired state.
LEMMA DerivedType ==
    ASSUME NEW v \in View, NEW now \in Nat
    PROVE  DeriveDesiredState(v, now) \in Desired
BY DEF View, Desired, DeriveDesiredState, RcActive, ResolveTier, Stamp, Paid

\* Writing a desired state yields a row.
LEMMA AfterReconcileType ==
    ASSUME NEW r \in Row, NEW want \in Desired
    PROVE  AfterReconcile(r, want) \in Row
BY DEF AfterReconcile, Row, Desired, Stamp, Statuses, Tiers, Paid, NonExpiringTiers

\* A lifetime row is left alone by every webhook and every reconcile.
LEMMA LifetimeUntouched ==
    ASSUME NEW r, r.tier = "lifetime"
    PROVE  /\ \A e, now : AfterEvent(r, e, now) = r
           /\ \A want : AfterReconcile(r, want) = r
BY DEF AfterEvent, AfterReconcile, Writable

\* A row the expiration job selects grants no access any more.
LEMMA ExpiredIsLapsed ==
    ASSUME NEW r \in Row, clock \in Nat, Expired(r)
    PROVE  EffectiveTier(r, clock) = "free"
<1>1. r.tier \in Paid /\ r.end \in Int /\ r.end < clock - Grace
  BY DEF Expired, Row, Stamp
<1>2. PastEnd(r, clock)
  BY <1>1, GraceAssumption DEF PastEnd
<1>3. IsSubscriptionExpired(r, clock)
  BY <1>1, <1>2, NullAssumption DEF IsSubscriptionExpired, Paid, NonExpiringTiers
<1>4. QED
  BY <1>3 DEF EffectiveTier

(***************************************************************************)
(* Type correctness                                                        *)
(***************************************************************************)

\* What a handler's record holds at each stage.
LEMMA RequestStages ==
    ASSUME NEW r \in Request
    PROVE  /\ r.stage \in WebhookStages =>
                 /\ r.id \in EventIds /\ r.user \in Users
                 /\ r = [stage |-> r.stage, id |-> r.id, user |-> r.user, want |-> Null]
           /\ r.stage = "reconcile" =>
                 /\ r.user \in Users
                 /\ r = [stage |-> "reconcile", id |-> Null, user |-> r.user, want |-> Null]
           /\ r.stage \in {"derived", "writing"} =>
                 /\ r.user \in Users /\ r.want \in Desired
                 /\ r = [stage |-> r.stage, id |-> Null, user |-> r.user, want |-> r.want]
<1>1. CASE r = Idle
  BY <1>1 DEF Idle, WebhookStages
<1>2. CASE r \in [stage : WebhookStages, id : EventIds, user : Users, want : {Null}]
  BY <1>2 DEF WebhookStages
<1>3. CASE r \in [stage : {"reconcile"}, id : {Null}, user : Users, want : {Null}]
  BY <1>3 DEF WebhookStages
<1>4. CASE r \in [stage : {"derived", "writing"}, id : {Null}, user : Users, want : Desired]
  BY <1>4 DEF WebhookStages
<1>5. QED
  BY <1>1, <1>2, <1>3, <1>4 DEF Request

\* The records a handler's steps put there.
LEMMA RequestShapes ==
    ASSUME NEW u \in Users
    PROVE  /\ Idle \in Request
           /\ [Idle EXCEPT !.stage = "reconcile", !.user = u] \in Request
           /\ \A s \in WebhookStages, i \in EventIds :
                  [stage |-> s, id |-> i, user |-> u, want |-> Null] \in Request
           /\ \A s \in {"derived", "writing"}, w \in Desired :
                  [stage |-> s, id |-> Null, user |-> u, want |-> w] \in Request
BY DEF Idle, Request, WebhookStages

\* A webhook handler works on an event that was sent.  TypeOK is inductive
\* together with this.
KnownEvents == \A q \in Requests : req[q].stage \in WebhookStages => event[req[q].id] \in Event

TypeInv == TypeOK /\ KnownEvents

\* Init establishes the types and every step keeps them.
LEMMA TypeInit == Init => TypeInv
BY DEF Init, TypeInv, KnownEvents, WebhookStages, TypeOK, NoRow, Row, Stamp, Statuses, NoView, View, Idle, Request

\* Whatever RevenueCat may tell has the shape of news.
LEMMA NewsType ==
    ASSUME TypeInv, NEW u \in Users
    PROVE  NewsOf(u) \subseteq News
<1> USE TimesAssumption, EntitlementsAssumption
<1>1. rc[u] \in View /\ clock \in Stamp /\ Ends \subseteq Stamp /\ Null \in Stamp
  BY DEF TypeInv, TypeOK, Ends, Stamp
<1>2. NoView \in View /\ {} \in SUBSET Paid
  BY DEF NoView, View, Stamp
<1>3. Mapped \subseteq SUBSET Paid /\ EntitlementSets \subseteq SUBSET Paid
  BY DEF Mapped
<1>4. ASSUME NEW t \in KnownTypes, NEW s \in SUBSET Paid, NEW x \in Stamp, NEW v \in View
      PROVE  Tell(t, s, x, v) \in News
  BY DEF Tell, News
<1>5. ActiveTypes \union ExpiringTypes \union ReconcileAfterTypes \union SkippedTypes
          \union {"CANCELLATION", "BILLING_ISSUE", "PRODUCT_CHANGE"} \subseteq KnownTypes
  BY DEF KnownTypes
<1>6. Purchases \subseteq News
  <2>1. ASSUME NEW s \in Mapped, NEW x \in Ends, NEW b \in {"absent", "good"}
        PROVE  [ents |-> s, end |-> x, sub |-> b, unsub |-> Null] \in View
    BY <1>1, <1>3 DEF View
  <2>2. SUFFICES ASSUME NEW n \in Purchases PROVE n \in News
    OBVIOUS
  <2>3. PICK t \in ActiveTypes, s \in Mapped, x \in Ends, b \in {"absent", "good"} :
          n = Tell(t, s, x, [ents |-> s, end |-> x, sub |-> b, unsub |-> Null])
    BY DEF Purchases
  <2>4. QED
    BY <1>1, <1>3, <1>4, <1>5, <2>1, <2>3
<1>7. Unmapped(u) \subseteq News
  BY <1>1, <1>3, <1>4, <1>5 DEF Unmapped
<1>8. ProductChanges(u) \subseteq News
  <2>1. \A s \in Mapped : [rc[u] EXCEPT !.ents = s] \in View
    BY <1>1, <1>3 DEF View
  <2>2. QED
    BY <1>1, <1>3, <1>4, <1>5, <2>1 DEF ProductChanges
<1>9. Cancellations(u) \subseteq News
  <2>1. [rc[u] EXCEPT !.unsub = clock] \in View
    BY <1>1 DEF View
  <2>2. QED
    BY <1>1, <1>2, <1>4, <1>5, <2>1 DEF Cancellations
<1>10. BillingIssues(u) \subseteq News
  <2>1. \A x \in Ends : [rc[u] EXCEPT !.sub = "billing", !.end = x] \in View
    BY <1>1 DEF View
  <2>2. SUFFICES ASSUME NEW n \in BillingIssues(u) PROVE n \in News
    OBVIOUS
  <2>3. PICK x \in Ends : n = Tell("BILLING_ISSUE", {}, x, [rc[u] EXCEPT !.sub = "billing", !.end = x])
    BY DEF BillingIssues
  <2>4. QED
    BY <1>1, <1>2, <1>4, <1>5, <2>1, <2>3
<1>11. Expirations \subseteq News
  BY <1>1, <1>2, <1>4, <1>5 DEF Expirations
<1>12. Transfers \subseteq News
  <2>1. \A s \in EntitlementSets :
            [ents |-> s, end |-> clock + Period, sub |-> "good", unsub |-> Null] \in View
    BY DEF TypeInv, TypeOK, View, Stamp
  <2>2. QED
    BY <1>1, <1>2, <1>4, <1>5, <2>1 DEF Transfers
<1>13. Others(u) \subseteq News
  BY <1>1, <1>2, <1>4, <1>5 DEF Others
<1>14. QED
  BY <1>6, <1>7, <1>8, <1>9, <1>10, <1>11, <1>12, <1>13 DEF NewsOf

LEMMA TypeSend ==
    ASSUME TypeInv, NEW i \in EventIds, NEW u \in Users, Send(i, u)
    PROVE  TypeInv'
<1>1. PICK n \in NewsOf(u) :
        /\ event' = [event EXCEPT ![i] = [type |-> n.type, user |-> u, ents |-> n.ents,
                                          end |-> n.end, sentAt |-> clock]]
        /\ rc' = [rc EXCEPT ![u] = n.view]
  BY DEF Send
<1>2. n \in News
  BY NewsType
<1>3. [type |-> n.type, user |-> u, ents |-> n.ents, end |-> n.end, sentAt |-> clock] \in Event
  BY <1>2 DEF News, Event, TypeInv, TypeOK
<1>4. event' \in [EventIds -> Event \union {Null}] /\ rc' \in [Users -> View]
  BY <1>1, <1>2, <1>3 DEF News, TypeInv, TypeOK
<1>5. TypeOK'
  BY <1>4 DEF Send, TypeInv, TypeOK
<1>6. KnownEvents'
  BY <1>1, <1>3 DEF Send, TypeInv, TypeOK, KnownEvents
<1>7. QED
  BY <1>5, <1>6 DEF TypeInv

LEMMA TypeHandler ==
    ASSUME TypeInv, NEW q \in Requests, Webhook(q) \/ Reconcile(q) \/ HandlerFails(q)
    PROVE  TypeInv'
<1> DEFINE u == req[q].user
           i == req[q].id
<1> USE DEF TypeInv, externalVars
<1>1. req[q] \in Request /\ clock \in Nat
  BY DEF TypeOK
<1>2. ASSUME NEW r \in Row, u \in Users
      PROVE  [row EXCEPT ![u] = r] \in [Users -> Row]
  BY <1>2 DEF TypeOK
<1>3. ASSUME i \in EventIds, Record(i)
      PROVE  receivedAt' \in [EventIds -> Nat \union {Null}] /\ applied' \in [EventIds -> Nat]
  BY <1>3 DEF Record, TypeOK
<1>4. ASSUME Touch(u)
      PROVE  touched' \subseteq Users
  BY <1>4 DEF Touch, TypeOK
\* The records and the events of the other handlers do not change.
<1>5. ASSUME NEW r \in Request, req' = [req EXCEPT ![q] = r], event' = event,
             r.stage \in WebhookStages => event[r.id] \in Event
      PROVE  req' \in [Requests -> Request] /\ KnownEvents'
  BY <1>5 DEF TypeOK, KnownEvents
<1>6. Idle.stage \notin WebhookStages
  BY DEF Idle, WebhookStages
<1>7. Idle \in Request
  BY DEF Request
<1>8. ASSUME NEW j \in EventIds, Deliver(q, j)
      PROVE  TypeInv'
  <2> DEFINE r == [stage |-> "checked", id |-> j, user |-> event[j].user, want |-> Null]
  <2>1. event[j] \in Event
    BY <1>8 DEF Deliver, TypeOK
  <2>2. r \in Request
    BY <2>1, RequestShapes DEF WebhookStages, Event
  <2>3. CASE req' = req
    BY <1>8, <2>3 DEF Deliver, TypeOK, KnownEvents
  <2>4. CASE req' = [req EXCEPT ![q] = r]
    <3>1. req' \in [Requests -> Request] /\ KnownEvents'
      BY <1>5, <1>8, <2>1, <2>2, <2>4 DEF Deliver
    <3>2. QED
      BY <1>8, <3>1 DEF Deliver, TypeOK
  <2>5. QED
    BY <1>8, <2>3, <2>4 DEF Deliver
\* The two transactions that apply an event.
<1>9. ASSUME req[q].stage \in WebhookStages
      PROVE  /\ i \in EventIds /\ u \in Users /\ event[i] \in Event
             /\ AfterEvent(row[u], event[i], clock) \in Row
  <2>1. i \in EventIds /\ u \in Users /\ event[i] \in Event
    BY <1>1, <1>9, RequestStages DEF KnownEvents
  <2>2. row[u] \in Row
    BY <2>1 DEF TypeOK
  <2>3. QED
    BY <1>1, <2>1, <2>2, AfterEventType
<1>10. CASE ProcessEvent(q)
  <2>1. req[q].stage \in WebhookStages
    BY <1>10 DEF ProcessEvent, WebhookStages
  <2>2. PICK r \in {Idle, [Idle EXCEPT !.stage = "reconcile", !.user = u]} : req' = [req EXCEPT ![q] = r]
    BY <1>10 DEF ProcessEvent
  <2>3. r \in Request /\ r.stage \notin WebhookStages
    <3>1. u \in Users
      BY <1>9, <2>1
    <3>2. [Idle EXCEPT !.stage = "reconcile", !.user = u] \in Request
      BY <3>1, RequestShapes
    <3>3. [Idle EXCEPT !.stage = "reconcile", !.user = u].stage \notin WebhookStages
      BY DEF Idle, WebhookStages
    <3>4. QED
      BY <1>6, <1>7, <2>2, <3>2, <3>3
  <2>4. req' \in [Requests -> Request] /\ KnownEvents'
    BY <1>5, <1>10, <2>2, <2>3 DEF ProcessEvent
  <2>5. row' \in [Users -> Row]
    BY <1>2, <1>9, <1>10, <2>1 DEF ProcessEvent
  <2>6. QED
    BY <1>3, <1>4, <1>9, <1>10, <2>1, <2>4, <2>5 DEF ProcessEvent, TypeOK
<1>11. CASE ExpirationSelect(q)
  <2>1. req[q].stage = "checked"
    BY <1>11 DEF ExpirationSelect
  <2>2. CASE Record(i) /\ req' = [req EXCEPT ![q] = Idle]
    <3>1. req' \in [Requests -> Request] /\ KnownEvents'
      BY <1>5, <1>6, <1>7, <1>11, <2>2 DEF ExpirationSelect
    <3>2. QED
      BY <1>3, <1>9, <1>11, <2>1, <2>2, <3>1 DEF ExpirationSelect, TypeOK, WebhookStages
  <2>3. CASE req' = [req EXCEPT ![q].stage = "expiring"] /\ UNCHANGED <<receivedAt, applied>>
    <3> DEFINE r == [stage |-> "expiring", id |-> i, user |-> u, want |-> Null]
    <3>1. req[q] = [stage |-> "checked", id |-> i, user |-> u, want |-> Null]
      BY <1>1, <2>1, RequestStages DEF WebhookStages
    <3>2. [req[q] EXCEPT !.stage = "expiring"] = r
      BY <3>1
    <3>3. req' = [req EXCEPT ![q] = r]
      BY <2>3, <3>2 DEF TypeOK
    <3>4. r \in Request /\ event[r.id] \in Event
      BY <1>9, <2>1, RequestShapes DEF WebhookStages
    <3>5. req' \in [Requests -> Request] /\ KnownEvents'
      BY <1>5, <1>11, <3>3, <3>4 DEF ExpirationSelect
    <3>6. QED
      BY <1>11, <2>3, <3>5 DEF ExpirationSelect, TypeOK
  <2>4. QED
    BY <1>11, <2>2, <2>3 DEF ExpirationSelect
<1>12. CASE ExpirationWrite(q)
  <2>1. req[q].stage \in WebhookStages
    BY <1>12 DEF ExpirationWrite, WebhookStages
  <2>2. req' \in [Requests -> Request] /\ KnownEvents'
    BY <1>5, <1>6, <1>7, <1>12 DEF ExpirationWrite
  <2>3. row' \in [Users -> Row]
    BY <1>2, <1>9, <1>12, <2>1 DEF ExpirationWrite
  <2>4. QED
    BY <1>3, <1>4, <1>9, <1>12, <2>1, <2>2, <2>3 DEF ExpirationWrite, TypeOK
<1>13. CASE HandlerFails(q)
  <2>1. req' \in [Requests -> Request] /\ KnownEvents'
    BY <1>5, <1>6, <1>7, <1>13 DEF HandlerFails
  <2>2. QED
    BY <1>13, <2>1 DEF HandlerFails, TypeOK
\* Reconcile.
<1>14. ASSUME NEW v \in Users, Sync(q, v)
       PROVE  TypeInv'
  <2> DEFINE r == [Idle EXCEPT !.stage = "reconcile", !.user = v]
  <2>1. r \in Request /\ r.stage \notin WebhookStages
    BY RequestShapes DEF Idle, WebhookStages
  <2>2. req' \in [Requests -> Request] /\ KnownEvents'
    BY <1>5, <1>14, <2>1 DEF Sync
  <2>3. QED
    BY <1>14, <2>2 DEF Sync, TypeOK
<1>15. CASE Fetch(q)
  <2> DEFINE w == DeriveDesiredState(rc[u], clock)
             r == [stage |-> "derived", id |-> Null, user |-> u, want |-> w]
  <2>1. u \in Users /\ req[q] = [stage |-> "reconcile", id |-> Null, user |-> u, want |-> Null]
    BY <1>1, <1>15, RequestStages DEF Fetch
  <2>2. w \in Desired
    BY <1>1, <2>1, DerivedType DEF TypeOK
  <2>3. req' = [req EXCEPT ![q] = r]
    BY <1>15 DEF Fetch
  <2>4. r \in Request /\ r.stage \notin WebhookStages
    BY <2>1, <2>2, RequestShapes DEF WebhookStages
  <2>5. req' \in [Requests -> Request] /\ KnownEvents'
    BY <1>5, <1>15, <2>3, <2>4 DEF Fetch
  <2>6. QED
    BY <1>15, <2>5 DEF Fetch, TypeOK
<1>16. CASE ReconcileSelect(q)
  <2> DEFINE r == [stage |-> "writing", id |-> Null, user |-> u, want |-> req[q].want]
  <2>1. /\ u \in Users /\ req[q].want \in Desired
        /\ req[q] = [stage |-> "derived", id |-> Null, user |-> u, want |-> req[q].want]
    BY <1>1, <1>16, RequestStages DEF ReconcileSelect
  <2>2. [req[q] EXCEPT !.stage = "writing"] = r
    BY <2>1
  <2>3. req' = [req EXCEPT ![q] = Idle] \/ req' = [req EXCEPT ![q] = r]
    BY <1>16, <2>2 DEF ReconcileSelect, TypeOK
  <2>4. r \in Request /\ r.stage \notin WebhookStages
    BY <2>1, RequestShapes DEF WebhookStages
  <2>5. req' \in [Requests -> Request] /\ KnownEvents'
    BY <1>5, <1>6, <1>7, <1>16, <2>3, <2>4 DEF ReconcileSelect
  <2>6. QED
    BY <1>16, <2>5 DEF ReconcileSelect, TypeOK
<1>17. CASE ReconcileWrite(q)
  <2>1. u \in Users /\ req[q].want \in Desired /\ row[u] \in Row
    BY <1>1, <1>17, RequestStages DEF ReconcileWrite, TypeOK
  <2>2. row' \in [Users -> Row]
    BY <1>2, <1>17, <2>1, AfterReconcileType DEF ReconcileWrite
  <2>3. req' \in [Requests -> Request] /\ KnownEvents'
    BY <1>5, <1>6, <1>7, <1>17 DEF ReconcileWrite
  <2>4. QED
    BY <1>4, <1>17, <2>2, <2>3 DEF ReconcileWrite, TypeOK
<1>18. QED
  BY <1>8, <1>10, <1>11, <1>12, <1>13, <1>14, <1>15, <1>16, <1>17 DEF Webhook, Reconcile

LEMMA TypeRest ==
    ASSUME TypeInv, Jobs \/ Tick \/ \E u \in Users : UpsertUser(u) \/ DeleteUser(u) \/ GrantLifetime(u)
    PROVE  TypeInv'
<1> USE DEF TypeInv, TypeOK, KnownEvents, externalVars
<1>1. CASE FindExpired
  BY <1>1 DEF FindExpired
<1>2. CASE DowngradeExpired
  <2>1. \A u \in Users : [row[u] EXCEPT !.tier = "free"] \in Row
    BY DEF Row, Tiers, NonExpiringTiers
  <2>2. QED
    BY <1>2, <2>1 DEF DowngradeExpired
<1>3. CASE DowngradeFails
  BY <1>3 DEF DowngradeFails
<1>4. CASE PruneOldEvents
  BY <1>4 DEF PruneOldEvents
<1>5. CASE Tick
  BY <1>5 DEF Tick
<1>6. ASSUME NEW u \in Users, UpsertUser(u)
      PROVE  TypeInv'
  <2>1. FreshRow(NewUserTier) \in Row
    BY NewUserAssumption DEF FreshRow, Row, Tiers, Statuses, Stamp
  <2>2. QED
    BY <1>6, <2>1 DEF UpsertUser
<1>7. ASSUME NEW u \in Users, DeleteUser(u)
      PROVE  TypeInv'
  <2>1. NoRow \in Row
    BY DEF NoRow, Row, Tiers, Statuses, Stamp
  <2>2. QED
    BY <1>7, <2>1 DEF DeleteUser
<1>8. ASSUME NEW u \in Users, GrantLifetime(u)
      PROVE  TypeInv'
  <2>1. [row[u] EXCEPT !.tier = "lifetime"] \in Row
    BY DEF Row, Tiers, NonExpiringTiers
  <2>2. QED
    BY <1>8, <2>1 DEF GrantLifetime, Touch
<1>9. QED
  BY <1>1, <1>2, <1>3, <1>4, <1>5, <1>6, <1>7, <1>8 DEF Jobs

LEMMA TypeStep == TypeInv /\ [Next]_vars => TypeInv'
<1> SUFFICES ASSUME TypeInv, [Next]_vars PROVE TypeInv'
  OBVIOUS
<1>1. CASE \E i \in EventIds, u \in Users : Send(i, u)
  BY <1>1, TypeSend
<1>2. CASE \E q \in Requests : Webhook(q) \/ Reconcile(q) \/ HandlerFails(q)
  BY <1>2, TypeHandler
<1>3. CASE Jobs \/ Tick \/ \E u \in Users : UpsertUser(u) \/ DeleteUser(u) \/ GrantLifetime(u)
  BY <1>3, TypeRest
<1>4. CASE UNCHANGED vars
  BY <1>4 DEF vars, TypeInv, TypeOK, KnownEvents
<1>5. QED
  BY <1>1, <1>2, <1>3, <1>4 DEF Next

\* The rows, the log, the handlers and RevenueCat's events keep their shapes
\* in every behaviour.
THEOREM TypeCorrect == Spec => []TypeOK
<1>1. TypeInv => TypeOK
  BY DEF TypeInv
<1>2. QED
  BY <1>1, TypeInit, TypeStep, PTL DEF Spec

(***************************************************************************)
(* The expiration job and the lifetime membership                          *)
(***************************************************************************)

\* An id the job has selected still names an expired row, unless the row was
\* written since.  This is what makes FoundAreLapsed and LifetimeSafe hold.
StillExpired == \A u \in found \ touched : Expired(row[u])

\* What RevenueCat does touches none of the tables.
LEMMA SendFrame ==
    ASSUME NEW i, NEW u, Send(i, u)
    PROVE  UNCHANGED <<clock, row, receivedAt, req, found, applied, touched>>
BY DEF Send

\* Writing one row keeps StillExpired as long as the write is noted.
LEMMA NotedWrite ==
    ASSUME TypeOK, StillExpired, NEW u \in Users, NEW r, row' = [row EXCEPT ![u] = r], Touch(u),
           UNCHANGED <<clock, found>>
    PROVE  StillExpired'
<1>1. SUFFICES ASSUME NEW v \in found \ touched' PROVE Expired(row[v])'
  BY DEF StillExpired, Expired
<1>2. v \in found \ touched /\ row'[v] = row[v]
  BY <1>1 DEF Touch, TypeOK
<1>3. QED
  BY <1>2 DEF StillExpired, Expired

\* Every step keeps StillExpired.
LEMMA StillExpiredStep ==
    ASSUME TypeInv, StillExpired, [Next]_vars
    PROVE  StillExpired'
<1> USE DEF externalVars
<1>1. CASE UNCHANGED <<row, clock, found, touched>>
  BY <1>1 DEF StillExpired, Expired
<1>2. CASE \E i \in EventIds, u \in Users : Send(i, u)
  BY <1>1, <1>2, SendFrame
<1>3. ASSUME NEW q \in Requests, Webhook(q) \/ Reconcile(q) \/ HandlerFails(q)
      PROVE  StillExpired'
  <2>1. req[q] \in Request
    BY DEF TypeInv, TypeOK
  <2>2. CASE ProcessEvent(q)
    <3>1. req[q].user \in Users
      BY <2>1, <2>2, RequestStages DEF ProcessEvent, WebhookStages
    <3>2. QED
      BY <2>2, <3>1, NotedWrite DEF ProcessEvent, TypeInv
  <2>3. CASE ExpirationWrite(q)
    <3>1. req[q].user \in Users
      BY <2>1, <2>3, RequestStages DEF ExpirationWrite, WebhookStages
    <3>2. QED
      BY <2>3, <3>1, NotedWrite DEF ExpirationWrite, TypeInv
  <2>4. CASE ReconcileWrite(q)
    <3>1. req[q].user \in Users
      BY <2>1, <2>4, RequestStages DEF ReconcileWrite
    <3>2. QED
      BY <2>4, <3>1, NotedWrite DEF ReconcileWrite, TypeInv
  <2>5. CASE \/ \E i \in EventIds : Deliver(q, i)
             \/ ExpirationSelect(q)
             \/ \E u \in Users : Sync(q, u)
             \/ Fetch(q)
             \/ ReconcileSelect(q)
             \/ HandlerFails(q)
    BY <1>1, <2>5 DEF Deliver, ExpirationSelect, Sync, Fetch, ReconcileSelect, HandlerFails
  <2>6. QED
    BY <1>3, <2>2, <2>3, <2>4, <2>5 DEF Webhook, Reconcile
<1>4. CASE FindExpired
  BY <1>4 DEF FindExpired, StillExpired, Expired
<1>5. CASE DowngradeExpired \/ DowngradeFails
  BY <1>5 DEF DowngradeExpired, DowngradeFails, StillExpired
<1>6. CASE PruneOldEvents
  BY <1>1, <1>6 DEF PruneOldEvents
<1>7. ASSUME NEW u \in Users, UpsertUser(u)
      PROVE  StillExpired'
  <2>1. u \notin found \ touched
    BY <1>7 DEF UpsertUser, StillExpired, Expired, Paid
  <2>2. QED
    BY <1>7, <2>1 DEF UpsertUser, StillExpired, Expired, TypeInv, TypeOK
<1>8. ASSUME NEW u \in Users, DeleteUser(u)
      PROVE  StillExpired'
  BY <1>8 DEF DeleteUser, StillExpired, Expired, TypeInv, TypeOK
<1>9. ASSUME NEW u \in Users, GrantLifetime(u)
      PROVE  StillExpired'
  <2>1. row' = [row EXCEPT ![u] = [row[u] EXCEPT !.tier = "lifetime"]]
    BY <1>9 DEF GrantLifetime, TypeInv, TypeOK
  <2>2. QED
    BY <1>9, <2>1, NotedWrite DEF GrantLifetime, TypeInv
<1>10. CASE Tick
  <2>1. SUFFICES ASSUME NEW u \in found \ touched PROVE Expired(row[u])'
    BY <1>10 DEF Tick, StillExpired
  <2>2. Expired(row[u]) /\ row[u] \in Row /\ clock \in Nat
    BY <2>1 DEF StillExpired, TypeInv, TypeOK
  <2>3. row[u].end \in Int
    BY <2>2 DEF Row, Stamp, Expired
  <2>4. QED
    BY <1>10, <2>2, <2>3, GraceAssumption DEF Tick, Expired
<1>11. CASE UNCHANGED vars
  BY <1>1, <1>11 DEF vars
<1>12. QED
  BY <1>2, <1>3, <1>4, <1>5, <1>6, <1>7, <1>8, <1>9, <1>10, <1>11 DEF Next, Jobs

LEMMA StillExpiredInit == Init => StillExpired
BY DEF Init, StillExpired

\* Nobody the expiration job has selected has access, as long as the row is
\* the one it selected: its query never finds more than the entitlement
\* checks already refuse.
THEOREM FoundNeverHaveAccess == Spec => []FoundAreLapsed
<1>1. TypeInv /\ StillExpired => FoundAreLapsed
  BY ExpiredIsLapsed DEF FoundAreLapsed, StillExpired, TypeInv, TypeOK
<1>2. TypeInv /\ StillExpired /\ [Next]_vars => StillExpired'
  BY StillExpiredStep
<1>3. QED
  BY <1>1, <1>2, TypeInit, TypeStep, StillExpiredInit, PTL DEF Spec

\* What one step may do to a lifetime row.
LifetimeKept(u) ==
    row[u].tier = "lifetime" /\ row'[u] # row[u] =>
        \/ row'[u] = NoRow
        \/ u \in touched /\ row'[u] = [row[u] EXCEPT !.tier = "free"]

LEMMA LifetimeStep ==
    ASSUME TypeInv, StillExpired, [Next]_vars, NEW u \in Users
    PROVE  LifetimeKept(u)
<1> USE DEF externalVars
<1>1. CASE UNCHANGED row
  BY <1>1 DEF LifetimeKept
\* Only one row is written, and to what a lifetime row is mapped to itself by.
<1>2. ASSUME NEW v \in Users, NEW r, row' = [row EXCEPT ![v] = r],
             row[v].tier = "lifetime" => r = row[v]
      PROVE  LifetimeKept(u)
  BY <1>2 DEF LifetimeKept, TypeInv, TypeOK
<1>3. CASE \E i \in EventIds, v \in Users : Send(i, v)
  BY <1>1, <1>3, SendFrame
<1>4. ASSUME NEW q \in Requests, Webhook(q) \/ Reconcile(q) \/ HandlerFails(q)
      PROVE  LifetimeKept(u)
  <2> DEFINE v == req[q].user
  <2>1. req[q] \in Request
    BY DEF TypeInv, TypeOK
  <2>2. CASE ProcessEvent(q) \/ ExpirationWrite(q)
    <3>1. v \in Users
      BY <2>1, <2>2, RequestStages DEF ProcessEvent, ExpirationWrite, WebhookStages
    <3>2. row' = [row EXCEPT ![v] = AfterEvent(row[v], event[req[q].id], clock)]
      BY <2>2 DEF ProcessEvent, ExpirationWrite
    <3>3. row[v].tier = "lifetime" => AfterEvent(row[v], event[req[q].id], clock) = row[v]
      BY LifetimeUntouched
    <3>4. QED
      BY <1>2, <3>1, <3>2, <3>3
  <2>3. CASE ReconcileWrite(q)
    <3>1. v \in Users
      BY <2>1, <2>3, RequestStages DEF ReconcileWrite
    <3>2. row' = [row EXCEPT ![v] = AfterReconcile(row[v], req[q].want)]
      BY <2>3 DEF ReconcileWrite
    <3>3. row[v].tier = "lifetime" => AfterReconcile(row[v], req[q].want) = row[v]
      BY LifetimeUntouched
    <3>4. QED
      BY <1>2, <3>1, <3>2, <3>3
  <2>4. CASE \/ \E i \in EventIds : Deliver(q, i)
             \/ ExpirationSelect(q)
             \/ \E w \in Users : Sync(q, w)
             \/ Fetch(q)
             \/ ReconcileSelect(q)
             \/ HandlerFails(q)
    BY <1>1, <2>4 DEF Deliver, ExpirationSelect, Sync, Fetch, ReconcileSelect, HandlerFails
  <2>5. QED
    BY <1>4, <2>2, <2>3, <2>4 DEF Webhook, Reconcile
<1>5. CASE FindExpired \/ DowngradeFails \/ PruneOldEvents \/ Tick
  BY <1>1, <1>5 DEF FindExpired, DowngradeFails, PruneOldEvents, Tick
\* The job writes a lifetime row only when it became one after the select.
<1>6. CASE DowngradeExpired
  <2>1. SUFFICES ASSUME row[u].tier = "lifetime", row'[u] # row[u]
                 PROVE  u \in touched /\ row'[u] = [row[u] EXCEPT !.tier = "free"]
    BY DEF LifetimeKept
  <2>2. u \in found /\ row'[u] = [row[u] EXCEPT !.tier = "free"]
    BY <1>6, <2>1 DEF DowngradeExpired
  <2>3. u \in touched
    BY <2>1, <2>2 DEF StillExpired, Expired, Paid
  <2>4. QED
    BY <2>2, <2>3
<1>7. ASSUME NEW v \in Users, UpsertUser(v)
      PROVE  LifetimeKept(u)
  BY <1>2, <1>7 DEF UpsertUser
<1>8. ASSUME NEW v \in Users, DeleteUser(v)
      PROVE  LifetimeKept(u)
  BY <1>8 DEF DeleteUser, LifetimeKept, TypeInv, TypeOK
<1>9. ASSUME NEW v \in Users, GrantLifetime(v)
      PROVE  LifetimeKept(u)
  <2>1. row' = [row EXCEPT ![v] = [row[v] EXCEPT !.tier = "lifetime"]]
    BY <1>9 DEF GrantLifetime, TypeInv, TypeOK
  <2>2. row[v].tier # "lifetime"
    BY <1>9 DEF GrantLifetime, Writable
  <2>3. QED
    BY <1>2, <2>1, <2>2
<1>10. CASE UNCHANGED vars
  BY <1>1, <1>10 DEF vars
<1>11. QED
  BY <1>3, <1>4, <1>5, <1>6, <1>7, <1>8, <1>9, <1>10 DEF Next, Jobs

\* No webhook, no reconcile and no retry ever takes a lifetime membership
\* away; the expiration job does so only when the grant lands between its two
\* transactions.
THEOREM LifetimeNeverLost == Spec => LifetimeSafe
<1>1. TypeInv /\ StillExpired /\ [Next]_vars => \A u \in Users : LifetimeKept(u)
  BY LifetimeStep
<1>2. TypeInv /\ StillExpired /\ [Next]_vars => StillExpired'
  BY StillExpiredStep
<1>3. (\A u \in Users : LifetimeKept(u)) =>
         \A u \in Users :
            row[u].tier = "lifetime" /\ row'[u] # row[u] =>
                \/ row'[u] = NoRow
                \/ u \in touched /\ row'[u] = [row[u] EXCEPT !.tier = "free"]
  BY DEF LifetimeKept
<1>4. QED
  BY <1>1, <1>2, <1>3, TypeInit, TypeStep, StillExpiredInit, PTL DEF Spec, LifetimeSafe

(***************************************************************************)
(* The dedupe log                                                          *)
(***************************************************************************)
HandlersOf(i) == {q \in Requests : req[q].id = i}

\* An event that was applied is in the log, or too old to be delivered again;
\* and the handlers at work on it are those that could still apply it.
DedupeOf(i) ==
    /\ event[i] # Null => event[i].sentAt <= clock
    /\ HandlersOf(i) # {} => event[i] # Null
    /\ receivedAt[i] # Null => event[i] # Null /\ event[i].sentAt <= receivedAt[i]
    /\ applied[i] > 0 =>
         event[i] # Null /\ (receivedAt[i] # Null \/ clock > event[i].sentAt + RetryWindow)
    /\ applied[i] + Cardinality(HandlersOf(i)) <= Cardinality(Requests)

DedupeInv == \A i \in EventIds : DedupeOf(i)

\* The numbers in DedupeOf are numbers.
LEMMA DedupeTypes ==
    ASSUME TypeInv, NEW i \in EventIds
    PROVE  /\ clock \in Nat /\ applied[i] \in Nat /\ receivedAt[i] \in Nat \union {Null}
           /\ event[i] # Null => event[i].sentAt \in Nat
           /\ Null \notin Int /\ Null \notin EventIds
           /\ Cardinality(Requests) \in Nat
           /\ IsFiniteSet(HandlersOf(i)) /\ Cardinality(HandlersOf(i)) \in Nat
           /\ Cardinality(HandlersOf(i)) <= Cardinality(Requests)
<1>1. HandlersOf(i) \in SUBSET Requests
  BY DEF HandlersOf
<1>2. event[i] # Null => event[i] \in Event
  BY DEF TypeInv, TypeOK
<1>3. event[i] # Null => event[i].sentAt \in Nat
  BY <1>2 DEF Event
<1>4. clock \in Nat /\ applied[i] \in Nat /\ receivedAt[i] \in Nat \union {Null}
  BY DEF TypeInv, TypeOK
<1>5. Null \notin Int /\ Null \notin EventIds
  <2>1. Null \notin Int
    BY NullAssumption
  <2>2. \A j \in EventIds : j \in Int
    BY EventsAssumption
  <2>3. QED  BY <2>1, <2>2
<1>6. QED
  BY <1>1, <1>3, <1>4, <1>5, RequestsAssumption, FS_Subset, FS_CardinalityType

\* A set of handlers that only shrinks.
LEMMA FewerHandlers ==
    ASSUME TypeInv, NEW i \in EventIds, HandlersOf(i)' \subseteq HandlersOf(i)
    PROVE  /\ Cardinality(HandlersOf(i)') \in Nat
           /\ Cardinality(HandlersOf(i)') <= Cardinality(HandlersOf(i))
  BY DedupeTypes, FS_Subset, FS_CardinalityType

\* Steps that neither deliver, nor record, nor prune, nor send.
LEMMA DedupeFrame ==
    ASSUME TypeInv, TypeInv', NEW i \in EventIds, DedupeOf(i),
           receivedAt'[i] = receivedAt[i], applied'[i] = applied[i], event'[i] = event[i],
           clock' >= clock, HandlersOf(i)' \subseteq HandlersOf(i)
    PROVE  DedupeOf(i)'
<1>1. /\ Cardinality(HandlersOf(i)') \in Nat
      /\ Cardinality(HandlersOf(i)') <= Cardinality(HandlersOf(i))
  BY FewerHandlers
<1>2. /\ clock \in Nat /\ clock' \in Nat /\ applied[i] \in Nat
      /\ event[i] # Null => event[i].sentAt \in Nat
      /\ Cardinality(Requests) \in Nat /\ Cardinality(HandlersOf(i)) \in Nat
      /\ RetryWindow \in Nat
  BY DedupeTypes, TimesAssumption DEF TypeInv, TypeOK
<1>3. HandlersOf(i)' # {} => HandlersOf(i) # {}
  OBVIOUS
<1>4. QED
  BY <1>1, <1>2, <1>3 DEF DedupeOf

\* A request that ends, or goes on without an event, handles none.
LEMMA HandlerLeaves ==
    ASSUME TypeInv, NEW q \in Requests, NEW i \in EventIds,
           \A p \in Requests \ {q} : req'[p] = req[p], req'[q].id \in {req[q].id, Null}
    PROVE  HandlersOf(i)' \subseteq HandlersOf(i)
  BY DedupeTypes DEF HandlersOf

LEMMA DedupeDeliver ==
    ASSUME TypeInv, TypeInv', NEW q \in Requests, NEW j \in EventIds, Deliver(q, j),
           NEW i \in EventIds, DedupeOf(i)
    PROVE  DedupeOf(i)'
<1>1. UNCHANGED <<clock, receivedAt, applied, event>>
  BY DEF Deliver, externalVars
<1>2. /\ clock \in Nat /\ Null \notin EventIds
      /\ req[q].id = Null
  BY DedupeTypes DEF Deliver, Idle
<1>3. CASE receivedAt[j] # Null \/ i # j
  <2>1. \A p \in Requests : req'[p].id = i => req[p].id = i
    BY <1>2, <1>3 DEF Deliver, TypeInv, TypeOK
  <2>2. HandlersOf(i)' \subseteq HandlersOf(i)
    BY <2>1 DEF HandlersOf
  <2>3. QED
    BY <1>1, <1>2, <2>2, DedupeFrame
<1>4. CASE receivedAt[j] = Null /\ i = j
  <2>1. event[i] # Null /\ clock <= event[i].sentAt + RetryWindow
    BY <1>4 DEF Deliver
  <2>2. event[i].sentAt \in Nat /\ RetryWindow \in Nat
    BY <2>1, DedupeTypes, TimesAssumption
  <2>3. ~(applied[i] > 0)
    BY <1>2, <1>4, <2>1, <2>2 DEF DedupeOf
  <2>4. applied[i] = 0
    BY <2>3, DedupeTypes
  <2>5. HandlersOf(i)' \in SUBSET Requests
    BY DEF HandlersOf
  <2>6. /\ Cardinality(HandlersOf(i)') \in Nat /\ Cardinality(Requests) \in Nat
        /\ Cardinality(HandlersOf(i)') <= Cardinality(Requests)
    BY <2>5, RequestsAssumption, FS_Subset, FS_CardinalityType
  <2>7. QED
    BY <1>1, <2>1, <2>4, <2>6 DEF DedupeOf
<1>5. QED
  BY <1>3, <1>4

\* The handler that applies an event leaves, and the event is recorded.
LEMMA DedupeRecord ==
    ASSUME TypeInv, TypeInv', NEW q \in Requests, req[q].stage \in WebhookStages,
           Record(req[q].id), UNCHANGED <<clock, event>>,
           \A p \in Requests \ {q} : req'[p] = req[p], req'[q].id = Null,
           NEW i \in EventIds, DedupeOf(i)
    PROVE  DedupeOf(i)'
<1> DEFINE j == req[q].id
<1>1. j \in EventIds
  BY RequestStages DEF TypeInv, TypeOK
<1>2. CASE i # j
  <2>1. receivedAt'[i] = receivedAt[i] /\ applied'[i] = applied[i]
    BY <1>1, <1>2 DEF Record, TypeInv, TypeOK
  <2>2. HandlersOf(i)' \subseteq HandlersOf(i)
    BY HandlerLeaves
  <2>3. clock \in Nat
    BY DedupeTypes
  <2>4. QED
    BY <2>1, <2>2, <2>3, DedupeFrame
<1>3. CASE i = j
  <2>1. /\ receivedAt'[i] = (IF receivedAt[i] = Null THEN clock ELSE receivedAt[i])
        /\ applied'[i] = applied[i] + 1
    BY <1>1, <1>3 DEF Record, TypeInv, TypeOK
  <2>2. HandlersOf(i)' = HandlersOf(i) \ {q} /\ q \in HandlersOf(i)
    BY <1>1, <1>3, DedupeTypes DEF HandlersOf
  <2>3. Cardinality(HandlersOf(i)') = Cardinality(HandlersOf(i)) - 1
    BY <2>2, DedupeTypes, FS_RemoveElement
  <2>4. event[i] # Null
    BY <2>2 DEF DedupeOf
  <2>5. /\ clock \in Nat /\ Null \notin Int /\ applied[i] \in Nat
        /\ Cardinality(HandlersOf(i)) \in Nat /\ Cardinality(Requests) \in Nat
        /\ event[i].sentAt \in Nat
    BY <2>4, DedupeTypes
  <2>6. QED
    BY <2>1, <2>3, <2>4, <2>5 DEF DedupeOf
<1>4. QED
  BY <1>2, <1>3


LEMMA DedupeSend ==
    ASSUME TypeInv, TypeInv', NEW j \in EventIds, NEW u \in Users, Send(j, u),
           NEW i \in EventIds, DedupeOf(i)
    PROVE  DedupeOf(i)'
<1>1. UNCHANGED <<clock, receivedAt, applied, req>>
  BY SendFrame
<1>2. HandlersOf(i)' = HandlersOf(i)
  BY <1>1 DEF HandlersOf
<1>3. clock \in Nat /\ applied[i] \in Nat
  BY DedupeTypes
<1>4. CASE i # j
  <2>1. event'[i] = event[i]
    BY <1>4 DEF Send, TypeInv, TypeOK
  <2>2. QED
    BY <1>1, <1>2, <1>3, <2>1, DedupeFrame
<1>5. CASE i = j
  <2>1. event[i] = Null /\ event'[i].sentAt = clock
    BY <1>5 DEF Send, TypeInv, TypeOK
  <2>2. receivedAt[i] = Null /\ applied[i] = 0 /\ HandlersOf(i) = {}
    BY <1>3, <2>1 DEF DedupeOf
  <2>3. QED
    BY <1>1, <1>2, <1>3, <2>1, <2>2 DEF DedupeOf
<1>6. QED
  BY <1>4, <1>5

\* What the prune forgets is too old to be delivered again.
LEMMA DedupePrune ==
    ASSUME TypeInv, TypeInv', PruneOldEvents, NEW i \in EventIds, DedupeOf(i)
    PROVE  DedupeOf(i)'
<1>1. UNCHANGED <<clock, event, applied, req>>
  BY DEF PruneOldEvents, externalVars
<1>2. HandlersOf(i)' = HandlersOf(i)
  BY <1>1 DEF HandlersOf
<1>3. /\ clock \in Nat /\ applied[i] \in Nat /\ receivedAt[i] \in Nat \union {Null}
      /\ event[i] # Null => event[i].sentAt \in Nat
  BY DedupeTypes
<1>4. CASE receivedAt'[i] = receivedAt[i]
  BY <1>1, <1>2, <1>3, <1>4, DedupeFrame
<1>5. CASE receivedAt[i] # Null /\ receivedAt[i] < clock - Retention /\ receivedAt'[i] = Null
  <2>1. event[i] # Null /\ event[i].sentAt <= receivedAt[i]
    BY <1>5 DEF DedupeOf
  <2>2. clock > event[i].sentAt + RetryWindow
    BY <1>3, <1>5, <2>1, TimesAssumption
  <2>3. QED
    BY <1>1, <1>2, <1>5, <2>1, <2>2 DEF DedupeOf
<1>6. QED
  BY <1>4, <1>5 DEF PruneOldEvents

LEMMA DedupeHandler ==
    ASSUME TypeInv, TypeInv', NEW q \in Requests, Webhook(q) \/ Reconcile(q) \/ HandlerFails(q),
           NEW i \in EventIds, DedupeOf(i)
    PROVE  DedupeOf(i)'
<1> USE DEF externalVars
<1>1. req \in [Requests -> Request] /\ clock \in Nat /\ Idle.id = Null /\ "checked" \in WebhookStages
      /\ "expiring" \in WebhookStages
  BY DedupeTypes DEF TypeInv, TypeOK, Idle, WebhookStages
<1>2. CASE \E j \in EventIds : Deliver(q, j)
  BY <1>2, DedupeDeliver
<1>3. CASE ProcessEvent(q)
  <2>1. req'[q].id = Null /\ \A p \in Requests \ {q} : req'[p] = req[p]
    BY <1>1, <1>3 DEF ProcessEvent, Idle
  <2>2. QED
    BY <1>1, <1>3, <2>1, DedupeRecord DEF ProcessEvent
<1>4. CASE ExpirationSelect(q)
  <2>1. CASE row[req[q].user].tier = "lifetime"
    <3>1. req'[q].id = Null /\ \A p \in Requests \ {q} : req'[p] = req[p]
      BY <1>1, <1>4, <2>1 DEF ExpirationSelect
    <3>2. QED
      BY <1>1, <1>4, <2>1, <3>1, DedupeRecord DEF ExpirationSelect
  <2>2. CASE row[req[q].user].tier # "lifetime"
    <3>1. req' = [req EXCEPT ![q] = [req[q] EXCEPT !.stage = "expiring"]]
      BY <1>4, <2>2 DEF ExpirationSelect
    <3>2. [req[q] EXCEPT !.stage = "expiring"].id = req[q].id
      <4>1. req[q] = [stage |-> req[q].stage, id |-> req[q].id, user |-> req[q].user, want |-> Null]
        BY <1>1, <1>4, RequestStages DEF ExpirationSelect
      <4>2. QED  BY <4>1
    <3>3. HandlersOf(i)' \subseteq HandlersOf(i)
      BY <1>1, <3>1, <3>2, HandlerLeaves
    <3>4. QED
      BY <1>1, <1>4, <2>2, <3>3, DedupeFrame DEF ExpirationSelect
  <2>3. QED  BY <2>1, <2>2
<1>5. CASE ExpirationWrite(q)
  <2>1. req'[q].id = Null /\ \A p \in Requests \ {q} : req'[p] = req[p]
    BY <1>1, <1>5 DEF ExpirationWrite
  <2>2. QED
    BY <1>1, <1>5, <2>1, DedupeRecord DEF ExpirationWrite
<1>6. CASE HandlerFails(q) \/ Reconcile(q)
  <2>1. \A p \in Requests \ {q} : req'[p] = req[p]
    BY <1>1, <1>6 DEF HandlerFails, Reconcile, Sync, Fetch, ReconcileSelect, ReconcileWrite
  <2>2. req'[q].id \in {req[q].id, Null}
    <3>1. CASE ReconcileSelect(q) /\ row[req[q].user].tier # "lifetime"
      <4>1. req[q] = [stage |-> req[q].stage, id |-> Null, user |-> req[q].user, want |-> req[q].want]
        BY <1>1, <3>1, RequestStages DEF ReconcileSelect
      <4>2. req'[q] = [req[q] EXCEPT !.stage = "writing"]
        BY <1>1, <3>1 DEF ReconcileSelect
      <4>3. QED  BY <4>1, <4>2
    <3>2. CASE ReconcileSelect(q) /\ row[req[q].user].tier = "lifetime"
      BY <1>1, <3>2 DEF ReconcileSelect
    <3>3. CASE \E u \in Users : Sync(q, u)
      BY <1>1, <3>3 DEF Sync, Idle
    <3>4. CASE Fetch(q) \/ ReconcileWrite(q) \/ HandlerFails(q)
      BY <1>1, <3>4 DEF Fetch, ReconcileWrite, HandlerFails
    <3>5. QED
      BY <1>6, <3>1, <3>2, <3>3, <3>4 DEF Reconcile
  <2>3. HandlersOf(i)' \subseteq HandlersOf(i)
    BY <2>1, <2>2, HandlerLeaves
  <2>4. UNCHANGED <<clock, receivedAt, applied, event>>
    BY <1>6 DEF HandlerFails, Reconcile, Sync, Fetch, ReconcileSelect, ReconcileWrite
  <2>5. QED
    BY <1>1, <2>3, <2>4, DedupeFrame
<1>7. QED
  BY <1>2, <1>3, <1>4, <1>5, <1>6 DEF Webhook

LEMMA DedupeStep ==
    ASSUME TypeInv, DedupeInv, [Next]_vars
    PROVE  DedupeInv'
<1> SUFFICES ASSUME NEW i \in EventIds PROVE DedupeOf(i)'
  BY DEF DedupeInv
<1>1. DedupeOf(i) /\ TypeInv'
  BY TypeStep DEF DedupeInv
<1>2. CASE \E j \in EventIds, u \in Users : Send(j, u)
  BY <1>1, <1>2, DedupeSend
<1>3. CASE \E q \in Requests : Webhook(q) \/ Reconcile(q) \/ HandlerFails(q)
  BY <1>1, <1>3, DedupeHandler
<1>4. CASE PruneOldEvents
  BY <1>1, <1>4, DedupePrune
<1>5. CASE \/ FindExpired \/ DowngradeExpired \/ DowngradeFails
           \/ \E u \in Users : UpsertUser(u) \/ DeleteUser(u) \/ GrantLifetime(u)
           \/ Tick \/ UNCHANGED vars
  <2>1. UNCHANGED <<receivedAt, applied, event, req>> /\ (clock' = clock \/ clock' = clock + 1)
    BY <1>5 DEF FindExpired, DowngradeExpired, DowngradeFails, UpsertUser, DeleteUser,
                GrantLifetime, Tick, vars, externalVars
  <2>2. HandlersOf(i)' \subseteq HandlersOf(i)
    BY <2>1 DEF HandlersOf
  <2>3. clock \in Nat
    BY DedupeTypes
  <2>4. QED
    BY <1>1, <2>1, <2>2, <2>3, DedupeFrame
<1>6. QED
  BY <1>2, <1>3, <1>4, <1>5 DEF Next, Jobs

LEMMA DedupeInit == Init => DedupeInv
<1> SUFFICES ASSUME Init, NEW i \in EventIds PROVE DedupeOf(i)
  BY DEF DedupeInv
<1>1. TypeInv
  BY TypeInit
<1>2. HandlersOf(i) = {}
  BY <1>1, DedupeTypes DEF Init, HandlersOf, Idle
<1>3. Cardinality(HandlersOf(i)) = 0
  BY <1>2, FS_EmptySet
<1>4. QED
  BY <1>1, <1>2, <1>3, DedupeTypes DEF Init, DedupeOf

\* No event is applied more often than there are handlers at a time, however
\* often it is delivered and whatever the prune forgets.
THEOREM AppliedOncePerHandler == Spec => []BoundedReapplication
<1>1. TypeInv /\ DedupeInv => BoundedReapplication
  BY DEF DedupeInv, DedupeOf, HandlersOf, BoundedReapplication
<1>2. TypeInv /\ DedupeInv /\ [Next]_vars => DedupeInv'
  BY DedupeStep
<1>3. QED
  BY <1>1, <1>2, TypeInit, TypeStep, DedupeInit, PTL DEF Spec

(***************************************************************************)
(* The reconcile                                                           *)
(***************************************************************************)

\* The entitlements of a view name a tier.
LEMMA MappedTier ==
    ASSUME NEW s \in SUBSET Paid, s # {}
    PROVE  ResolveTier(s) \in Paid
BY DEF ResolveTier, Paid

\* The row a reconcile leaves when it writes what RevenueCat says.
LEMMA ReconcileFacts ==
    ASSUME NEW r, Writable(r), NEW v \in View, NEW now \in Nat
    PROVE  LET w == AfterReconcile(r, DeriveDesiredState(v, now)) IN
           /\ RcActive(v, now) =>
                /\ w.tier = ResolveTier(v.ents) /\ w.tier \in Paid
                /\ w.status \in {"active", "in_grace_period"} /\ w.end = v.end
           /\ ~RcActive(v, now) => w.tier = "free" /\ w.status = "expired" /\ w.end = Null
<1>1. CASE RcActive(v, now)
  <2>1. v.ents \in SUBSET Paid /\ v.ents # {}
    BY <1>1 DEF View, RcActive
  <2>2. ResolveTier(v.ents) \in Paid
    BY <2>1, MappedTier
  <2>3. QED
    BY <1>1, <2>2 DEF DeriveDesiredState, AfterReconcile
<1>2. CASE ~RcActive(v, now)
  BY <1>2 DEF DeriveDesiredState, AfterReconcile
<1>3. QED
  BY <1>1, <1>2

\* A row that carries the tier and the end of a running subscription gives the
\* tier RevenueCat grants.
LEMMA RunningRow ==
    ASSUME NEW r, NEW v \in View, NEW now \in Nat, RcActive(v, now),
           r.tier = ResolveTier(v.ents), r.status \in {"active", "in_grace_period"}, r.end = v.end
    PROVE  EffectiveTier(r, now) = RcTier(v, now)
<1>1. r.tier \in Paid
  BY MappedTier DEF View, RcActive
<1>2. ~IsSubscriptionExpired(r, now)
  <2>1. r.end # Null => r.end \in Int /\ r.end > now
    BY DEF View, Stamp, RcActive
  <2>2. r.status # "expired"
    OBVIOUS
  <2>3. QED
    BY <2>1, <2>2, GraceAssumption DEF IsSubscriptionExpired, PastEnd
<1>3. QED
  BY <1>1, <1>2 DEF EffectiveTier, RcTier, Paid

LEMMA SyncStep ==
    ASSUME TypeInv, NEW q \in Requests, ReconcileWrite(q), Writable(row[req[q].user]),
           req[q].want = DeriveDesiredState(rc[req[q].user], clock)
    PROVE  EffectiveTier(row'[req[q].user], clock) = RcTier(rc[req[q].user], clock)
<1> DEFINE u == req[q].user
           r == AfterReconcile(row[u], DeriveDesiredState(rc[u], clock))
<1>1. u \in Users
  BY RequestStages DEF ReconcileWrite, TypeInv, TypeOK
<1>2. rc[u] \in View /\ clock \in Nat
  BY <1>1 DEF TypeInv, TypeOK
<1>3. row'[u] = r
  BY <1>1 DEF ReconcileWrite, TypeInv, TypeOK
<1>4. CASE RcActive(rc[u], clock)
  <2>1. /\ r.tier = ResolveTier(rc[u].ents)
        /\ r.status \in {"active", "in_grace_period"} /\ r.end = rc[u].end
    BY <1>2, <1>4, ReconcileFacts
  <2>2. QED
    BY <1>2, <1>3, <1>4, <2>1, RunningRow
<1>5. CASE ~RcActive(rc[u], clock)
  <2>1. r.tier = "free"
    BY <1>2, <1>5, ReconcileFacts
  <2>2. QED
    BY <1>3, <1>5, <2>1 DEF EffectiveTier, RcTier
<1>6. QED
  BY <1>4, <1>5

\* A reconcile that writes what RevenueCat still says brings the user to the
\* tier RevenueCat grants, whatever the row held before.
THEOREM SyncsAlign == Spec => SyncAligns
<1> DEFINE Aligned ==
      \A q \in Requests :
        LET u == req[q].user IN
        /\ ReconcileWrite(q)
        /\ Writable(row[u])
        /\ req[q].want = DeriveDesiredState(rc[u], clock)
        => EffectiveTier(row'[u], clock) = RcTier(rc[u], clock)
<1>1. TypeInv /\ [Next]_vars => Aligned
  BY SyncStep
<1>2. QED
  BY <1>1, TypeInit, TypeStep, PTL DEF Spec, SyncAligns

(***************************************************************************)
(* A subscriber in an orderly environment keeps access.  The events that   *)
(* wait carry the difference between what RevenueCat says of a user and    *)
(* what the row says: the last one that sets the tier brings RevenueCat's  *)
(* tier, the last one that sets the end brings its end, and what no        *)
(* waiting event sets is in the row already.                               *)
(***************************************************************************)
SetsTier(e) ==
    \/ e.type \in ActiveTypes \union {"PRODUCT_CHANGE"} /\ ResolveTier(e.ents) # Null
    \/ e.type \in ExpiringTypes \union ReconcileAfterTypes

SetsEnd(e) ==
    \/ e.type \in ActiveTypes /\ ResolveTier(e.ents) # Null
    \/ e.type \in {"BILLING_ISSUE"} \union ExpiringTypes \union ReconcileAfterTypes

\* Events of a subscription that runs when they are sent.
RunningTypes == {"RENEWAL", "BILLING_ISSUE"}

Reconciling(u) == \E q \in Requests : req[q].stage \in SyncStages /\ req[q].user = u
Steady(u) == row[u].tier # "lifetime" /\ ~Reconciling(u)
Active(u) == RcActive(rc[u], clock)

\* What the expiration job leaves behind: a free row past its end and buffer.
Dropped(r) == r.tier = "free" /\ r.end # Null /\ r.end < clock - Grace

BringsTier(e, v) ==
    \/ e.type \in ReconcileAfterTypes
    \/ e.type \in ActiveTypes \union {"PRODUCT_CHANGE"} /\ e.ents = v.ents

BringsEnd(e, v) ==
    \/ e.type \in ReconcileAfterTypes
    \/ e.type \in ActiveTypes \union {"BILLING_ISSUE"} /\ e.end = v.end

\* The queue leads to what RevenueCat says.  A renewal and a billing issue are
\* sent while the subscription runs: the end set before one lies after it.
SentFollows(u) ==
    /\ \A i \in Waiting(u) :
         Active(u) /\ SetsTier(event[i]) /\ (\A j \in Waiting(u) : i < j => ~SetsTier(event[j]))
         => BringsTier(event[i], rc[u])
    /\ \A i \in Waiting(u) :
         Active(u) /\ SetsEnd(event[i]) /\ (\A j \in Waiting(u) : i < j => ~SetsEnd(event[j]))
         => BringsEnd(event[i], rc[u])
    /\ \A i, k \in Waiting(u) :
         /\ i < k /\ event[k].type \in RunningTypes /\ SetsEnd(event[i])
         /\ \A j \in Waiting(u) : i < j /\ j < k => ~SetsEnd(event[j])
         => \/ event[i].type \in ReconcileAfterTypes
            \/ /\ event[i].type \in ActiveTypes \union {"BILLING_ISSUE"}
               /\ event[i].end = Null \/ event[i].end > event[k].sentAt

\* The row holds what no waiting event sets.
TierFollows(u) ==
    Steady(u) /\ Active(u) /\ (\A i \in Waiting(u) : ~SetsTier(event[i]))
    => row[u].tier = ResolveTier(rc[u].ents) \/ Dropped(row[u])

EndFollows(u) ==
    Steady(u) /\ Active(u) /\ (\A i \in Waiting(u) : ~SetsEnd(event[i]))
    => row[u].status \in {"active", "in_grace_period"} /\ row[u].end = rc[u].end

EndSpans(u) ==
    \A k \in Waiting(u) :
        /\ Steady(u) /\ event[k].type \in RunningTypes
        /\ \A j \in Waiting(u) : j < k => ~SetsEnd(event[j])
        => row[u].end = Null \/ row[u].end > event[k].sentAt

\* A free row that calls itself active was downgraded by the job.
FreeIsDropped(u) == row[u].tier = "free" /\ row[u].status = "active" => Dropped(row[u])

RowFollows(u) == TierFollows(u) /\ EndFollows(u) /\ EndSpans(u) /\ FreeIsDropped(u)

\* Events are sent and handled in order, once, and within the retry window; who
\* has no row has no subscription; a reconcile under way is up to date.
SentInOrder == \A i, j \in EventIds : j < i /\ event[i] # Null => event[j] # Null

HandledInOrder ==
    \A q \in Requests : req[q].id # Null =>
        /\ applied[req[q].id] = 0 /\ \A i \in EventIds : i < req[q].id => applied[i] > 0
        /\ event[req[q].id].user = req[q].user

ExpiringHandled ==
    \A q \in Requests : req[q].stage = "expiring" => event[req[q].id].type \in ExpiringTypes

UsersThere ==
    \A u \in Users : row[u].tier = "none" =>
        rc[u] = NoView /\ ~Reconciling(u) /\ \A i \in EventIds : event[i] # Null => event[i].user # u

InTime == \A u \in Users : \A i \in Waiting(u) : clock <= event[i].sentAt + RetryWindow

UpToDate ==
    \A q \in Requests : req[q].stage \in {"derived", "writing"} =>
        req[q].want = DeriveDesiredState(rc[req[q].user], clock)

Kept == TypeInv /\ StillExpired /\ DedupeInv

OrderInv ==
    /\ SentInOrder /\ HandledInOrder /\ ExpiringHandled
    /\ UsersThere /\ InTime /\ UpToDate
    /\ touched = {}

FollowInv == \A u \in Users : SentFollows(u) /\ RowFollows(u)

\* A set of event numbers has a least one.
LEMMA LeastEvent ==
    ASSUME NEW S \in SUBSET Nat, S # {}
    PROVE  \E m \in S : \A n \in S : m <= n
<1>1. PICK m \in S : \A n \in S : ~(<<n, m>> \in OpToRel(<, Nat))
  BY NatLessThanWellFounded, WFMin
<1>2. \A n \in S : ~(n < m)
  BY <1>1 DEF OpToRel
<1>3. QED
  BY <1>2

\* What a change at RevenueCat leaves as it was, and what its event tells.
LEMMA NewsFacts ==
    ASSUME TypeInv, NEW u \in Users, NEW n \in NewsOf(u)
    PROVE  /\ ~SetsTier(n) => n.view.ents = rc[u].ents
           /\ ~SetsEnd(n) => n.view.end = rc[u].end
           /\ (~SetsTier(n) \/ ~SetsEnd(n)) /\ RcActive(n.view, clock) => Active(u)
           /\ SetsTier(n) /\ RcActive(n.view, clock) => BringsTier(n, n.view)
           /\ SetsEnd(n) /\ RcActive(n.view, clock) => BringsEnd(n, n.view)
           /\ n.type = "BILLING_ISSUE" => Active(u)
<1> USE DEF SetsTier, SetsEnd, BringsTier, BringsEnd, Active, Tell
<1>1. rc[u] \in View /\ clock \in Nat
  BY DEF TypeInv, TypeOK
<1>2. CASE n \in Purchases
  BY <1>2 DEF Purchases, Mapped, ActiveTypes
<1>3. CASE n \in Unmapped(u)
  BY <1>3 DEF Unmapped, Mapped, ActiveTypes, ExpiringTypes, ReconcileAfterTypes
<1>4. CASE n \in Transfers
  BY <1>4 DEF Transfers, ReconcileAfterTypes
<1>5. CASE n \in Others(u)
  BY <1>5 DEF Others, SkippedTypes, ActiveTypes, ExpiringTypes, ReconcileAfterTypes
<1>6. CASE RcActive(rc[u], clock) /\ n \in ProductChanges(u)
  BY <1>1, <1>6 DEF ProductChanges, Mapped, View, ActiveTypes, ExpiringTypes, ReconcileAfterTypes
<1>7. CASE RcActive(rc[u], clock) /\ n \in Cancellations(u)
  BY <1>1, <1>7 DEF Cancellations, View, ActiveTypes, ExpiringTypes, ReconcileAfterTypes
<1>8. CASE RcActive(rc[u], clock) /\ n \in BillingIssues(u)
  <2>1. PICK x \in Ends : n = Tell("BILLING_ISSUE", {}, x, [rc[u] EXCEPT !.sub = "billing", !.end = x])
    BY <1>8 DEF BillingIssues
  <2>2. n.view.ents = rc[u].ents /\ n.view.end = x /\ n.end = x /\ n.type = "BILLING_ISSUE"
    BY <1>1, <2>1 DEF View
  <2>3. QED
    BY <1>8, <2>2 DEF ActiveTypes, ExpiringTypes, ReconcileAfterTypes
<1>9. CASE n \in Expirations
  BY <1>9 DEF Expirations, ExpiringTypes, NoView, RcActive
<1>10. QED
  BY <1>2, <1>3, <1>4, <1>5, <1>6, <1>7, <1>8, <1>9 DEF NewsOf

\* Facts about the events that wait for a user.
LEMMA WaitingFacts ==
    ASSUME Kept, NEW u \in Users
    PROVE  /\ Waiting(u) \subseteq EventIds /\ Waiting(u) \subseteq Nat
           /\ \A i \in Waiting(u) : event[i] \in Event /\ event[i].sentAt \in Nat /\ event[i].sentAt <= clock
           /\ clock \in Nat /\ row[u] \in Row /\ rc[u] \in View
<1>1. Waiting(u) \subseteq EventIds
  BY DEF Waiting
<1>2. ASSUME NEW i \in Waiting(u)
      PROVE  event[i] \in Event /\ event[i].sentAt \in Nat /\ event[i].sentAt <= clock
  <2>1. event[i] # Null /\ i \in EventIds
    BY DEF Waiting
  <2>2. event[i] \in Event
    BY <2>1 DEF Kept, TypeInv, TypeOK
  <2>3. event[i].sentAt <= clock
    BY <2>1 DEF Kept, DedupeInv, DedupeOf
  <2>4. QED
    BY <2>2, <2>3 DEF Event
<1>3. QED
  BY <1>1, <1>2, EventsAssumption DEF Kept, TypeInv, TypeOK

\* A user nothing waits for has what RevenueCat grants.
LEMMA ServedWhenQuiet ==
    ASSUME Kept, FollowInv, NEW u \in Users, Active(u), Writable(row[u]), ~Reconciling(u),
           Waiting(u) = {}
    PROVE  EffectiveTier(row[u], clock) = RcTier(rc[u], clock)
<1>1. Steady(u)
  BY DEF Steady, Writable
<1>2. row[u].status \in {"active", "in_grace_period"} /\ row[u].end = rc[u].end
  BY <1>1 DEF FollowInv, RowFollows, EndFollows
<1>3. clock \in Nat /\ rc[u] \in View
  BY WaitingFacts
<1>4. ~Dropped(row[u])
  <2>1. rc[u].end # Null => rc[u].end \in Int /\ rc[u].end > clock
    BY <1>3 DEF View, Stamp, Active, RcActive
  <2>2. QED
    BY <1>2, <1>3, <2>1, GraceAssumption DEF Dropped
<1>5. row[u].tier = ResolveTier(rc[u].ents)
  BY <1>1, <1>4 DEF FollowInv, RowFollows, TierFollows
<1>6. QED
  BY <1>2, <1>3, <1>5, RunningRow DEF Active

\* A user only renewals wait for has access.
LEMMA ServedWhileRenewing ==
    ASSUME RetriesFitGrace, Kept, OrderInv, FollowInv, NEW u \in Users,
           Active(u), Writable(row[u]), ~Reconciling(u),
           \A i \in Waiting(u) : event[i].type = "RENEWAL", row[u].status = "active"
    PROVE  EffectiveTier(row[u], clock) # "free"
<1>1. CASE Waiting(u) = {}
  <2>1. EffectiveTier(row[u], clock) = RcTier(rc[u], clock)
    BY <1>1, ServedWhenQuiet
  <2>2. rc[u].ents \in SUBSET Paid /\ rc[u].ents # {}
    BY WaitingFacts DEF View, Active, RcActive
  <2>3. RcTier(rc[u], clock) \in Paid
    BY <2>2, MappedTier DEF RcTier, Active
  <2>4. QED
    BY <2>1, <2>3 DEF Paid
<1>2. CASE Waiting(u) # {}
  <2>1. PICK m \in Waiting(u) : \A i \in Waiting(u) : m <= i
    BY <1>2, WaitingFacts, LeastEvent
  <2>2. \A j \in Waiting(u) : ~(j < m)
    BY <2>1, WaitingFacts
  <2>3. Steady(u) /\ event[m].type \in RunningTypes
    BY DEF Steady, Writable, RunningTypes
  <2>4. row[u].end = Null \/ row[u].end > event[m].sentAt
    BY <2>2, <2>3 DEF FollowInv, RowFollows, EndSpans
  <2>5. /\ clock <= event[m].sentAt + RetryWindow
        /\ event[m].sentAt \in Nat /\ clock \in Nat /\ row[u].end \in Int \union {Null}
    BY WaitingFacts DEF OrderInv, InTime, Row, Stamp
  <2>6. row[u].end = Null \/ ~(row[u].end < clock - Grace)
    BY <2>4, <2>5, GraceAssumption, TimesAssumption, NullAssumption DEF RetriesFitGrace
  <2>7. ~IsSubscriptionExpired(row[u], clock)
    BY <2>5, <2>6, GraceAssumption DEF IsSubscriptionExpired, PastEnd
  <2>8. row[u].tier # "free"
    BY <2>6 DEF FollowInv, RowFollows, FreeIsDropped, Dropped
  <2>9. QED
    BY <2>7, <2>8 DEF EffectiveTier, Writable
<1>3. QED
  BY <1>1, <1>2

LEMMA KeepsAccess ==
    ASSUME RetriesFitGrace, Kept, OrderInv, FollowInv
    PROVE  SubscriberKeepsAccess
  BY ServedWhenQuiet, ServedWhileRenewing DEF SubscriberKeepsAccess, Active, Reconciling

(***************************************************************************)
(* Steps that leave a user's row and RevenueCat's view alone               *)
(***************************************************************************)

\* Time and a queue that loses its first event change nothing of what the
\* queue leads to.
LEMMA QueueFrame ==
    ASSUME Kept, NEW u \in Users, SentFollows(u), rc'[u] = rc[u],
           clock' \in {clock, clock + 1}, Waiting(u)' \subseteq Waiting(u),
           \A i \in Waiting(u) : event'[i] = event[i],
           \A i \in Waiting(u)', j \in Waiting(u) : i < j => j \in Waiting(u)'
    PROVE  SentFollows(u)'
<1>1. Active(u)' => Active(u)
  <2>1. rc[u].end = Null \/ rc[u].end \in Int
    BY WaitingFacts DEF View, Stamp
  <2>2. clock \in Nat
    BY WaitingFacts
  <2>3. QED
    BY <2>1, <2>2 DEF Active, RcActive
<1>2. \A i \in Waiting(u)' : i \in Waiting(u) /\ event'[i] = event[i]
  OBVIOUS
<1>3. \A i \in Waiting(u)' :
         Active(u)' /\ SetsTier(event[i])' /\ (\A j \in Waiting(u)' : i < j => ~SetsTier(event[j])')
         => BringsTier(event[i], rc[u])'
  BY <1>1, <1>2 DEF SentFollows, SetsTier, BringsTier
<1>4. \A i \in Waiting(u)' :
         Active(u)' /\ SetsEnd(event[i])' /\ (\A j \in Waiting(u)' : i < j => ~SetsEnd(event[j])')
         => BringsEnd(event[i], rc[u])'
  BY <1>1, <1>2 DEF SentFollows, SetsEnd, BringsEnd
<1>5. ASSUME NEW i \in Waiting(u)', NEW k \in Waiting(u)',
             i < k, event'[k].type \in RunningTypes, SetsEnd(event[i])',
             \A j \in Waiting(u)' : i < j /\ j < k => ~SetsEnd(event[j])'
      PROVE  \/ event'[i].type \in ReconcileAfterTypes
             \/ /\ event'[i].type \in ActiveTypes \union {"BILLING_ISSUE"}
                /\ event'[i].end = Null \/ event'[i].end > event'[k].sentAt
  <2>1. \A j \in Waiting(u) : i < j /\ j < k => ~SetsEnd(event[j])
    BY <1>2, <1>5 DEF SetsEnd
  <2>2. SetsEnd(event[i]) /\ event[k].type \in RunningTypes
    BY <1>2, <1>5 DEF SetsEnd
  <2>3. QED
    BY <1>2, <1>5, <2>1, <2>2 DEF SentFollows
<1>6. QED
  BY <1>3, <1>4, <1>5 DEF SentFollows

\* The same for the row, as long as the queue is the same.
LEMMA RowFrame ==
    ASSUME Kept, NEW u \in Users, RowFollows(u), row'[u] = row[u], rc'[u] = rc[u],
           clock' \in {clock, clock + 1}, Waiting(u)' = Waiting(u),
           \A i \in Waiting(u) : event'[i] = event[i], Steady(u)' => Steady(u)
    PROVE  RowFollows(u)'
<1>1. Active(u)' => Active(u)
  <2>1. rc[u].end = Null \/ rc[u].end \in Int
    BY WaitingFacts DEF View, Stamp
  <2>2. clock \in Nat
    BY WaitingFacts
  <2>3. QED
    BY <2>1, <2>2 DEF Active, RcActive
<1>2. Dropped(row[u]) => Dropped(row[u])'
  <2>1. row[u].end = Null \/ row[u].end \in Int
    BY WaitingFacts DEF Row, Stamp
  <2>2. clock \in Nat
    BY WaitingFacts
  <2>3. QED
    BY <2>1, <2>2, GraceAssumption DEF Dropped
<1>3. TierFollows(u)'
  BY <1>1, <1>2 DEF RowFollows, TierFollows, SetsTier
<1>4. EndFollows(u)'
  BY <1>1 DEF RowFollows, EndFollows, SetsEnd
<1>5. EndSpans(u)'
  BY DEF RowFollows, EndSpans, SetsEnd
<1>6. FreeIsDropped(u)'
  BY <1>2 DEF RowFollows, FreeIsDropped
<1>7. QED
  BY <1>3, <1>4, <1>5, <1>6 DEF RowFollows

\* What is true of the users a step does not concern.
LEMMA OtherUser ==
    ASSUME Kept, FollowInv, NEW u \in Users, row'[u] = row[u], rc'[u] = rc[u],
           clock' \in {clock, clock + 1}, Waiting(u)' = Waiting(u),
           \A i \in Waiting(u) : event'[i] = event[i], Steady(u)' => Steady(u)
    PROVE  SentFollows(u)' /\ RowFollows(u)'
  BY QueueFrame, RowFrame DEF FollowInv

(***************************************************************************)
(* Steps that write the row                                                *)
(***************************************************************************)

\* What an event does to the columns it sets, and to the others.
LEMMA AfterEventFacts ==
    ASSUME NEW r \in Row, Writable(r), NEW e \in Event, NEW now \in Nat
    PROVE  LET w == AfterEvent(r, e, now) IN
           /\ SetsTier(e) /\ e.type \notin ExpiringTypes \union ReconcileAfterTypes
                => w.tier = ResolveTier(e.ents)
           /\ ~SetsTier(e) => w.tier = r.tier
           /\ SetsEnd(e) /\ e.type \notin ExpiringTypes \union ReconcileAfterTypes
                => w.end = e.end /\ w.status \in {"active", "in_grace_period"}
           /\ ~SetsEnd(e) => w.end = r.end /\ w.status = r.status
           /\ w.tier = "free" /\ w.status = "active"
                => r.tier = "free" /\ r.status = "active" /\ w.end = r.end
<1> DEFINE w == AfterEvent(r, e, now)
<1> USE DEF SetsTier, SetsEnd
<1>1. r = [tier |-> r.tier, status |-> r.status, end |-> r.end, unsub |-> r.unsub]
  BY DEF Row
<1>2. ResolveTier(e.ents) # Null => ResolveTier(e.ents) \in Paid
  BY DEF ResolveTier, Paid
<1>3. CASE e.type \in ActiveTypes
  <2>1. w = AfterActive(r, e)
    BY <1>3 DEF AfterEvent, ActiveTypes, ExpiringTypes
  <2>2. QED
    BY <1>1, <1>2, <1>3, <2>1 DEF AfterActive, ActiveTypes, ExpiringTypes, ReconcileAfterTypes, Paid
<1>4. CASE e.type = "CANCELLATION"
  <2>1. w = AfterCancellation(r, now)
    BY <1>4 DEF AfterEvent, ActiveTypes, ExpiringTypes
  <2>2. w.tier = r.tier /\ w.end = r.end /\ w.status = r.status
    BY <1>1, <2>1 DEF AfterCancellation
  <2>3. QED
    BY <1>4, <2>2 DEF ActiveTypes, ExpiringTypes, ReconcileAfterTypes
<1>5. CASE e.type \in ExpiringTypes
  <2>1. w = AfterExpiration
    BY <1>5 DEF AfterEvent, ActiveTypes, ExpiringTypes
  <2>2. QED
    BY <1>5, <2>1 DEF AfterExpiration
<1>6. CASE e.type = "BILLING_ISSUE"
  <2>1. w = AfterBillingIssue(r, e)
    BY <1>6 DEF AfterEvent, ActiveTypes, ExpiringTypes
  <2>2. w.tier = r.tier /\ w.end = e.end /\ w.status = "in_grace_period"
    BY <1>1, <2>1 DEF AfterBillingIssue
  <2>3. QED
    BY <1>6, <2>2 DEF ActiveTypes, ExpiringTypes, ReconcileAfterTypes
<1>7. CASE e.type = "PRODUCT_CHANGE"
  <2>1. w = AfterProductChange(r, e)
    BY <1>7 DEF AfterEvent, ActiveTypes, ExpiringTypes
  <2>2. /\ w.end = r.end /\ w.status = r.status
        /\ w.tier = IF ResolveTier(e.ents) = Null THEN r.tier ELSE ResolveTier(e.ents)
    BY <1>1, <2>1 DEF AfterProductChange
  <2>3. QED
    BY <1>2, <1>7, <2>2 DEF ActiveTypes, ExpiringTypes, ReconcileAfterTypes, Paid
<1>8. CASE e.type \in ReconcileAfterTypes \union SkippedTypes
  <2>1. w = r
    BY <1>8 DEF AfterEvent, ActiveTypes, ExpiringTypes, ReconcileAfterTypes, SkippedTypes
  <2>2. QED
    BY <1>8, <2>1 DEF ActiveTypes, ExpiringTypes, ReconcileAfterTypes, SkippedTypes
<1>9. QED
  BY <1>3, <1>4, <1>5, <1>6, <1>7, <1>8 DEF Event, KnownTypes

\* Handling the first event of the queue.
LEMMA ApplyFollows ==
    ASSUME RetriesFitGrace, Kept, OrderInv, FollowInv, NEW u \in Users, NEW k \in Waiting(u),
           \A j \in Waiting(u) : ~(j < k),
           row'[u] = AfterEvent(row[u], event[k], clock), Waiting(u)' = Waiting(u) \ {k},
           event' = event, rc'[u] = rc[u], clock' = clock,
           Steady(u)' => Steady(u) /\ event[k].type \notin ReconcileAfterTypes
    PROVE  RowFollows(u)'
<1> DEFINE e == event[k]
           w == row'[u]
<1>1. /\ Waiting(u) \subseteq Nat /\ e \in Event /\ e.sentAt \in Nat /\ e.sentAt <= clock
      /\ clock \in Nat /\ row[u] \in Row /\ rc[u] \in View /\ k \in Nat
  BY WaitingFacts
<1>2. \A j \in Waiting(u) : j # k => k < j
  BY <1>1
<1>3. SentFollows(u) /\ RowFollows(u)
  BY DEF FollowInv
<1>4. CASE ~Writable(row[u])
  <2>1. row[u].tier # "none"
    BY DEF OrderInv, UsersThere, Waiting
  <2>2. row[u].tier = "lifetime" /\ w = row[u]
    BY <1>4, <2>1 DEF Writable, AfterEvent
  <2>3. QED
    BY <2>2 DEF RowFollows, TierFollows, EndFollows, EndSpans, FreeIsDropped, Steady
<1>5. CASE Writable(row[u])
  <2>1. /\ SetsTier(e) /\ e.type \notin ExpiringTypes \union ReconcileAfterTypes
             => w.tier = ResolveTier(e.ents)
        /\ ~SetsTier(e) => w.tier = row[u].tier
        /\ SetsEnd(e) /\ e.type \notin ExpiringTypes \union ReconcileAfterTypes
             => w.end = e.end /\ w.status \in {"active", "in_grace_period"}
        /\ ~SetsEnd(e) => w.end = row[u].end /\ w.status = row[u].status
        /\ w.tier = "free" /\ w.status = "active"
             => row[u].tier = "free" /\ row[u].status = "active" /\ w.end = row[u].end
    BY <1>1, <1>5, AfterEventFacts
  <2>2. Active(u)' <=> Active(u)
    BY DEF Active
  <2>3. TierFollows(u)'
    <3>1. SUFFICES ASSUME Steady(u), e.type \notin ReconcileAfterTypes, Active(u),
                          \A i \in Waiting(u) \ {k} : ~SetsTier(event[i])
                   PROVE  w.tier = ResolveTier(rc[u].ents) \/ Dropped(row[u])'
      BY <2>2 DEF TierFollows, SetsTier
    <3>2. CASE SetsTier(e)
      <4>1. BringsTier(e, rc[u])
        BY <1>2, <1>3, <3>1, <3>2 DEF SentFollows
      <4>2. e.type \notin ExpiringTypes /\ e.ents = rc[u].ents
        BY <3>1, <4>1 DEF BringsTier, ActiveTypes, ExpiringTypes
      <4>3. QED
        BY <2>1, <3>1, <3>2, <4>2
    <3>3. CASE ~SetsTier(e)
      <4>1. row[u].tier = ResolveTier(rc[u].ents) \/ Dropped(row[u])
        BY <1>3, <3>1, <3>3 DEF RowFollows, TierFollows
      <4>2. CASE ~SetsEnd(e)
        BY <2>1, <3>3, <4>1, <4>2 DEF Dropped
      <4>3. CASE SetsEnd(e)
        <5>1. e.type \in RunningTypes
          BY <3>3, <4>3 DEF SetsTier, SetsEnd, RunningTypes
        <5>2. row[u].end = Null \/ row[u].end > e.sentAt
          BY <1>3, <3>1, <5>1 DEF RowFollows, EndSpans
        <5>3. clock <= e.sentAt + RetryWindow /\ row[u].end \in Int \union {Null}
          BY <1>1 DEF OrderInv, InTime, Row, Stamp
        <5>4. ~Dropped(row[u])
          BY <1>1, <5>2, <5>3, GraceAssumption, TimesAssumption, NullAssumption
          DEF Dropped, RetriesFitGrace
        <5>5. QED
          BY <2>1, <3>3, <4>1, <5>4
      <4>4. QED
        BY <4>2, <4>3
    <3>4. QED
      BY <3>2, <3>3
  <2>4. EndFollows(u)'
    <3>1. SUFFICES ASSUME Steady(u), e.type \notin ReconcileAfterTypes, Active(u),
                          \A i \in Waiting(u) \ {k} : ~SetsEnd(event[i])
                   PROVE  w.status \in {"active", "in_grace_period"} /\ w.end = rc[u].end
      BY <2>2 DEF EndFollows, SetsEnd
    <3>2. CASE SetsEnd(e)
      <4>1. BringsEnd(e, rc[u])
        BY <1>2, <1>3, <3>1, <3>2 DEF SentFollows
      <4>2. e.type \notin ExpiringTypes /\ e.end = rc[u].end
        BY <3>1, <4>1 DEF BringsEnd, ActiveTypes, ExpiringTypes
      <4>3. QED
        BY <2>1, <3>1, <3>2, <4>2
    <3>3. CASE ~SetsEnd(e)
      <4>1. row[u].status \in {"active", "in_grace_period"} /\ row[u].end = rc[u].end
        BY <1>3, <3>1, <3>3 DEF RowFollows, EndFollows
      <4>2. QED
        BY <2>1, <3>3, <4>1
    <3>4. QED
      BY <3>2, <3>3
  <2>5. EndSpans(u)'
    <3>1. SUFFICES ASSUME NEW i \in Waiting(u) \ {k}, Steady(u), e.type \notin ReconcileAfterTypes,
                          event[i].type \in RunningTypes,
                          \A j \in Waiting(u) \ {k} : j < i => ~SetsEnd(event[j])
                   PROVE  w.end = Null \/ w.end > event[i].sentAt
      BY DEF EndSpans, SetsEnd
    <3>2. CASE SetsEnd(e)
      <4>1. \A j \in Waiting(u) : k < j /\ j < i => ~SetsEnd(event[j])
        BY <1>1, <3>1
      <4>2. /\ e.type \in ActiveTypes \union {"BILLING_ISSUE"}
            /\ e.end = Null \/ e.end > event[i].sentAt
        BY <1>2, <1>3, <3>1, <3>2, <4>1 DEF SentFollows
      <4>3. e.type \notin ExpiringTypes
        BY <4>2 DEF ActiveTypes, ExpiringTypes
      <4>4. QED
        BY <2>1, <3>1, <3>2, <4>2, <4>3
    <3>3. CASE ~SetsEnd(e)
      <4>1. row[u].end = Null \/ row[u].end > event[i].sentAt
        BY <1>3, <3>1, <3>3 DEF RowFollows, EndSpans
      <4>2. QED
        BY <2>1, <3>3, <4>1
    <3>4. QED
      BY <3>2, <3>3
  <2>6. FreeIsDropped(u)'
    BY <1>3, <2>1 DEF RowFollows, FreeIsDropped, Dropped
  <2>7. QED
    BY <2>3, <2>4, <2>5, <2>6 DEF RowFollows
<1>6. QED
  BY <1>4, <1>5

\* A reconcile that is up to date.
LEMMA ReconcileFollows ==
    ASSUME Kept, OrderInv, FollowInv, NEW u \in Users, Reconciling(u),
           row'[u] = AfterReconcile(row[u], DeriveDesiredState(rc[u], clock)),
           Waiting(u)' = Waiting(u), event' = event, rc'[u] = rc[u], clock' = clock
    PROVE  RowFollows(u)'
<1> DEFINE w == row'[u]
<1>1. /\ clock \in Nat /\ row[u] \in Row /\ rc[u] \in View
      /\ \A i \in Waiting(u) : event[i].sentAt \in Nat /\ event[i].sentAt <= clock
  BY WaitingFacts
<1>2. row[u].tier # "none"
  BY DEF OrderInv, UsersThere
<1>3. CASE ~Writable(row[u])
  <2>1. w = row[u] /\ row[u].tier = "lifetime"
    BY <1>2, <1>3 DEF Writable, AfterReconcile
  <2>2. QED
    BY <2>1 DEF RowFollows, TierFollows, EndFollows, EndSpans, FreeIsDropped, Steady
<1>4. CASE Writable(row[u])
  <2>1. /\ Active(u) => /\ w.tier = ResolveTier(rc[u].ents) /\ w.tier \in Paid
                        /\ w.status \in {"active", "in_grace_period"} /\ w.end = rc[u].end
        /\ ~Active(u) => w.tier = "free" /\ w.status = "expired" /\ w.end = Null
    BY <1>1, <1>4, ReconcileFacts DEF Active
  <2>2. Active(u)' <=> Active(u)
    BY DEF Active
  <2>3. \A i \in Waiting(u) : w.end = Null \/ w.end > event[i].sentAt
    <3>1. Active(u) => rc[u].end = Null \/ (rc[u].end \in Int /\ rc[u].end > clock)
      BY <1>1 DEF Active, RcActive, View, Stamp
    <3>2. QED
      BY <1>1, <2>1, <3>1
  <2>4. QED
    BY <2>1, <2>2, <2>3 DEF RowFollows, TierFollows, EndFollows, EndSpans, FreeIsDropped, Paid
<1>5. QED
  BY <1>3, <1>4

\* The expiration job's write.
LEMMA DowngradeFollows ==
    ASSUME Kept, FollowInv, NEW u \in Users, Expired(row[u]),
           row'[u] = [row[u] EXCEPT !.tier = "free"], req' = req,
           Waiting(u)' = Waiting(u), event' = event, rc'[u] = rc[u], clock' = clock
    PROVE  RowFollows(u)'
<1>1. row'[u].tier = "free" /\ row'[u].end = row[u].end /\ row'[u].status = row[u].status
  BY WaitingFacts DEF Row
<1>2. Dropped(row[u])'
  BY <1>1 DEF Expired, Dropped
<1>3. Steady(u)' => Steady(u)
  BY DEF Expired, Steady, Paid, Reconciling
<1>4. (Active(u)' <=> Active(u)) /\ RowFollows(u)
  BY DEF Active, FollowInv
<1>5. QED
  BY <1>1, <1>2, <1>3, <1>4 DEF RowFollows, TierFollows, EndFollows, EndSpans, FreeIsDropped, SetsEnd

\* A change at RevenueCat, with its event queued behind the ones that wait.
LEMMA SendFollows ==
    ASSUME Kept, OrderInv, FollowInv, Orderly, NEW i \in EventIds, NEW u \in Users, Send(i, u)
    PROVE  FollowInv'
<1> DEFINE e == event'[i]
<1>1. PICK n \in NewsOf(u) :
        /\ event' = [event EXCEPT ![i] = [type |-> n.type, user |-> u, ents |-> n.ents,
                                          end |-> n.end, sentAt |-> clock]]
        /\ rc' = [rc EXCEPT ![u] = n.view]
  BY DEF Send
<1>2. TypeInv /\ TypeInv'
  BY TypeSend DEF Kept
<1>3. /\ e = [type |-> n.type, user |-> u, ents |-> n.ents, end |-> n.end, sentAt |-> clock]
      /\ rc'[u] = n.view /\ \A j \in EventIds \ {i} : event'[j] = event[j]
      /\ \A v \in Users \ {u} : rc'[v] = rc[v]
  BY <1>1, <1>2 DEF TypeInv, TypeOK
<1>4. e \in Event /\ e # Null /\ event[i] = Null
  <2>1. n \in News
    BY <1>2, NewsType
  <2>2. e \in Event
    BY <1>2, <1>3, <2>1 DEF News, Event, TypeInv, TypeOK
  <2>3. QED
    BY <2>2, NoEventAssumption DEF Send
<1>5. UNCHANGED <<clock, row, receivedAt, req, found, applied, touched>>
  BY SendFrame
\* The environment's promises.
<1>6. /\ ~Reconciling(u)
      /\ e.type = "RENEWAL" => Active(u) /\ e.ents = rc[u].ents
  BY <1>3, <1>4 DEF Orderly, Reconciling, Active
\* The new event is the last one.
<1>7. applied[i] = 0
  BY <1>4, <1>2, DedupeTypes DEF Kept, DedupeInv, DedupeOf
<1>8. Waiting(u)' = Waiting(u) \union {i}
  BY <1>3, <1>4, <1>5, <1>7 DEF Waiting
<1>9. \A j \in Waiting(u) : j < i /\ event'[j] = event[j]
  <2>1. SUFFICES ASSUME NEW j \in Waiting(u) PROVE j < i /\ event'[j] = event[j]
    OBVIOUS
  <2>2. j \in EventIds /\ event[j] # Null
    BY DEF Waiting
  <2>3. j # i /\ ~(i < j)
    BY <1>4, <2>2 DEF OrderInv, SentInOrder
  <2>4. QED
    BY <1>3, <2>2, <2>3, EventsAssumption
<1>10. \A j \in Waiting(u) : ~(i < j) /\ j # i
  BY <1>9, WaitingFacts, EventsAssumption
<1>11. \A v \in Users \ {u} : SentFollows(v)' /\ RowFollows(v)'
  <2>1. SUFFICES ASSUME NEW v \in Users \ {u} PROVE SentFollows(v)' /\ RowFollows(v)'
    OBVIOUS
  <2>2. Waiting(v)' = Waiting(v) /\ \A j \in Waiting(v) : event'[j] = event[j]
    BY <1>3, <1>4, <1>5 DEF Waiting
  <2>3. Steady(v)' => Steady(v)
    BY <1>5 DEF Steady, Reconciling
  <2>4. QED
    BY <1>3, <1>5, <2>2, <2>3, OtherUser
\* What the event tells.
<1>12. /\ SetsTier(e) <=> SetsTier(n)
       /\ SetsEnd(e) <=> SetsEnd(n)
       /\ e.type = n.type /\ e.ents = n.ents /\ e.end = n.end /\ e.sentAt = clock
  BY <1>3 DEF SetsTier, SetsEnd
<1>13. /\ ~SetsTier(n) => n.view.ents = rc[u].ents
       /\ ~SetsEnd(n) => n.view.end = rc[u].end
       /\ (~SetsTier(n) \/ ~SetsEnd(n)) /\ RcActive(n.view, clock) => Active(u)
       /\ SetsTier(n) /\ RcActive(n.view, clock) => BringsTier(n, n.view)
       /\ SetsEnd(n) /\ RcActive(n.view, clock) => BringsEnd(n, n.view)
       /\ n.type = "BILLING_ISSUE" => Active(u)
  BY <1>2, NewsFacts
<1>14. Active(u)' <=> RcActive(n.view, clock)
  BY <1>3, <1>5 DEF Active
<1>15. SentFollows(u) /\ RowFollows(u)
  BY DEF FollowInv
\* An event of a running subscription comes before its end.
<1>16. e.type \in RunningTypes => Active(u) /\ (rc[u].end = Null \/ rc[u].end > e.sentAt)
  BY <1>6, <1>12, <1>13, WaitingFacts DEF RunningTypes, Active, RcActive, View, Stamp
<1>17. SentFollows(u)'
  <2>1. ASSUME NEW k \in Waiting(u)', Active(u)', SetsTier(event[k])',
               \A j \in Waiting(u)' : k < j => ~SetsTier(event[j])'
        PROVE  BringsTier(event[k], rc[u])'
    <3>1. CASE k = i
      BY <1>3, <1>12, <1>13, <1>14, <2>1, <3>1 DEF BringsTier, SetsTier
    <3>2. CASE k # i
      <4>1. k \in Waiting(u) /\ ~SetsTier(e)
        BY <1>8, <1>9, <2>1, <3>2 DEF SetsTier
      <4>2. Active(u) /\ n.view.ents = rc[u].ents
        BY <1>12, <1>13, <1>14, <2>1, <4>1
      <4>3. SetsTier(event[k]) /\ \A j \in Waiting(u) : k < j => ~SetsTier(event[j])
        BY <1>8, <1>9, <2>1, <4>1 DEF SetsTier
      <4>4. BringsTier(event[k], rc[u])
        BY <1>15, <4>1, <4>2, <4>3 DEF SentFollows
      <4>5. QED
        BY <1>3, <1>9, <4>1, <4>2, <4>4 DEF BringsTier
    <3>3. QED
      BY <3>1, <3>2
  <2>2. ASSUME NEW k \in Waiting(u)', Active(u)', SetsEnd(event[k])',
               \A j \in Waiting(u)' : k < j => ~SetsEnd(event[j])'
        PROVE  BringsEnd(event[k], rc[u])'
    <3>1. CASE k = i
      BY <1>3, <1>12, <1>13, <1>14, <2>2, <3>1 DEF BringsEnd, SetsEnd
    <3>2. CASE k # i
      <4>1. k \in Waiting(u) /\ ~SetsEnd(e)
        BY <1>8, <1>9, <2>2, <3>2 DEF SetsEnd
      <4>2. Active(u) /\ n.view.end = rc[u].end
        BY <1>12, <1>13, <1>14, <2>2, <4>1
      <4>3. SetsEnd(event[k]) /\ \A j \in Waiting(u) : k < j => ~SetsEnd(event[j])
        BY <1>8, <1>9, <2>2, <4>1 DEF SetsEnd
      <4>4. BringsEnd(event[k], rc[u])
        BY <1>15, <4>1, <4>2, <4>3 DEF SentFollows
      <4>5. QED
        BY <1>3, <1>9, <4>1, <4>2, <4>4 DEF BringsEnd
    <3>3. QED
      BY <3>1, <3>2
  <2>3. ASSUME NEW m \in Waiting(u)', NEW k \in Waiting(u)',
               m < k, event'[k].type \in RunningTypes, SetsEnd(event[m])',
               \A j \in Waiting(u)' : m < j /\ j < k => ~SetsEnd(event[j])'
        PROVE  \/ event'[m].type \in ReconcileAfterTypes
               \/ /\ event'[m].type \in ActiveTypes \union {"BILLING_ISSUE"}
                  /\ event'[m].end = Null \/ event'[m].end > event'[k].sentAt
    <3>1. m \in Waiting(u) /\ event'[m] = event[m] /\ SetsEnd(event[m])
      <4>1. m # i
        BY <1>8, <1>10, <2>3, EventsAssumption
      <4>2. QED
        BY <1>8, <1>9, <2>3, <4>1 DEF SetsEnd
    <3>2. \A j \in Waiting(u) : m < j /\ j < k => ~SetsEnd(event[j])
      BY <1>8, <1>9, <2>3 DEF SetsEnd
    <3>3. CASE k = i
      <4>1. \A j \in Waiting(u) : m < j => ~SetsEnd(event[j])
        BY <1>9, <3>2, <3>3
      <4>2. BringsEnd(event[m], rc[u])
        BY <1>15, <1>16, <2>3, <3>1, <3>3, <4>1 DEF SentFollows
      <4>3. QED
        BY <1>16, <2>3, <3>1, <3>3, <4>2 DEF BringsEnd
    <3>4. CASE k # i
      <4>1. k \in Waiting(u) /\ event'[k] = event[k]
        BY <1>8, <1>9, <3>4
      <4>2. QED
        BY <1>15, <2>3, <3>1, <3>2, <4>1 DEF SentFollows
    <3>5. QED
      BY <3>3, <3>4
  <2>4. QED
    BY <2>1, <2>2, <2>3 DEF SentFollows
<1>18. RowFollows(u)'
  <2>1. row' = row /\ (Steady(u)' => Steady(u))
    BY <1>5 DEF Steady, Reconciling
  <2>2. TierFollows(u)'
    <3>1. SUFFICES ASSUME Steady(u), Active(u)', \A k \in Waiting(u)' : ~SetsTier(event[k])'
                   PROVE  row[u].tier = ResolveTier(n.view.ents) \/ Dropped(row[u])
      BY <1>3, <1>5, <2>1 DEF TierFollows, Dropped
    <3>2. ~SetsTier(e) /\ \A k \in Waiting(u) : ~SetsTier(event[k])
      BY <1>8, <1>9, <3>1 DEF SetsTier
    <3>3. QED
      BY <1>12, <1>13, <1>14, <1>15, <3>1, <3>2 DEF RowFollows, TierFollows
  <2>3. EndFollows(u)'
    <3>1. SUFFICES ASSUME Steady(u), Active(u)', \A k \in Waiting(u)' : ~SetsEnd(event[k])'
                   PROVE  row[u].status \in {"active", "in_grace_period"} /\ row[u].end = n.view.end
      BY <1>3, <1>5, <2>1 DEF EndFollows
    <3>2. ~SetsEnd(e) /\ \A k \in Waiting(u) : ~SetsEnd(event[k])
      BY <1>8, <1>9, <3>1 DEF SetsEnd
    <3>3. QED
      BY <1>12, <1>13, <1>14, <1>15, <3>1, <3>2 DEF RowFollows, EndFollows
  <2>4. EndSpans(u)'
    <3>1. SUFFICES ASSUME NEW k \in Waiting(u)', Steady(u), event'[k].type \in RunningTypes,
                          \A j \in Waiting(u)' : j < k => ~SetsEnd(event[j])'
                   PROVE  row[u].end = Null \/ row[u].end > event'[k].sentAt
      BY <1>5, <2>1 DEF EndSpans
    <3>2. \A j \in Waiting(u) : j < k => ~SetsEnd(event[j])
      BY <1>8, <1>9, <3>1 DEF SetsEnd
    <3>3. CASE k = i
      <4>1. Active(u) /\ \A j \in Waiting(u) : ~SetsEnd(event[j])
        BY <1>9, <1>16, <3>1, <3>2, <3>3
      <4>2. row[u].end = rc[u].end
        BY <1>15, <3>1, <4>1 DEF RowFollows, EndFollows
      <4>3. QED
        BY <1>16, <3>1, <3>3, <4>2
    <3>4. CASE k # i
      <4>1. k \in Waiting(u) /\ event'[k] = event[k]
        BY <1>8, <1>9, <3>4
      <4>2. QED
        BY <1>15, <3>1, <3>2, <4>1 DEF RowFollows, EndSpans
    <3>5. QED
      BY <3>3, <3>4
  <2>5. FreeIsDropped(u)'
    BY <1>5, <1>15 DEF RowFollows, FreeIsDropped, Dropped
  <2>6. QED
    BY <2>2, <2>3, <2>4, <2>5 DEF RowFollows
<1>19. QED
  BY <1>11, <1>17, <1>18 DEF FollowInv

(***************************************************************************)
(* The steps of the handlers                                               *)
(***************************************************************************)

\* Steps that write no row, apply no event and end no reconcile.
LEMMA QuietFollows ==
    ASSUME Kept, FollowInv, UNCHANGED <<row, rc, event, applied>>, clock' \in {clock, clock + 1},
           \A u \in Users : Steady(u)' => Steady(u)
    PROVE  FollowInv'
<1>1. \A u \in Users : Waiting(u)' = Waiting(u)
  BY DEF Waiting
<1>2. QED
  BY <1>1, OtherUser DEF FollowInv

\* Only the handler that takes a step can end a reconcile.
LEMMA ReconcileEnds ==
    ASSUME NEW q \in Requests, \A p \in Requests \ {q} : req'[p] = req[p], NEW u \in Users,
           Reconciling(u), ~Reconciling(u)'
    PROVE  req[q].stage \in SyncStages /\ req[q].user = u
BY DEF Reconciling

\* The event a handler applies is the first one its user waits for.
LEMMA AppliedIsFirst ==
    ASSUME Kept, OrderInv, NEW q \in Requests, req[q].stage \in WebhookStages,
           Record(req[q].id), event' = event
    PROVE  \E u \in Users, k \in EventIds :
               /\ u = req[q].user /\ k = req[q].id /\ k \in Waiting(u) /\ \A j \in Waiting(u) : ~(j < k)
               /\ Waiting(u)' = Waiting(u) \ {k}
               /\ \A v \in Users \ {u} : Waiting(v)' = Waiting(v)
<1> SUFFICES ASSUME NEW k, k = req[q].id, NEW u, u = req[q].user
             PROVE  /\ u \in Users /\ k \in EventIds
                    /\ k \in Waiting(u) /\ \A j \in Waiting(u) : ~(j < k)
                    /\ Waiting(u)' = Waiting(u) \ {k}
                    /\ \A v \in Users \ {u} : Waiting(v)' = Waiting(v)
  OBVIOUS
<1>1. u \in Users /\ k \in EventIds /\ event[k] # Null
  BY RequestStages, NoEventAssumption DEF Kept, TypeInv, TypeOK, KnownEvents
<1>2. k # Null
  BY <1>1, DedupeTypes DEF Kept
<1>3. /\ applied[k] = 0 /\ event[k].user = u
      /\ \A i \in EventIds : i < k => applied[i] > 0
  BY <1>2 DEF OrderInv, HandledInOrder
<1>4. applied'[k] = 1 /\ \A i \in EventIds \ {k} : applied'[i] = applied[i]
  BY <1>1, <1>3 DEF Record, Kept, TypeInv, TypeOK
<1>5. k \in Waiting(u) /\ \A j \in Waiting(u) : ~(j < k)
  BY <1>1, <1>3 DEF Waiting
<1>6. Waiting(u)' = Waiting(u) \ {k}
  BY <1>1, <1>4 DEF Waiting
<1>7. \A v \in Users \ {u} : Waiting(v)' = Waiting(v)
  BY <1>1, <1>3, <1>4 DEF Waiting
<1>8. QED
  BY <1>1, <1>5, <1>6, <1>7

\* The two transactions that apply an event.
LEMMA HandleFollows ==
    ASSUME RetriesFitGrace, Kept, OrderInv, FollowInv, NEW q \in Requests,
           ProcessEvent(q) \/ ExpirationWrite(q)
    PROVE  FollowInv'
<1>1. /\ req[q].stage \in WebhookStages /\ Record(req[q].id) /\ UNCHANGED <<clock, event, rc>>
      /\ row' = [row EXCEPT ![req[q].user] = AfterEvent(@, event[req[q].id], clock)]
  BY DEF ProcessEvent, ExpirationWrite, WebhookStages, externalVars
<1>2. PICK u \in Users, k \in EventIds :
        /\ u = req[q].user /\ k = req[q].id /\ k \in Waiting(u) /\ \A j \in Waiting(u) : ~(j < k)
        /\ Waiting(u)' = Waiting(u) \ {k}
        /\ \A v \in Users \ {u} : Waiting(v)' = Waiting(v)
  BY <1>1, AppliedIsFirst
<1>3. /\ req[q].stage \in WebhookStages /\ UNCHANGED <<clock, event, rc>>
      /\ row' = [row EXCEPT ![u] = AfterEvent(row[u], event[k], clock)]
  BY <1>1, <1>2
<1>4. \A p \in Requests \ {q} : req'[p] = req[p]
  BY DEF ProcessEvent, ExpirationWrite, Kept, TypeInv, TypeOK
<1>5. /\ row'[u] = AfterEvent(row[u], event[k], clock)
      /\ \A v \in Users \ {u} : row'[v] = row[v]
  BY <1>3, <1>2 DEF Kept, TypeInv, TypeOK
<1>6. \A v \in Users : Reconciling(v) => Reconciling(v)'
  BY <1>3, <1>4, ReconcileEnds DEF WebhookStages, SyncStages
<1>7. row[u].tier = "lifetime" => row'[u].tier = "lifetime"
  BY <1>5, LifetimeUntouched
<1>8. Steady(u)' => Steady(u)
  BY <1>6, <1>7, <1>2 DEF Steady
<1>9. Steady(u)' => event[k].type \notin ReconcileAfterTypes
  <2>1. SUFFICES ASSUME event[k].type \in ReconcileAfterTypes PROVE Reconciling(u)'
    BY DEF Steady
  <2>2. ProcessEvent(q)
    <3>1. CASE ExpirationWrite(q)
      <4>1. req[q].stage = "expiring"
        BY <3>1 DEF ExpirationWrite
      <4>2. event[k].type \in ExpiringTypes
        BY <1>2, <4>1 DEF OrderInv, ExpiringHandled
      <4>3. QED
        BY <2>1, <4>2 DEF ExpiringTypes, ReconcileAfterTypes
    <3>2. QED
      BY <3>1
  <2>3. req'[q] = [Idle EXCEPT !.stage = "reconcile", !.user = u]
    <3>1. event[req[q].id].type \in ReconcileAfterTypes /\ u = req[q].user
      BY <1>2, <2>1
    <3>2. req' = [req EXCEPT ![q] = [Idle EXCEPT !.stage = "reconcile", !.user = u]]
      BY <2>2, <3>1 DEF ProcessEvent
    <3>3. QED
      BY <3>2 DEF Kept, TypeInv, TypeOK
  <2>4. QED
    BY <2>3 DEF Reconciling, Idle, SyncStages
<1>10. RowFollows(u)'
  BY <1>3, <1>2, <1>5, <1>8, <1>9, ApplyFollows
<1>11. SentFollows(u)'
  BY <1>3, <1>2, QueueFrame DEF FollowInv
<1>12. \A v \in Users \ {u} : SentFollows(v)' /\ RowFollows(v)'
  <2>1. SUFFICES ASSUME NEW v \in Users \ {u} PROVE SentFollows(v)' /\ RowFollows(v)'
    OBVIOUS
  <2>2. Steady(v)' => Steady(v)
    BY <1>5, <1>6 DEF Steady
  <2>3. QED
    BY <1>3, <1>2, <1>5, <2>2, OtherUser
<1>13. QED
  BY <1>10, <1>11, <1>12 DEF FollowInv

LEMMA WebhookFollows ==
    ASSUME RetriesFitGrace, Kept, OrderInv, FollowInv, Orderly, NEW q \in Requests,
           Webhook(q) \/ HandlerFails(q)
    PROVE  FollowInv'
<1> USE DEF externalVars
<1>1. req \in [Requests -> Request] /\ clock \in Nat
  BY DEF Kept, TypeInv, TypeOK
<1>2. CASE ProcessEvent(q) \/ ExpirationWrite(q)
  BY <1>2, HandleFollows
\* No reconcile ends where the handler was not in one.
<1>3. ASSUME req[q].stage \notin SyncStages, \A p \in Requests \ {q} : req'[p] = req[p], row' = row
      PROVE  \A u \in Users : Steady(u)' => Steady(u)
  BY <1>3, ReconcileEnds DEF Steady
<1>4. CASE \/ \E i \in EventIds : Deliver(q, i)
           \/ HandlerFails(q)
           \/ ExpirationSelect(q) /\ row[req[q].user].tier # "lifetime"
  <2>1. UNCHANGED <<clock, row, rc, event, applied>> /\ \A p \in Requests \ {q} : req'[p] = req[p]
    BY <1>1, <1>4 DEF Deliver, HandlerFails, ExpirationSelect
  <2>2. req[q].stage \notin SyncStages
    BY <1>4 DEF Deliver, HandlerFails, ExpirationSelect, Orderly, Idle, SyncStages
  <2>3. QED
    BY <1>3, <2>1, <2>2, QuietFollows
<1>5. CASE ExpirationSelect(q) /\ row[req[q].user].tier = "lifetime"
  <2>1. /\ req[q].stage \in WebhookStages /\ req[q].stage \notin SyncStages /\ Record(req[q].id)
        /\ UNCHANGED <<clock, row, event, rc>> /\ \A p \in Requests \ {q} : req'[p] = req[p]
    BY <1>1, <1>5 DEF ExpirationSelect, WebhookStages, SyncStages
  <2>2. PICK u \in Users, k \in EventIds :
          /\ u = req[q].user /\ k = req[q].id /\ k \in Waiting(u) /\ \A j \in Waiting(u) : ~(j < k)
          /\ Waiting(u)' = Waiting(u) \ {k}
          /\ \A v \in Users \ {u} : Waiting(v)' = Waiting(v)
    BY <2>1, AppliedIsFirst
  <2>3. \A v \in Users : Steady(v)' => Steady(v)
    BY <1>3, <2>1
  <2>4. \A v \in Users \ {u} : SentFollows(v)' /\ RowFollows(v)'
    BY <2>1, <2>2, <2>3, OtherUser
  <2>5. SentFollows(u)'
    BY <2>1, <2>2, QueueFrame DEF FollowInv
  <2>6. RowFollows(u)'
    <3>1. row'[u].tier = "lifetime"
      BY <1>5, <2>1, <2>2
    <3>2. QED
      BY <3>1 DEF RowFollows, TierFollows, EndFollows, EndSpans, FreeIsDropped, Steady
  <2>7. QED
    BY <2>4, <2>5, <2>6 DEF FollowInv
<1>6. QED
  BY <1>2, <1>4, <1>5 DEF Webhook

LEMMA SyncFollows ==
    ASSUME Kept, OrderInv, FollowInv, NEW q \in Requests, Reconcile(q)
    PROVE  FollowInv'
<1> USE DEF externalVars
<1>1. req \in [Requests -> Request] /\ clock \in Nat
  BY DEF Kept, TypeInv, TypeOK
<1>2. \A p \in Requests \ {q} : req'[p] = req[p]
  BY <1>1 DEF Reconcile, Sync, Fetch, ReconcileSelect, ReconcileWrite
<1>3. UNCHANGED <<clock, event, rc, applied>>
  BY DEF Reconcile, Sync, Fetch, ReconcileSelect, ReconcileWrite
<1>4. CASE \E v \in Users : Sync(q, v)
  <2>1. req[q].stage \notin SyncStages /\ row' = row
    BY <1>4 DEF Sync, Idle, SyncStages
  <2>2. \A u \in Users : Steady(u)' => Steady(u)
    BY <1>2, <2>1, ReconcileEnds DEF Steady
  <2>3. QED
    BY <1>1, <1>3, <2>1, <2>2, QuietFollows
\* The reconcile goes on.
<1>5. ASSUME NEW u \in Users, req'[q].stage \in SyncStages, req'[q].user = req[q].user, Reconciling(u)
      PROVE  Reconciling(u)'
  BY <1>2, <1>5 DEF Reconciling
<1>6. CASE Fetch(q)
  <2>1. req'[q].stage \in SyncStages /\ req'[q].user = req[q].user /\ row' = row
    BY <1>1, <1>6 DEF Fetch, SyncStages
  <2>2. \A u \in Users : Steady(u)' => Steady(u)
    BY <1>5, <2>1 DEF Steady
  <2>3. QED
    BY <1>1, <1>3, <2>1, <2>2, QuietFollows
<1>7. CASE ReconcileSelect(q)
  <2>1. row' = row
    BY <1>7 DEF ReconcileSelect
  <2>2. CASE row[req[q].user].tier = "lifetime"
    <3>1. \A u \in Users : Steady(u)' => Steady(u)
      BY <1>2, <2>1, <2>2, ReconcileEnds DEF Steady
    <3>2. QED
      BY <1>1, <1>3, <2>1, <3>1, QuietFollows
  <2>3. CASE row[req[q].user].tier # "lifetime"
    <3>1. req[q] = [stage |-> "derived", id |-> Null, user |-> req[q].user, want |-> req[q].want]
      BY <1>1, <1>7, RequestStages DEF ReconcileSelect
    <3>2. req'[q] = [req[q] EXCEPT !.stage = "writing"]
      BY <1>1, <1>7, <2>3 DEF ReconcileSelect
    <3>3. req'[q].stage \in SyncStages /\ req'[q].user = req[q].user
      BY <3>1, <3>2 DEF SyncStages
    <3>4. \A u \in Users : Steady(u)' => Steady(u)
      BY <1>5, <2>1, <3>3 DEF Steady
    <3>5. QED
      BY <1>1, <1>3, <2>1, <3>4, QuietFollows
  <2>4. QED
    BY <2>2, <2>3
<1>8. CASE ReconcileWrite(q)
  <2>1. \A u \in Users : Waiting(u)' = Waiting(u)
    BY <1>3 DEF Waiting
  <2>2. PICK u \in Users : u = req[q].user
    BY <1>1, <1>8, RequestStages DEF ReconcileWrite
  <2>3. req[q].want = DeriveDesiredState(rc[u], clock)
    BY <1>8, <2>2 DEF ReconcileWrite, OrderInv, UpToDate
  <2>4. /\ row'[u] = AfterReconcile(row[u], DeriveDesiredState(rc[u], clock))
        /\ \A v \in Users \ {u} : row'[v] = row[v]
    BY <1>8, <2>2, <2>3 DEF ReconcileWrite, Kept, TypeInv, TypeOK
  <2>5. Reconciling(u)
    BY <1>8, <2>2 DEF ReconcileWrite, Reconciling, SyncStages
  <2>6. RowFollows(u)'
    BY <1>3, <2>1, <2>4, <2>5, ReconcileFollows
  <2>7. SentFollows(u)'
    BY <1>3, <2>1, QueueFrame DEF FollowInv
  <2>8. \A v \in Users \ {u} : SentFollows(v)' /\ RowFollows(v)'
    <3>1. SUFFICES ASSUME NEW v \in Users \ {u} PROVE SentFollows(v)' /\ RowFollows(v)'
      OBVIOUS
    <3>2. Steady(v)' => Steady(v)
      BY <1>2, <2>2, <2>4, ReconcileEnds DEF Steady
    <3>3. QED
      BY <1>3, <2>1, <2>4, <3>2, OtherUser
  <2>9. QED
    BY <2>6, <2>7, <2>8 DEF FollowInv
<1>9. QED
  BY <1>4, <1>6, <1>7, <1>8 DEF Reconcile

(***************************************************************************)
(* The other steps                                                         *)
(***************************************************************************)
LEMMA RestFollows ==
    ASSUME Kept, OrderInv, FollowInv, Orderly,
           Jobs \/ Tick \/ \E u \in Users : UpsertUser(u) \/ DeleteUser(u) \/ GrantLifetime(u)
    PROVE  FollowInv'
<1> USE DEF externalVars
<1>1. req' = req /\ UNCHANGED <<event, rc, applied>>
  BY DEF Jobs, FindExpired, DowngradeExpired, DowngradeFails, PruneOldEvents, Tick, UpsertUser,
         DeleteUser, GrantLifetime
<1>2. \A u \in Users : Waiting(u)' = Waiting(u) /\ (Reconciling(u)' <=> Reconciling(u))
  BY <1>1 DEF Waiting, Reconciling
<1>3. clock \in Nat /\ row \in [Users -> Row]
  BY DEF Kept, TypeInv, TypeOK
<1>4. ASSUME NEW u \in Users, clock' = clock, RowFollows(u)',
             \A v \in Users \ {u} : row'[v] = row[v]
      PROVE  FollowInv'
  <2>1. SentFollows(u)'
    BY <1>1, <1>2, <1>4, QueueFrame DEF FollowInv
  <2>2. \A v \in Users \ {u} : SentFollows(v)' /\ RowFollows(v)'
    <3>1. \A v \in Users \ {u} : Steady(v)' => Steady(v)
      BY <1>2, <1>4 DEF Steady
    <3>2. QED
      BY <1>1, <1>2, <1>4, <3>1, OtherUser
  <2>3. QED
    BY <1>4, <2>1, <2>2 DEF FollowInv
<1>5. CASE FindExpired \/ DowngradeFails \/ PruneOldEvents \/ Tick
  <2>1. row' = row /\ clock' \in {clock, clock + 1}
    BY <1>5 DEF FindExpired, DowngradeFails, PruneOldEvents, Tick
  <2>2. \A u \in Users : Steady(u)' => Steady(u)
    BY <1>2, <2>1 DEF Steady
  <2>3. QED
    BY <1>1, <2>1, <2>2, QuietFollows
<1>6. CASE DowngradeExpired
  <2>1. SUFFICES ASSUME NEW u \in Users PROVE SentFollows(u)' /\ RowFollows(u)'
    BY DEF FollowInv
  <2>2. clock' = clock
    BY <1>6 DEF DowngradeExpired
  <2>3. SentFollows(u)'
    BY <1>1, <1>2, <2>2, QueueFrame DEF FollowInv
  <2>4. CASE u \in found
    <3>1. Expired(row[u]) /\ row'[u] = [row[u] EXCEPT !.tier = "free"]
      BY <1>6, <2>4 DEF DowngradeExpired, Kept, StillExpired, OrderInv
    <3>2. QED
      BY <1>1, <1>2, <2>2, <2>3, <3>1, DowngradeFollows
  <2>5. CASE u \notin found
    <3>1. row'[u] = row[u]
      BY <1>6, <2>5 DEF DowngradeExpired
    <3>2. Steady(u)' => Steady(u)
      BY <1>2, <3>1 DEF Steady
    <3>3. QED
      BY <1>1, <1>2, <2>2, <3>1, <3>2, OtherUser
  <2>6. QED
    BY <2>4, <2>5
\* Who has no row has no subscription, and no event.
<1>7. ASSUME NEW u \in Users, UpsertUser(u)
      PROVE  FollowInv'
  <2>1. rc[u] = NoView /\ \A i \in EventIds : event[i] # Null => event[i].user # u
    BY <1>7 DEF UpsertUser, OrderInv, UsersThere
  <2>2. Waiting(u)' = {}
    BY <1>2, <2>1 DEF Waiting
  <2>3. ~Active(u)'
    BY <1>1, <2>1 DEF Active, NoView, RcActive
  <2>4. clock' = clock /\ row' = [row EXCEPT ![u] = FreshRow(NewUserTier)]
    BY <1>7 DEF UpsertUser
  <2>5. row'[u] = FreshRow(NewUserTier) /\ \A v \in Users \ {u} : row'[v] = row[v]
    BY <1>3, <2>4
  <2>6. RowFollows(u)'
    BY <2>2, <2>3, <2>5, NullAssumption
    DEF RowFollows, TierFollows, EndFollows, EndSpans, FreeIsDropped, FreshRow
  <2>7. QED
    BY <1>4, <2>4, <2>5, <2>6
<1>8. ASSUME NEW u \in Users, DeleteUser(u)
      PROVE  FALSE
  BY <1>3, <1>8 DEF DeleteUser, NoRow, Orderly
<1>9. ASSUME NEW u \in Users, GrantLifetime(u)
      PROVE  FollowInv'
  <2>1. clock' = clock /\ row' = [row EXCEPT ![u].tier = "lifetime"]
    BY <1>9 DEF GrantLifetime
  <2>2. row'[u].tier = "lifetime" /\ \A v \in Users \ {u} : row'[v] = row[v]
    BY <1>3, <2>1 DEF Row
  <2>3. RowFollows(u)'
    BY <2>2 DEF RowFollows, TierFollows, EndFollows, EndSpans, FreeIsDropped, Steady
  <2>4. QED
    BY <1>4, <2>1, <2>2, <2>3
<1>10. QED
  BY <1>5, <1>6, <1>7, <1>8, <1>9 DEF Jobs

LEMMA FollowStep ==
    ASSUME RetriesFitGrace, Kept, OrderInv, FollowInv, [Next /\ Orderly]_vars
    PROVE  FollowInv'
<1>1. CASE UNCHANGED vars
  <2>1. clock \in Nat /\ UNCHANGED <<row, rc, event, applied, clock, req>>
    BY <1>1 DEF vars, Kept, TypeInv, TypeOK
  <2>2. \A u \in Users : Steady(u)' => Steady(u)
    BY <2>1 DEF Steady, Reconciling
  <2>3. QED
    BY <2>1, <2>2, QuietFollows
<1>2. CASE Next /\ Orderly
  BY <1>2, SendFollows, WebhookFollows, SyncFollows, RestFollows DEF Next
<1>3. QED
  BY <1>1, <1>2

(***************************************************************************)
(* Order                                                                   *)
(***************************************************************************)

\* What a handler's new record must be.
NewRequest(r) ==
    /\ r.id # Null => event[r.id].user = r.user
    /\ r.stage = "expiring" => event[r.id].type \in ExpiringTypes
    /\ r.stage \in {"derived", "writing"} => r.want = DeriveDesiredState(rc[r.user], clock)
    /\ r.stage \in SyncStages => row[r.user].tier # "none"

\* Steps of this system, at one moment.
LEMMA OrderFrame ==
    ASSUME Kept, OrderInv, Orderly, UNCHANGED <<event, rc, clock>>,
           \A i \in EventIds : applied[i] > 0 => applied'[i] > 0,
           \A p \in Requests : req'[p] = req[p] \/ NewRequest(req'[p])
    PROVE  OrderInv'
<1>1. SentInOrder'
  BY DEF OrderInv, SentInOrder
<1>2. HandledInOrder'
  <2>1. SUFFICES ASSUME NEW p \in Requests, req'[p].id # Null
                 PROVE  /\ applied'[req'[p].id] = 0 /\ \A i \in EventIds : i < req'[p].id => applied'[i] > 0
                        /\ event[req'[p].id].user = req'[p].user
    BY DEF HandledInOrder
  <2>2. event[req'[p].id].user = req'[p].user
    BY <2>1 DEF OrderInv, HandledInOrder, NewRequest
  <2>3. QED
    BY <2>1, <2>2 DEF Orderly
<1>3. ExpiringHandled'
  BY DEF OrderInv, ExpiringHandled, NewRequest
<1>4. UsersThere'
  <2>1. SUFFICES ASSUME NEW u \in Users, row'[u].tier = "none"
                 PROVE  /\ rc[u] = NoView /\ ~Reconciling(u)'
                        /\ \A i \in EventIds : event[i] # Null => event[i].user # u
    BY DEF UsersThere
  <2>2. row[u].tier = "none"
    BY <2>1 DEF Orderly
  <2>3. /\ rc[u] = NoView /\ ~Reconciling(u)
        /\ \A i \in EventIds : event[i] # Null => event[i].user # u
    BY <2>2 DEF OrderInv, UsersThere
  <2>4. ~Reconciling(u)'
    BY <2>2, <2>3 DEF Reconciling, NewRequest
  <2>5. QED
    BY <2>3, <2>4
<1>5. InTime'
  <2>1. \A u \in Users : Waiting(u)' \subseteq Waiting(u)
    <3>1. \A i \in EventIds : applied[i] \in Nat
      BY DEF Kept, TypeInv, TypeOK
    <3>2. \A i \in EventIds : applied'[i] = 0 => applied[i] = 0
      BY <3>1
    <3>3. QED
      BY <3>2 DEF Waiting
  <2>2. QED
    BY <2>1 DEF OrderInv, InTime
<1>6. UpToDate'
  BY DEF OrderInv, UpToDate, NewRequest
<1>7. QED
  BY <1>1, <1>2, <1>3, <1>4, <1>5, <1>6 DEF OrderInv, Orderly

LEMMA OrderSend ==
    ASSUME Kept, OrderInv, Orderly, NEW i \in EventIds, NEW u \in Users, Send(i, u)
    PROVE  OrderInv'
<1>1. UNCHANGED <<clock, row, receivedAt, req, found, applied, touched>>
  BY SendFrame
<1>2. TypeInv /\ TypeInv'
  BY TypeSend DEF Kept
<1>3. PICK n \in NewsOf(u) :
        /\ event' = [event EXCEPT ![i] = [type |-> n.type, user |-> u, ents |-> n.ents,
                                          end |-> n.end, sentAt |-> clock]]
        /\ rc' = [rc EXCEPT ![u] = n.view]
  BY DEF Send
<1>4. /\ event[i] = Null /\ \A j \in EventIds : j < i => event[j] # Null
      /\ \A j \in EventIds \ {i} : event'[j] = event[j]
      /\ \A v \in Users \ {u} : rc'[v] = rc[v]
      /\ event'[i].user = u /\ event'[i].sentAt = clock
  BY <1>2, <1>3 DEF Send, TypeInv, TypeOK
<1>5. event'[i] # Null
  <2>1. n \in News
    BY <1>2, NewsType
  <2>2. [type |-> n.type, user |-> u, ents |-> n.ents, end |-> n.end, sentAt |-> clock] \in Event
    BY <1>2, <2>1 DEF News, Event, TypeInv, TypeOK
  <2>3. QED
    BY <1>2, <1>3, <2>2, NoEventAssumption DEF TypeInv, TypeOK
<1>6. row[u].tier # "none" /\ ~Reconciling(u)
  BY <1>4, <1>5 DEF Orderly, Reconciling
<1>7. SentInOrder'
  BY <1>4, <1>5 DEF OrderInv, SentInOrder
\* The handlers are at work on other events.
<1>8. \A q \in Requests : req[q].stage \in WebhookStages => req[q].id \in EventIds /\ req[q].id # i
  <2>1. SUFFICES ASSUME NEW q \in Requests, req[q].stage \in WebhookStages
                 PROVE  req[q].id \in EventIds /\ req[q].id # i
    OBVIOUS
  <2>2. req[q].id \in EventIds
    BY <1>2, <2>1, RequestStages DEF TypeInv, TypeOK
  <2>3. event[req[q].id] \in Event
    BY <1>2, <2>1 DEF TypeInv, KnownEvents
  <2>4. QED
    BY <1>4, <2>2, <2>3, NoEventAssumption
<1>9. \A q \in Requests : req[q].id # Null => req[q].stage \in WebhookStages
  BY <1>2 DEF TypeInv, TypeOK, Request, Idle
<1>10. HandledInOrder' /\ ExpiringHandled'
  BY <1>1, <1>4, <1>8, <1>9 DEF OrderInv, HandledInOrder, ExpiringHandled, WebhookStages
<1>11. UsersThere'
  BY <1>1, <1>4, <1>6 DEF OrderInv, UsersThere, Reconciling
<1>12. InTime'
  <2>1. SUFFICES ASSUME NEW v \in Users, NEW j \in Waiting(v)'
                 PROVE  clock <= event'[j].sentAt + RetryWindow
    BY <1>1 DEF InTime
  <2>2. CASE j = i
    BY <1>2, <1>4, <2>2, TimesAssumption DEF TypeInv, TypeOK
  <2>3. CASE j # i
    <3>1. j \in Waiting(v) /\ event'[j] = event[j]
      BY <1>1, <1>4, <2>3 DEF Waiting
    <3>2. QED
      BY <3>1 DEF OrderInv, InTime
  <2>4. QED
    BY <2>2, <2>3
<1>13. UpToDate'
  <2>1. SUFFICES ASSUME NEW q \in Requests, req[q].stage \in {"derived", "writing"}
                 PROVE  req[q].want = DeriveDesiredState(rc'[req[q].user], clock)
    BY <1>1 DEF UpToDate
  <2>2. req[q].user \in Users /\ req[q].user # u
    BY <1>2, <1>6, <2>1, RequestStages DEF Reconciling, SyncStages, TypeInv, TypeOK
  <2>3. QED
    BY <1>4, <2>1, <2>2 DEF OrderInv, UpToDate
<1>14. QED
  BY <1>7, <1>10, <1>11, <1>12, <1>13 DEF OrderInv, Orderly

LEMMA OrderTick ==
    ASSUME Kept, OrderInv, Orderly, Tick
    PROVE  OrderInv'
<1>1. UNCHANGED <<row, req, applied, rc, event>> /\ clock' = clock + 1 /\ clock \in Nat
  BY DEF Tick, externalVars, Kept, TypeInv, TypeOK
<1>2. /\ \A u \in Users : \A i \in Waiting(u) : clock < event[i].sentAt + RetryWindow
      /\ \A q \in Requests : req[q].stage \notin SyncStages
  <2>1. clock' # clock
    BY <1>1
  <2>2. QED
    BY <2>1 DEF Orderly
<1>3. \A u \in Users : Waiting(u)' = Waiting(u)
  BY <1>1 DEF Waiting
<1>4. InTime'
  BY <1>1, <1>2, <1>3, WaitingFacts, TimesAssumption DEF InTime
<1>5. UpToDate'
  BY <1>1, <1>2 DEF UpToDate, SyncStages
<1>6. SentInOrder' /\ HandledInOrder' /\ ExpiringHandled' /\ UsersThere'
  BY <1>1 DEF OrderInv, SentInOrder, HandledInOrder, ExpiringHandled, UsersThere, Reconciling
<1>7. QED
  BY <1>4, <1>5, <1>6 DEF OrderInv, Orderly

\* A record that ends a handler.
LEMMA IdleIsNew == NewRequest(Idle)
BY DEF NewRequest, Idle, SyncStages

LEMMA OrderHandler ==
    ASSUME Kept, OrderInv, Orderly, NEW q \in Requests, Webhook(q) \/ Reconcile(q) \/ HandlerFails(q)
    PROVE  OrderInv'
<1> USE DEF externalVars
<1>1. req \in [Requests -> Request] /\ clock \in Nat /\ applied \in [EventIds -> Nat]
  BY DEF Kept, TypeInv, TypeOK
<1>2. \A p \in Requests \ {q} : req'[p] = req[p]
  BY <1>1 DEF Webhook, Deliver, ProcessEvent, ExpirationSelect, ExpirationWrite, Reconcile, Sync,
              Fetch, ReconcileSelect, ReconcileWrite, HandlerFails
<1>3. UNCHANGED <<event, rc, clock>>
  BY DEF Webhook, Deliver, ProcessEvent, ExpirationSelect, ExpirationWrite, Reconcile, Sync,
         Fetch, ReconcileSelect, ReconcileWrite, HandlerFails
<1>4. \A i \in EventIds : applied[i] > 0 => applied'[i] > 0
  <2>1. ASSUME Record(req[q].id)
        PROVE  \A i \in EventIds : applied[i] > 0 => applied'[i] > 0
    BY <1>1, <2>1 DEF Record
  <2>2. Record(req[q].id) \/ applied' = applied
    BY DEF Webhook, Deliver, ProcessEvent, ExpirationSelect, ExpirationWrite, Reconcile, Sync,
           Fetch, ReconcileSelect, ReconcileWrite, HandlerFails
  <2>3. QED
    BY <2>1, <2>2
<1>5. SUFFICES req'[q] = req[q] \/ NewRequest(req'[q])
  BY <1>2, <1>3, <1>4, OrderFrame
<1>6. CASE req'[q] = Idle
  BY <1>6, IdleIsNew
<1>7. CASE \E i \in EventIds : Deliver(q, i)
  BY <1>1, <1>7 DEF Deliver, NewRequest, SyncStages
\* The user of an event and the user of a reconcile have a row.
<1>8. CASE ProcessEvent(q)
  <2>1. CASE event[req[q].id].type \notin ReconcileAfterTypes
    BY <1>1, <1>6, <1>8, <2>1 DEF ProcessEvent
  <2>2. CASE event[req[q].id].type \in ReconcileAfterTypes
    <3>1. req'[q] = [Idle EXCEPT !.stage = "reconcile", !.user = req[q].user]
      BY <1>1, <1>8, <2>2 DEF ProcessEvent
    <3>2. req[q].stage \in WebhookStages
      BY <1>8 DEF ProcessEvent, WebhookStages
    <3>3. req[q].id \in EventIds /\ event[req[q].id] # Null /\ req[q].id # Null
      BY <1>1, <3>2, RequestStages, NoEventAssumption, DedupeTypes DEF Kept, TypeInv, KnownEvents
    <3>4. event[req[q].id].user = req[q].user /\ req[q].user \in Users
      BY <1>1, <3>2, <3>3, RequestStages DEF OrderInv, HandledInOrder
    <3>5. row[req[q].user].tier # "none"
      BY <3>3, <3>4 DEF OrderInv, UsersThere
    <3>6. QED
      BY <3>1, <3>5 DEF NewRequest, Idle
  <2>3. QED
    BY <2>1, <2>2
<1>9. CASE ExpirationSelect(q)
  <2>1. CASE row[req[q].user].tier = "lifetime"
    BY <1>1, <1>6, <1>9, <2>1 DEF ExpirationSelect
  <2>2. CASE row[req[q].user].tier # "lifetime"
    <3>1. req'[q] = [req[q] EXCEPT !.stage = "expiring"]
      BY <1>1, <1>9, <2>2 DEF ExpirationSelect
    <3>2. /\ req[q] = [stage |-> "checked", id |-> req[q].id, user |-> req[q].user, want |-> Null]
          /\ req[q].id \in EventIds
      BY <1>1, <1>9, RequestStages DEF ExpirationSelect, WebhookStages
    <3>3. req'[q].id = req[q].id /\ req'[q].user = req[q].user /\ req'[q].stage = "expiring"
      BY <3>1, <3>2
    <3>4. event[req[q].id].user = req[q].user /\ event[req[q].id].type \in ExpiringTypes
      BY <1>9, <3>2, DedupeTypes DEF ExpirationSelect, OrderInv, HandledInOrder, Kept
    <3>5. QED
      BY <3>3, <3>4 DEF NewRequest, SyncStages
  <2>3. QED
    BY <2>1, <2>2
<1>10. CASE ExpirationWrite(q) \/ HandlerFails(q) \/ ReconcileWrite(q)
  BY <1>1, <1>6, <1>10 DEF ExpirationWrite, HandlerFails, ReconcileWrite
<1>11. CASE \E u \in Users : Sync(q, u)
  BY <1>1, <1>11 DEF Sync, NewRequest, Idle
<1>12. CASE Fetch(q)
  <2>1. req[q].user \in Users /\ Reconciling(req[q].user)
    BY <1>1, <1>12, RequestStages DEF Fetch, Reconciling, SyncStages
  <2>2. row[req[q].user].tier # "none"
    BY <2>1 DEF OrderInv, UsersThere
  <2>3. QED
    BY <1>1, <1>12, <2>2 DEF Fetch, NewRequest
<1>13. CASE ReconcileSelect(q)
  <2>1. CASE row[req[q].user].tier = "lifetime"
    BY <1>1, <1>6, <1>13, <2>1 DEF ReconcileSelect
  <2>2. CASE row[req[q].user].tier # "lifetime"
    <3>1. req'[q] = [req[q] EXCEPT !.stage = "writing"]
      BY <1>1, <1>13, <2>2 DEF ReconcileSelect
    <3>2. /\ req[q] = [stage |-> "derived", id |-> Null, user |-> req[q].user, want |-> req[q].want]
          /\ req[q].user \in Users
      BY <1>1, <1>13, RequestStages DEF ReconcileSelect
    <3>3. /\ req'[q].id = Null /\ req'[q].user = req[q].user /\ req'[q].stage = "writing"
          /\ req'[q].want = req[q].want
      BY <3>1, <3>2
    <3>4. req[q].want = DeriveDesiredState(rc[req[q].user], clock)
      BY <1>13 DEF ReconcileSelect, OrderInv, UpToDate
    <3>5. Reconciling(req[q].user)
      BY <1>13 DEF ReconcileSelect, Reconciling, SyncStages
    <3>6. row[req[q].user].tier # "none"
      BY <3>2, <3>5 DEF OrderInv, UsersThere
    <3>7. QED
      BY <3>3, <3>4, <3>6 DEF NewRequest
  <2>3. QED
    BY <2>1, <2>2
<1>14. QED
  BY <1>7, <1>8, <1>9, <1>10, <1>11, <1>12, <1>13 DEF Webhook, Reconcile

LEMMA OrderStep ==
    ASSUME Kept, OrderInv, [Next /\ Orderly]_vars
    PROVE  OrderInv'
<1>1. CASE UNCHANGED vars
  BY <1>1 DEF vars, OrderInv, SentInOrder, HandledInOrder, ExpiringHandled, UsersThere, Reconciling,
              InTime, Waiting, UpToDate
<1>2. ASSUME Orderly,
             Jobs \/ \E u \in Users : UpsertUser(u) \/ DeleteUser(u) \/ GrantLifetime(u)
      PROVE  OrderInv'
  <2>1. UNCHANGED <<req, event, rc, applied, clock>>
    BY <1>2 DEF Jobs, FindExpired, DowngradeExpired, DowngradeFails, PruneOldEvents, UpsertUser,
                DeleteUser, GrantLifetime, externalVars
  <2>2. QED
    BY <1>2, <2>1, OrderFrame
<1>3. CASE Next /\ Orderly
  BY <1>2, <1>3, OrderSend, OrderHandler, OrderTick DEF Next
<1>4. QED
  BY <1>1, <1>3

LEMMA OrderlyInit == Init => OrderInv /\ FollowInv
<1> SUFFICES ASSUME Init PROVE OrderInv /\ FollowInv
  OBVIOUS
<1>1. /\ \A i \in EventIds : event[i] = Null
      /\ \A q \in Requests : req[q] = Idle
      /\ \A u \in Users : rc[u] = NoView /\ row[u] = NoRow
      /\ touched = {}
  BY DEF Init
<1>2. \A u \in Users : Waiting(u) = {} /\ ~Reconciling(u) /\ ~Active(u)
  BY <1>1 DEF Waiting, Reconciling, Idle, SyncStages, Active, NoView, RcActive
<1>3. OrderInv
  BY <1>1, <1>2 DEF OrderInv, SentInOrder, HandledInOrder, ExpiringHandled, UsersThere, InTime,
                    UpToDate, Idle
<1>4. FollowInv
  BY <1>1, <1>2 DEF FollowInv, SentFollows, RowFollows, TierFollows, EndFollows, EndSpans,
                    FreeIsDropped, NoRow
<1>5. QED
  BY <1>3, <1>4

\* In an orderly environment whose retries fit the buffer, a subscriber
\* RevenueCat grants access has it here: the tier granted once every event is
\* applied, and some access while a renewal is still on its way.
THEOREM SubscribersServed ==
    ASSUME RetriesFitGrace
    PROVE  OrderlySpec => []SubscriberKeepsAccess
<1> DEFINE Inv == Kept /\ OrderInv /\ FollowInv
<1>1. Init => Inv
  BY TypeInit, StillExpiredInit, DedupeInit, OrderlyInit DEF Kept
<1>2. Inv /\ [Next /\ Orderly]_vars => Inv'
  BY TypeStep, StillExpiredStep, DedupeStep, OrderStep, FollowStep DEF Kept
<1>3. Inv => SubscriberKeepsAccess
  BY KeepsAccess
<1>4. QED
  BY <1>1, <1>2, <1>3, PTL DEF OrderlySpec

=============================================================================
