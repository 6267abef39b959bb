# A verification project for the Legacy Made API

The Legacy Made API is a NestJS service over PostgreSQL.  A user keeps an end-of-life plan,
pays for a tier through RevenueCat, and shares the plan, encrypted end to end, with trusted
contacts.  Several instances of the process may serve requests, scheduled jobs and webhooks at
once; everything shared lives in the database, at READ COMMITTED, and every call of
`DbService.rls` or `DbService.bypassRls` is a transaction of its own on a pooled connection.
So almost all of what is hard here is one pattern: a SELECT decides, and a later statement,
often in a later transaction, acts on the decision.

## The system

| Component | State | Operations | What makes it correct |
|---|---|---|---|
| Subscriptions (`src/revenuecat`, `subscription-expiration.service.ts`) | `subscriptions`, `processed_revenuecat_events` | webhook, reconcile, hourly expiration, daily prune | a lifetime membership is never lost; an event is not re-applied; who paid has access, who lapsed loses it |
| Entitlements (`src/entitlements`) | none of its own; reads subscriptions and counts rows | tier, pillar and quota checks, guard | the checks agree with the expiration job; quotas hold |
| Users (`src/users`) | `users`, first `subscriptions` row | Clerk webhook: create, update, delete | a deleted user stays deleted |
| Family access (`src/trusted-contacts`, `access-invitations`, `shared-plans`) | `trusted_contacts`, contact copies in `encrypted_deks` | invite, re-invite, accept, decline, revoke, leave, delete | ended access does not come back by itself; ended access leaves no key copy |
| Encryption (`src/encryption`) | `user_keys`, `encrypted_deks`, `key_recovery_events` | setup, register, delete, deactivate, store, rotate, escrow, recover | a copy fits the key of its version; a rotation is complete; a release of the key is logged |
| Device linking (`device-linking.service.ts`) | `device_linking_sessions` | create, deposit, claim, hourly cleanup | a payload is handed out once |
| Plan access (`src/plan-access`) and content (`entries`, `wishes`, `messages`, `plans`) | content rows | guard, then CRUD | only who has access edits; quota overshoot is bounded; one plan per user |
| Files (`src/files`) | `files` and the object store | initiate, complete, share, remove | the two stores agree |
| Reminders (`preferences`, `push-notifications`) | `user_preferences`, `notification_log`, `push_tokens` | preferences, scheduler, send | about one reminder per period, for everyone who asked |
| Cache (`src/cache`) | memory store, in-flight map | get-or-set | one factory call per key at a time |
| Database access (`src/db`) | a pool of ten connections | rls, bypassRls | requests do not exhaust the pool holding connections |

They interact through rows: the webhook, the reconcile, the expiration job and the operator
write one subscription row; family access, key management and user deletion write the same
key copies; a decline calls encryption over a second connection while its own transaction is
open.  Outside are RevenueCat (at-least-once webhooks, a REST view), Clerk (webhooks), the
object store, KMS, e-mail and push.

What is left out, and why, is under "Not modelled" below.

## Modules

| Module | What it is |
|---|---|
| `SubscriptionRow` | one subscription row as a value: what each event and a reconcile write into it, what the entitlement checks read out of it; pure operators |
| `Subscriptions` | everything that writes subscription rows, concurrently |
| `MCSubscriptions` | its instances for TLC |
| `SubscriptionsProofs` | its theorems |
| `AccessLedger` | what family access promises of a plan, each request as one step: the abstract specification |
| `TrustedContacts` | contact records of one plan, their key copies, and the requests that change them: an implementation of it |
| `MCTrustedContacts` | its instances for TLC |
| `TrustedContactsProofs` | its theorems, the proof that it is one among them |
| `EncryptionKeys` | the public keys of accounts, the copies of one plan's data key, and the requests that change either |
| `MCEncryptionKeys` | its instances for TLC |
| `EncryptionKeysProofs` | its theorems |
| `Entitlements` | what a tier allows: pillars, quotas, storage; pure operators |
| `PlanContent` | entries, wishes and messages of one plan, their log, and the requests that write them through the guards |
| `PlanContentProofs` | its theorems |
| `Files` | files attached to that content, their objects and links; EXTENDS `PlanContent`, whose deletions it cascades |
| `MCFiles` | instances of `PlanContent` and `Files` together |
| `FilesProofs` | the theorems of `Files`, and that content with files implements content alone |
| `SingleFlight` | what a cache that coalesces requests promises: the abstract specification |
| `CacheCoalescing` | `getOrSet`, await by await, an implementation of it |
| `CacheCoalescingProofs` | the proof that it is one |
| `KeyRecovery` | escrow of a plan's data key, recovery through KMS, and the audit trail |
| `DeviceLinking` | linking sessions, deposits, claims and the cleanup |
| `Reminders` | one user's preferences, the half-hourly job, the log and time |
| `RemindersProofs` | its theorems |
| `MCServices` | instances of `CacheCoalescing`, `KeyRecovery`, `DeviceLinking` and `Reminders` |
| `ServicesProofs` | the theorems of `KeyRecovery` and of `DeviceLinking`, and of the four services together |

An action is one statement another transaction can come between, or the rest of a transaction
from there to its commit.  Writes appear at commit; where another transaction would have to
wait for them, the writer passes through a stage that stands for the row lock it holds
(`RowLocked`, `KeyLocked`).  A transaction may fail, or the process die, at every stage.

### Subscriptions

A handler invocation is a record in `req`.  `Deliver` is the dedupe lookup (a transaction of
its own); `ProcessEvent` the second transaction, split into `ExpirationSelect` and
`ExpirationWrite` for expirations, which read the row first.  `Fetch`, `ReconcileSelect` and
`ReconcileWrite` are the reconcile: RevenueCat is asked before the transaction begins.
`FindExpired` and `DowngradeExpired` are the two transactions of the expiration job.
`event` and `rc` are RevenueCat's, external: a change of its view and the event that tells of
it.  A payload is reduced to its type, the entitlements it names, one end date and the time it
was sent.  `applied` and `touched` are for the properties; no guard reads them.

### AccessLedger and TrustedContacts

One plan.  A request in `req` holds what its SELECT returned; its later actions update by id,
as the code does, without reading again.  `dek` is the set of accounts that have a copy of the
plan's key.  A decline's key deletion commits on its own (`DeclineDropKey`), because
`performDecline` calls `deleteContactDekCopy` without its transaction.  `outdated` and `raced` are
for the properties: which requests had read a record whose status was written afterwards, and
which accounts were linked or given a copy while a request to end their access was under way.

`AccessLedger` knows no requests: a record goes from invited to accepted or declined, on to its
end, perhaps round again by a re-invitation, until it is deleted, and the step that ends it takes
the copy of the account it is linked to.  The refinement reads a record's state from the row, or
from the id alone once the row is gone (`Life`), the copies from `dek`, and which records are
overlapped from the requests that are outdated (`Overlapped`).  A transaction of several
statements maps to one step, at its commit; a decline's own connection is a step (`Drop`) before
it.

### EncryptionKeys

`key[u][v]` is the `user_keys` row of account `u` at version `v`; `nth` counts the keys that
have had this version and stays when a row is deleted, since the server gives the number of a
deleted newest key to the next one.  A copy is an `encrypted_deks` row; what its ciphertext
holds, the generation of the data key and the `nth` of the public key, is there for the
properties (`Fits`), and for clients, who can decrypt only what fits.

`registerPublicKey` is three statements: the SELECT takes its snapshot (`RegisterSelect`), gets
its row locks, perhaps after waiting (`RegisterLock`), and the INSERT may meet the version in
the unique index (`RegisterInsert`, `Refused`).  A rotation is prepared by a client
(`RotateRead`), checked, and split at its DELETE: copies committed between that and its INSERT
are not seen (`RotateDelete`, `RotateCommit`).  `StoreRead` is the client reading a public key,
which happens before and outside the transaction that stores the copy.  `DropCopies` includes
the row-level policy: an account deletes only copies it owns.  `overtaken` and `mixed` are for
the properties: which requests hold copies of an older data key, or have missed newer copies.

### PlanContent and Entitlements

A request in `req` is let in by `PlanAccess` (PlanAccessGuard), passes `Entitled`
(EntitlementsGuard), and enters the service's transaction: `FindOne` and `Write` for updates and
deletions, `Insert` for creations, then a commit.  Both guards look at the plan in the URL: the
first at the caller's level there, the second at the tier of its owner.  A creation goes to that
plan, but updates and deletions find their row by its id alone, and the URL may name another
plan, say the caller's own; the model then lets both guards pass and leaves the rest to the
row-level policies.  The three are separate transactions or statements, so the level (`ChangeLevel`) and
the tier (`ChangeTier`) may change between any two of them; row-level policies are evaluated
where the statement runs (`CanRead`, `CanModify`, `CanLog`).  An update writes back the merge
of the metadata it had read.  A statement whose row the policy hides changes nothing and the
service logs all the same, so that a contact who may only look can log a deletion that has
deleted nothing; `hit` says which.  `had`, `missed` and `doubtful` are for the
properties.

### Files

A file is a row in `file` and an object in the bucket, `object`; no transaction spans both.
`InitGuard`, `InitCheck`, `InitInsert`, `InitCommit` are an upload's guard, its storage check,
the row and the answer with the URL; the client puts the object when it likes while the URL
is valid (`ClientPuts`, `UrlExpires`), and completes.  A completion that names parts has R2
assemble them before the row says so (`CompleteAssemble`); one that names none is believed, for
any file, and nobody looks whether the object is there.  `early` records such a completion, for
the properties, as `lost`, `foreign` and `unseen` record other exceptions.  A removal selects, deletes the objects, and then the row.  `RowsCascade` goes
with every step of PlanContent: a row's files go with it, their objects do not.  The file
routes carry no plan id, so the access guard is not on them and the entitlement checks ask for
the caller's tier: the model lets policies decide, and leaves a contact's quota open.

### SingleFlight and CacheCoalescing

Between two awaits JavaScript is not interrupted, so an action of `CacheCoalescing` runs from
one await to the next, and `inFlight` is the map entry.  The abstract specification knows only
the value, whether the factory runs, and which values each waiting caller may be answered with.
The refinement reads `value` from the store, `calling` from a leader that calls or stores, and
`held` from those who carry a value.

### KeyRecovery

A recovery is `Fetch` (with `Missing` and `FetchLost`), the call to KMS (`Decrypt`), `Complete`
(or `CompleteLost`: the commit succeeds and nobody learns of it), `Release`, and on failure
`Fails` and `LogFailed`, each a transaction or a call of its own, any of which may be the last
one the process does (`Ends`).  An enabling first has KMS decrypt what the client sent, which
may be garbage.  `late` holds the requests that a rotation has come after, and `behind` says
whether the copy was last written by one of them, or a rotation has come since; both are for
`EscrowKeepsUp` and are computed without looking at what the copy holds.  The data key is a
number; `EncryptionKeys` has its rotation in steps, here it
is one.

### DeviceLinking

A deposit and a claim each select the session and then update it by id.  `outdated` and
`crossed` say which requests had read a session another one wrote since, and which sessions
such a request has written.

### Reminders

Time is a slot of the day and a moment within it; the job's query and its sending are moments
of their own, because "a period ago" is compared with the moment of the last sending.  The job
has no lock and runs on every instance: `Runs` are the runs in flight, `due` those that have the
user in their list, and each deals with its list without looking at the log again.  Time does
not wait for them.  `prefs`
is the row with its three states of `reminders` (on, off, never said), `enabled` the age that
the query falls back to when nothing was sent.  A PATCH reads, merges and writes in one
transaction, without a lock.  `wish`, `pushed`, `burst`, `unsure`, `listed`, `unlogged` and
`trouble` are for the properties.

## What the runs show

| Run | Shows |
|---|---|
| `subscriptions` | With two handlers in any order, crashes, duplicate deliveries and the jobs in between: a lifetime membership survives everything but a grant that lands inside the expiration job (`LifetimeSafe`); nobody the job selects still has access (`FoundAreLapsed`); an event is applied at most once per concurrent handler (`BoundedReapplication`; the schema's "duplicate deliveries ... are no-ops" is more than the code does); a reconcile that writes current data leaves the tier RevenueCat grants (`SyncAligns`). |
| `subscriptions_orderly` | When deliveries come in order and within RevenueCat's retry window, a subscriber RevenueCat grants access has it, also while a renewal is on its way (`SubscriberKeepsAccess`), and a lapsed one is downgraded (`LapsedIsDowngraded`). |
| `subscriptions_stale_downgrade` | The job overwrites a renewal that commits between its two transactions. |
| `trusted_contacts` | An old invitation link does not bring back ended access (`EndedStaysEnded`), and the step that ends access takes the account's key copy (`EndingDropsKey`), up to the races the properties name; and all requests together implement `AccessLedger` (`KeepsLedger`). |
| `trusted_contacts_progress` | Every request ends, unless it is in the one lock cycle that runs through the Node process. |
| `trusted_contacts_decline` | That cycle is reachable: a decline and a delete of the same contact wait for ever. |
| `trusted_contacts_revoked` | The copy shared with an invitation outlives the revocation of the invitee. |
| `encryption_keys` | A copy an owner made for one of their keys goes when the key does, so no reused version meets it (`OwnCopiesFollowKeys`); copies of two data keys lie side by side only after an overlap (`OneDataKey`). |
| `encryption_keys_contact_copies` | A contact who deletes a key leaves the copies plan owners stored for it: the row-level policy hides them from the delete. |
| `plan_files` | Content: concurrent creations overshoot the quota only by the requests in flight (`QuotaOvershoot`); who has no edit access, or loses it, stays out, however early the guard asked, and about whatever plan (`EditsByEditors`); log and tables agree (`LogIsTrue`); a metadata key goes only by a patch that names it (`UntouchedKeysStay`). Files: storage is exceeded only by uploads in flight (`StorageBounded`); a complete file, and a link that opens, has its object (`CompleteHasObject`, `LinksLeadToObjects`); a removed file's object is gone (`RemovedIsGone`). Each up to the exceptions it names. |
| `plan_files_viewers` | A contact with `full_view` who removes a file deletes the object; the row, which the policy protects, stays. |
| `services` | Cache: `getOrSet` implements `SingleFlight` (`Coalesces`) and everyone is answered (`AskersAnswered`). Recovery: the audit trail is true whatever fails (`TrailIsTrue`), a revocation holds (`RevokedStaysClosed`), an enabling that begins after a rotation leaves a copy of the new key (`EscrowKeepsUp`). Linking: one claim gets the payload (`OneHandover`), sessions do not go back (`NeverReopened`) and end (`SessionsEnd`). Reminders: in a period no more often than runs overlap (`SpacedOut`), not when off (`OffMeansOff`), not too late (`RemindersInTime`), and again and again (`RemindersGoOn`). |

The exceptions inside the passing properties are part of what they say.  `LifetimeSafe` names
the single way to lose a membership.  `EndedStaysEnded` allows the acceptance that had read
the invitation while it was pending: `performAccept` updates by id whatever the status is.
`KeepsLedger` allows a record out of the order of its life while it is overlapped, and only then:
two acceptances of one invitation, or a decline that commits after an acceptance.
`LogIsTrue` allows a "deleted" entry for a row that is still there, when its author could read
the row but not modify it: by the URL of another plan, or after losing edit access on the way.
The schema calls the log critical for accountability (schema.ts:548-552), which such an entry
hardly serves; what the property adds is that nothing else, no concurrent deletion or failure,
makes log and tables differ.  `CompleteHasObject` and `LinksLeadToObjects` allow the file that
was called complete, without parts, before its object was there.  `UntouchedKeysStay` allows the update that writes back
metadata it had read before another one.  `OneHandover` and `NeverReopened` allow requests that
overlap: both UPDATEs go by id, whatever has become of the session.

Of the reminders, the model shows what is worth knowing.  Three of the points contradict a
comment:

- A preferred time exactly between two runs (15 minutes from both) is in neither window, since
  the comparison is strict: such a user is never reminded (`Covered` excludes it).
  preferences.service.ts:172 speaks of a window of "±15 min", which this user is in.
- Two runs that overlap both list and push a user, since neither sees what the other has not
  logged.  `SpacedOut` is therefore a bound on a burst, not one push in a period: as many pushes
  as runs overlap, and no more, since a run that starts after the first is logged does not list
  the user.
- A reminder comes a day after its period ends: the query on that day runs a moment before the
  moment of the last sending, and the next chance is a day later.  The same holds after a failed
  push: the next chance is tomorrow's window and not, as reminder-scheduler.service.ts:57-58
  says, "the next cron run", which the window does not reach.  `RemindersInTime` speaks of times
  without such trouble only; after it, there is no bound but `RemindersGoOn`'s "again".
- A row that a time zone made first has empty notification preferences, and the query does not
  find it; registering a device then makes no defaults, since there is a row, although
  preferences.service.ts:147-148 and push-notifications.service.ts:27-29 say that it is done so
  that the scheduler can find the user.  A user with defaults only, who never changed them, is
  measured by `updated_at`, which every start of the app sets anew.  `RemindersGoOn` promises
  reminders to who asked for them, or has had one and not objected (`Asked`); not to these.
- A reminder for a user without a device is logged as sent.
- A PATCH that had read the preferences before another one writes back what it read.

### Bounds

Subscriptions: one user (rows of different users meet only in the expiration job, which treats
each alike), two events, two handlers (the races are between a read and one other write), a
clock of three units with a period, a grace and a retry window that let an end, its buffer and
a pruned record all happen.  The orderly run has one handler and every class of event and
payload.  TrustedContacts: two requests (each hazard is a race of two), two contact ids so that
a record can be deleted and made again under a link that still exists, one address, two
accounts.  The progress run has one account, whose links and copies are enough for every wait.
`SpareId` keeps an insert from starting when no id is left for it, since real ids do not run
out.  EncryptionKeys: the owner has two versions, each given to two keys in turn, and the contact
one key; two data keys, so one rotation or a second setup; two requests.  A mix needs one write
that overlaps one rotation, and a reused version needs the second key only.

`MCFiles` asks only what its scenario allows, so that each hazard gets the ids and requests it
needs and no others: `quota` (three entries on a plan with room for one), `edit` (one message
and one metadata key: any number of keys behaves as one that is named and one that is not),
`uploads` (three files of 2 MB against 3 MB), `links` (one file, single or multipart, through its life, with
expiring URLs and completions before its object is there) and `removals` (a file under another, room for two).  Two content requests, two file
requests and one contact, since each hazard is a race of two and the contacts' levels are
independent of each other.  Multipart is one file of the three.

`MCServices` has four services that share no variable; a behaviour runs one of them, so that
their instances add up instead of multiplying.  Cache: three callers, so that one can lead, one
join and one come late, and two values.  Recovery: three requests (an enabling, a revocation and
a recovery between them) and two data keys.  Linking: one session and four requests (two
deposits and two claims).  Reminders: two runs a day with two moments each, a period of two days,
two preferred times, of which one lies exactly between two runs, two time zones, two PATCHes, two
runs of the job at once (`Runs`).  `MaxRequests` allows two changes by the user or failures in a
behaviour, besides a first device at the start, and ages are not counted beyond what is compared
with them.  A PATCH ends in its slot and a run on its day (`InBounds`), the user acts in the first
moment of a slot (`ByUser`), and runs whose lists are alike take turns in a fixed order
(`FirstFree`, `LastAlike`).

### Fairness

`JobFairness`: the hourly job runs again and again (weak fairness of its search), and its
second transaction does not fail for ever (strong fairness).  `FairSpec` of TrustedContacts: a
statement that is not blocked runs; strong fairness, because PostgreSQL queues the waiters of a
row lock; and PostgreSQL's own deadlock detection (`DeadlockDetected`), which fails one of two
transactions that wait for each other.  New requests are never assumed to come.
`CacheFairness`: an awaited promise settles, as a value or a failure.  `LinkFairness`: time
passes and the hourly cleanup runs without failing for ever.  Reminders: time passes; a run with a list
works through it (weak fairness of `Sends`); no single run is assumed to happen, but a user some
run would find again and again is found again and again, and sending does not fail for ever
(strong fairness); the user's requests, PATCHes included, need not end.

## What is proved

`SubscriptionsProofs` proves for any numbers of users, handlers and events and any grace,
period and retention:

- `TypeCorrect`: `Spec => []TypeOK`.  Inductive as `TypeInv`, which adds that a handler past
  its lookup works on an event that was sent (`KnownEvents`).
- `FoundNeverHaveAccess`: `Spec => []FoundAreLapsed`.  The invariant behind it is
  `StillExpired`: a row found by the job and not written since still satisfies the job's
  condition, because only writes and time change it and time only moves away from the end.
  From there the two computations of the grace are compared (`ExpiredIsLapsed`).
- `LifetimeNeverLost`: `Spec => LifetimeSafe`, by cases on the actions: every UPDATE of a
  handler carries the `notLifetime` condition (`LifetimeUntouched`), and the job changes a
  lifetime row only if it was touched after it was found (`StillExpired` again).
- `SyncsAlign`: `Spec => SyncAligns`, from what a reconcile writes (`ReconcileFacts`) and what
  the checks make of a row that carries the tier and end of a running subscription
  (`RunningRow`): the webhook's, the reconcile's and the checks' ideas of an end agree.
- `AppliedOncePerHandler`: `Spec => []BoundedReapplication`, from `DedupeInv`: an event that was
  applied is in the log, or has been pruned from it and is too old to be delivered again (here
  the retention must not be shorter than the retries), and the handlers at work on an event
  and its applications number together no more than the handlers there are.
- `SubscribersServed`: `OrderlySpec => []SubscriberKeepsAccess`, if the retries fit the grace
  buffer (`RetriesFitGrace`: about 2.5 hours of retries, 24 hours of buffer).  What RevenueCat
  grants and what the row says differ by the events still waiting, and the invariant says how:
  the last waiting event that sets the tier brings RevenueCat's tier, the last that sets the
  end brings its end (`SentFollows`), and what no waiting event sets is in the row already
  (`RowFollows`); an end the queue replaces lies after the events behind it were sent, so it
  has not been past for longer than the retries take.  `OrderInv` is the order itself: events
  are handled in the order they were sent in, and a reconcile under way is up to date.

  Two attempts at this proof failed for a reason.  With several handlers, order alone is not
  enough: two that pass the dedupe lookup together apply one event twice, the second time
  perhaps after a later event, and a subscriber loses access.  `Orderly` therefore asks that an
  event is handled once.  And with retries longer than the buffer the job downgrades a subscriber
  whose renewal is still being retried; hence the hypothesis, which the instance of
  `subscriptions_orderly` meets with nothing to spare.

`TrustedContactsProofs` proves for any ids, addresses, accounts and number of requests:

- `TypeCorrect` (`[]TypeOK`), `EndedNeverReturns` (`EndedStaysEnded`) and `EndingTakesKey`
  (`EndingDropsKey`).  Both properties need to know what a request under way can rely on, which
  `ContactInv` says: an acceptance that is not outdated has read an invitation that is still alive
  (`Fresh`); a request that ends a record and has not yet dropped copies knows the account it is
  linked to, or the account raced (`Knows`); the row a re-invitation has locked is there (`Holds`).
  `StatusChange` then names the commit behind any change of status.
- `LedgerKept`: `Spec => KeepsLedger`, the refinement, step by step.  `ContactInv` is not enough:
  `LedgerInv` adds that a request which is not outdated still finds the record in the status its
  SELECT returned, linked to the account it returned unless that account is gone (`Reads`), and
  that only accounts that exist have copies.  A commit outdates whoever else has read its record
  (`CommitReads`), so what a request acts on is what it has read, or the record is overlapped
  (`CommitMoves`); and the copy it takes is the linked account's, one that is not there, or the
  record is overlapped (`EndingTakesCopy`).
- `OthersKeepCopies` and `DeletedIsGone` then follow from the ledger alone: ending one contact's
  access takes nobody else's copy, unless the record was written in between, and no request
  brings back a contact that was deleted.

`EncryptionKeysProofs` proves for any accounts, bounds and number of requests:

- `TypeCorrect`: `Spec => []TypeOK`, with the unique index as part of the type.  Inductive as
  `TypeInv`, which adds `RequestsFit`: what a request holds fits its stage, and the copies a
  client sends have a slot each.
- `OwnCopiesNeverLeft`: `Spec => OwnCopiesFollowKeys`.  A new key takes a version where no key
  is, so nothing fitted there before (`NewKeyKeepsOwn`); a key that goes takes its copies
  (`LostKeyKeepsOwn`).
- `NeverMixedUnnoticed`: `Spec => []OneDataKey`.  `OneDataKey` says nothing of requests under
  way and is not inductive.  `GenInv` is: while nothing is mixed there is one generation that the
  copies have and also the stores under way that were not overtaken (two such stores must agree
  with each other even when all copies are deleted in between), and a rotation not overtaken
  has found every copy there is.

`PlanContentProofs` proves for any contacts, ids, metadata keys and number of requests:

- `ContentTypes` (`Spec => []TypeOK`), `LogTruth` (`[]LogIsTrue`), `EditorsOnly`
  (`EditsByEditors`) and `KeysStay` (`UntouchedKeysStay`), all from `ContentInv`.  None is
  inductive without knowing what a request under way holds: a creation's id is its own and not
  yet used (`RequestsOK`), a row lock has one holder whose row is still there (`LocksHeld`), the
  author of a statement that has run could modify, or is recorded as one who could not
  (`AuthorsMay`), whatever plan the guard had looked at, and what an update writes back is a merge with the row as it is, or the row
  has changed since (`MergesHold`).  `RowChange` then names the request behind any change.
- `Overshoot` (`[]QuotaOvershoot`), from `QuotaInv`: on a plan that was never anything but free,
  the entries there are and the creations the guard has let in number together less than the
  limit and the requests.  Only `Entitled` adds to that union, and it has just counted fewer
  entries than the limit; a commit moves an id from one part to the other.

`FilesProofs` proves for any ids, sizes and numbers of requests, from the theorems on content:

- `ContentRefined`: `FilesSpec => Spec`.  Every step of content and files together is a step of
  content, or leaves it as it is; so what is proved of content alone is true with files too
  (`ContentWithFiles`).
- `FileTypesTheorem` (`[]FilesTypeOK`), `CompleteFiles` (`[]CompleteHasObject`), `LinksLead`
  (`[]LinksLeadToObjects`) and `Removed` (`RemovedIsGone`), from `FilesInv`.  None is inductive
  while nothing is known of the requests between the stores: an upload's id is its own and no
  file yet (`UploadsOwn`), a completion about to write the row has an object that R2 has assembled,
  or that was there or recorded as missing when it began (`CompletersRight`), a share past its
  SELECT is still right about the status (`SharersRight`), and a removal has
  seen all children of its file but those that are named `unseen` (`RemoversSaw`).
- `StorageBound`: `[]StorageBounded`, from `StorageInv`: the owner's files and the owner's
  uploads that have passed the check take together at most what the tiers allowed and one file
  for each other request.  Only the check adds to that union, and it has just found room.

`CacheCoalescingProofs` proves `Coalescing`: `CacheSpec => Coalesces`, the refinement, step by
step, from `CacheInv`: the map names the one request that leads, a leader that found nothing has
no value beside it (`NothingYet`), and who waits may be answered with whatever is there or on
its way (`Offered`).  `CacheTypes` is its type invariant.

`ServicesProofs` proves of `KeyRecovery` `EscrowTypes`, `TrailTruth`, `EscrowFreshness` and
`Revocation` from `EscrowInv`: the step of a request and its trail fit (`TrailFits`), and while
escrow is revoked there is no copy and whoever holds one had read it before (`ClosedInv`).
`EscrowFreshness` needs more, `FreshInv`: an enabling under way carries the current data key, or
garbage, unless a rotation has come since it began; KMS's trial and the check of ownership are
steps on which it may wait.  Of
`DeviceLinking` it proves `LinkTypes`, `Handover` and `Reopening` from `LinkInv`: a request
that is not outdated knows the session as it is (`UpToDate`), and a payload is with one claim
only when the session is completed or deleted (`Handed`).  Of the four services together it
proves `RunsServices`: `MCSpec` implies the specification of each, since a step of one leaves the
variables of the others alone; what the run `services` finds out about each is therefore about
that service, and what is proved of each holds of all, `ServicesTypes` (`[]ServicesTypeOK`) first.

`RemindersProofs` proves for any division of the day, window, period, times, zones and number of
PATCHes `ReminderTypes` (`[]RemindersTypeOK`), `Spacing` (`[]SpacedOut`) and `OffIsOff`
(`OffMeansOff`), for any number of runs, from `RemindersInv`: the log is at least as recent as
the latest push that was logged (`Logged`), within a period of such a push the runs that have the
user in their lists and the pushes so far number together no more than the runs (`Bursts`), since
nobody lists the user again, a PATCH that is not outdated has read the reminders as they are or
will fail (`Current`), reminders are on against the user's wish only after such a PATCH
(`Obeyed`), and each run's list goes by that wish or is older than it (`Heeded`).

`InTime` there is `[]RemindersInTime`: a bound that needs no fairness, since a slot
without a run, or at whose end a run is unfinished, counts as trouble, and trouble is what the
property excludes.  `Punctual` says for every slot that is near the preferred time (`Near`) that the age of the last reminder exceeds the period by no more than the time since
that slot last ended, and one slot; `NothingDue` is the half of it between the query and the
end of the slot.  That a slot covered in the sense of `RemindersInTime`, the difference taken
round the clock, is one the query's own distance finds, is arithmetic on remainders
(`NearOnTheClock`), in every time zone.  The proof gives one moment less than the bound stated.

They assume what the modules' ASSUMEs say of the constants: times are numbers, event types and
entitlements are those the configuration knows, and the dedupe log is kept at least as long as
RevenueCat retries; that the plan's owner is an account and the bounds of EncryptionKeys are
positive; that there is some request on files; that the runs of the job at one time are finitely
many, and some; that the value for NULL is no event, number or
status.  The bounds are constants like any other: they may be as large as one likes.  One
theorem has a hypothesis of its own, `RetriesFitGrace` above.

Only model-checked: liveness under fairness (`LapsedIsDowngraded`, `RequestsFinish`,
`AskersAnswered`, `SessionsEnd`, `RemindersGoOn`), which is out of the prover's reach, as is
ENABLED.  Every other property of the passing runs is stated by a theorem.  Induction over data
is out of reach too, since the library's induction theorems take an operator as a parameter;
where a least event is needed, it is the minimum of a set of numbers under a well-founded order
(`LeastEvent`).

## Where the code differs from what it says

Five runs are expected to fail, each on a sentence of the repository; `PROJECT.json` quotes it.

- `subscriptions_stale_downgrade`: the expiration job writes what an earlier transaction found.
- `trusted_contacts_decline`: a decline and a delete deadlock across two connections.
- `trusted_contacts_revoked`: the copy of an invitee revoked while pending stays.
- `encryption_keys_contact_copies`: a contact's deleted key leaves the copies owners stored.
- `plan_files_viewers`: `FilesService.remove` deletes objects before the database has said
  whether the caller may.

## Not modelled

- Progress: an upsert of one row per plan and key, where the last writer wins.
- E-mail and push as such: output, sent best effort; where a failure changes state (reminders)
  it is an action.
- Authentication, request context, configuration, health, bootstrap, input validation: wiring
  and conversions without state that another request meets.
- The pool of ten connections.  That a decline opens a second connection is in TrustedContacts;
  which mix of such requests exhausts the pool is a question of load.
- `plans.getOrCreate`: two first requests make two plans, since the schema has no unique
  constraint; nothing in the code could keep the opposite.
- The order of Clerk's updates: names and addresses are overwritten by whatever comes last.
- Two contact addresses of one account: TrustedContacts has one address, PlanContent one level
  per account.
- The activity log of contacts and plans; that of content is in PlanContent.
- Listings, downloads and shared-plan views: they only read.

Sentences of the repository that the models contradict and no run reports: "Only device keys can
be deactivated" (encryption.service.ts:194, :212), since a deactivation updates by version what it
read by version, and a recovery key can have got the version in between (`DeactivateCommit`);
"Logs all recovery attempts" (schema.ts:955), since an attempt without escrow rolls its own event
back (`Missing`); "duplicate deliveries ... are no-ops" (schema.ts:1137-1139); and those on
reminders above.

`PROJECT.json` lists every component, and under its hazards each one without a property with
the reason.
