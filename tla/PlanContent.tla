---------------------------- MODULE PlanContent ----------------------------
(***************************************************************************)
(* The content of one plan (entries, wishes, messages) and the requests    *)
(* that write it, by the plan's owner and by trusted contacts.             *)
(*                                                                         *)
(* A request passes PlanAccessGuard and EntitlementsGuard, each with a     *)
(* transaction of its own, and then the service's transaction: one action  *)
(* per statement that another transaction can come between.  Row-level     *)
(* policies are conditions of the statements they guard.  Writes appear at *)
(* commit; until then a request in step "written" holds its row's lock.    *)
(*                                                                         *)
(* The three services are the same code over different tables; what        *)
(* differs between them are the route decorators and the read policy       *)
(* (Routes, ReadLevels).  Metadata is the set of keys it has: a patch sets *)
(* some and strips others (null), or is absent.                            *)
(*                                                                         *)
(* Left out: requests that only read; progress (last write wins); titles,  *)
(* notes and order, which an update overwrites blindly.                    *)
(***************************************************************************)
EXTENDS Entitlements, FiniteSets

CONSTANTS
    Owner,      \* the plan's owner
    Contacts,   \* accounts that may be trusted contacts of the plan
    Ids,        \* content ids, each used once
    KindOf,     \* the table an id belongs to
    Keys,       \* metadata keys
    Requests,   \* requests in flight at once
    TiersSeen,  \* bound: the tiers the owner moves between
    Null        \* SQL NULL, undefined

Kinds == {"entry", "wish", "message"}
Levels == {"full_edit", "full_view", "limited_view"}

ASSUME ContentAssumption ==
    /\ Owner \notin Contacts
    /\ Null \notin Ids \union Contacts \union {Owner}
    /\ KindOf \in [Ids -> Kinds]
    /\ TiersSeen \subseteq Tiers
    /\ IsFiniteSet(Ids) /\ IsFiniteSet(Requests) /\ Requests # {}

VARIABLES
    tier,       \* the owner's tier as the entitlement checks see it
    level,      \* access level of an accepted contact with immediate access
    row,        \* the content tables
    used,       \* ids ever inserted
    log,        \* plan_activity_log: what is logged of an id
    req,        \* the requests in flight
    \* Observation only: no action's guard reads these
    had,        \* the tiers the owner has had
    missed,     \* what happened behind a request's back
    doubtful    \* ids whose deletion was logged by who could not modify them

vars == <<tier, level, row, used, log, req, had, missed, doubtful>>

NoRow == [meta |-> {}, there |-> FALSE]
Row == [meta : SUBSET Keys, there : {TRUE}]

NoPatch == [set |-> {}, strip |-> {}, given |-> FALSE]
Patch == [set : SUBSET Keys, strip : SUBSET Keys, given : {TRUE}] \union {NoPatch}

Events == {"created", "updated", "deleted"}
Ops == {"create", "update", "delete"}

(***************************************************************************)
(* known     the access guard has passed                                   *)
(* entitled  the entitlements guard has passed                             *)
(* read      the row was found; meta is what to write                      *)
(* written   the statement has run; hit says whether it found its row      *)
(***************************************************************************)
Steps == {"idle", "known", "entitled", "read", "written"}

Request == [step : Steps, op : Ops, by : Contacts \union {Owner, Null}, id : Ids \union {Null},
            patch : Patch, meta : SUBSET Keys, hit : BOOLEAN]

Idle == [step |-> "idle", op |-> "create", by |-> Null, id |-> Null, patch |-> NoPatch,
         meta |-> {}, hit |-> FALSE]

\* row: another request changed the row since this update read it; level: the
\* author of this deletion could not modify the row when it was read, or their
\* access changed before the DELETE; after: it changed when a statement had run.
Misses == {"row", "level", "after"}

TypeOK ==
    /\ tier \in Tiers
    /\ level \in [Contacts -> Levels \union {"none"}]
    /\ row \in [Ids -> Row \union {NoRow}]
    /\ used \subseteq Ids
    /\ log \in [Ids -> SUBSET Events]
    /\ req \in [Requests -> Request]
    /\ had \subseteq Tiers
    /\ missed \in [Requests -> SUBSET Misses]
    /\ doubtful \subseteq Ids

Init ==
    /\ tier \in TiersSeen
    /\ level = [c \in Contacts |-> "none"]
    /\ row = [i \in Ids |-> NoRow]
    /\ used = {}
    /\ log = [i \in Ids |-> {}]
    /\ req = [q \in Requests |-> Idle]
    /\ had = {tier}
    /\ missed = [q \in Requests |-> {}]
    /\ doubtful = {}

(***************************************************************************)
(* Routes and policies                                                     *)
(***************************************************************************)
EntryRoutes == [pillar |-> "important_info", feature |-> "entries"]
WishRoutes == [pillar |-> "wishes", feature |-> "wishes"]
MessageRoutes == [pillar |-> "messages", feature |-> "legacy_messages"]

Routes(k) == CASE k = "entry" -> EntryRoutes [] k = "wish" -> WishRoutes [] OTHER -> MessageRoutes

EntriesRead == {"full_edit", "full_view"}
WishesRead == Levels
MessagesRead == Levels

ReadLevels(k) == CASE k = "entry" -> EntriesRead [] k = "wish" -> WishesRead [] OTHER -> MessagesRead

\* userHasAccessToPlan; level is "none" unless accepted and immediate.
HasAccess(u, levels) == u \in Contacts /\ level[u] \in levels

CanRead(u, k) == u = Owner \/ HasAccess(u, ReadLevels(k))

\* Mutation: that the guard let the request in is enough.
CanModifyAny(u) == u = Owner \/ u \in Contacts

CanModify(u) == u = Owner \/ HasAccess(u, {"full_edit"})
CanLog(u) == u = Owner \/ HasAccess(u, Levels)

\* Bound: an id is left for every creation under way and one more.
Spare(k) ==
    Cardinality({q \in Requests : req[q].op = "create" /\ req[q].step # "idle"})
        < Cardinality({i \in Ids \ used : KindOf[i] = k})

(***************************************************************************)
(* Guards                                                                  *)
(***************************************************************************)
Asked(op, u, i, p) ==
    [step |-> "known", op |-> op, by |-> u, id |-> i, patch |-> p, meta |-> {}, hit |-> FALSE]

\* PlanAccessGuard.canActivate on a route that writes.  It looks at the plan in
\* the URL.  That is where a creation goes, but updates and deletions find
\* their row by its id alone: the URL may name another plan, which the author
\* owns or edits, and then the guard says nothing about this one.
\* The request is created with it: nothing is read before.  A creation is given
\* its id here (defaultRandom) and its metadata.
PlanAccess(q, op, u, i, p) ==
    /\ req[q] = Idle
    /\ \/ u = Owner \/ HasAccess(u, {"full_edit"})
       \/ op # "create"
    /\ IF op = "create" THEN i \notin used /\ \A r \in Requests : req[r].id # i ELSE i \in used
    /\ op = "update" \/ p = NoPatch
    /\ req' = [req EXCEPT ![q] = Asked(op, u, i, p)]
    /\ UNCHANGED <<tier, level, row, used, log, had, missed, doubtful>>

\* countUsageInTx
Existing(k) == {i \in Ids : row[i].there /\ KindOf[i] = k}
CountUsage(k) == Cardinality(Existing(k))

\* Mutation: the quota compared with <= .
CheckEntitlementsLate(q) ==
    LET k == KindOf[req[q].id]
    IN  /\ EvaluatePillarAccess(tier, Routes(k).pillar)
        /\ req[q].op = "create" => EvaluateQuota(tier, Routes(k).feature, CountUsage(k) - 1)

\* checkGuardEntitlements: pillar, view pillar and, for creations, the quota; of
\* the tier of the owner of the plan in the URL, whoever asks.
CheckEntitlements(q) ==
    LET k == KindOf[req[q].id]
    IN  /\ EvaluatePillarAccess(tier, Routes(k).pillar)
        /\ EvaluateViewPillarAccess(tier, Routes(k).pillar)
        /\ req[q].op = "create" => EvaluateQuota(tier, Routes(k).feature, CountUsage(k))

\* The request at a step, with what to write and what its statement found.
Advance(q, step, meta, hit) ==
    req' = [req EXCEPT ![q] = [step |-> step, op |-> req[q].op, by |-> req[q].by, id |-> req[q].id,
                               patch |-> req[q].patch, meta |-> meta, hit |-> hit]]

Finish(q) == req' = [req EXCEPT ![q] = Idle]

Entitled(q) ==
    /\ req[q].step = "known"
    /\ \/ CheckEntitlements(q)
       \/ req[q].op # "create"      \* with another plan's URL, of another tier
    /\ Advance(q, "entitled", {}, FALSE)
    /\ UNCHANGED <<tier, level, row, used, log, had, missed, doubtful>>

(***************************************************************************)
(* The services                                                            *)
(***************************************************************************)
Locked(i, q) ==
    \E p \in Requests \ {q} :
        req[p].id = i /\ req[p].op # "create" /\ req[p].step = "written" /\ req[p].hit

\* INSERT, checked by the write policy.
Insert(q) ==
    /\ req[q].step = "entitled"
    /\ req[q].op = "create"
    /\ CanModify(req[q].by)
    /\ Advance(q, "written", {}, TRUE)
    /\ UNCHANGED <<tier, level, row, used, log, had, missed, doubtful>>

\* Mutation: a request without metadata clears it.
MergeOrClear(base, patch) == IF patch.given THEN (base \union patch.set) \ patch.strip ELSE {}

MergeMetadata(base, patch) ==
    IF patch.given THEN (base \union patch.set) \ patch.strip ELSE base

\* findOneInTx, and the merge of what it returned.  Who may read the row passes,
\* and may not be one who can modify it.
FindOne(q) ==
    LET r == req[q]
    IN  /\ r.step = "entitled"
        /\ r.op \in {"update", "delete"}
        /\ row[r.id].there
        /\ CanRead(r.by, KindOf[r.id])
        /\ Advance(q, "read",
                   IF r.op = "update" THEN MergeMetadata(row[r.id].meta, r.patch) ELSE {}, FALSE)
        /\ missed' = IF r.op = "delete" /\ ~CanModify(r.by)
                     THEN [missed EXCEPT ![q] = @ \union {"level"}] ELSE missed
        /\ UNCHANGED <<tier, level, row, used, log, had, doubtful>>

\* UPDATE or DELETE by id.  The policy hides the row from an author who may
\* not modify it, and the statement then changes nothing.
Write(q) ==
    LET r == req[q]
        hit == row[r.id].there /\ CanModify(r.by)
    IN  /\ r.step = "read"
        /\ ~Locked(r.id, q)
        /\ Advance(q, "written", r.meta, hit)
        /\ UNCHANGED <<tier, level, row, used, log, had, missed, doubtful>>

\* Mutation: nothing is logged.
LoggedNothing(i, event) == log' = [log EXCEPT ![i] = @ \ {event}]

\* The log entry of the same transaction, subject to its own policy.
Logged(i, event) == log' = [log EXCEPT ![i] = @ \union {event}]

\* Others past their SELECT of the row have missed what becomes of it.
Misled(q) ==
    missed' = [p \in Requests |->
                IF p = q THEN {}
                ELSE IF /\ req[q].hit /\ req[p].id = req[q].id
                        /\ req[p].op = "update" /\ req[p].step = "read"
                     THEN missed[p] \union {"row"}
                     ELSE missed[p]]

CommitCreate(q) ==
    LET r == req[q]
    IN  /\ r.step = "written"
        /\ r.op = "create"
        /\ CanLog(r.by)
        /\ row' = [row EXCEPT ![r.id] = [meta |-> {}, there |-> TRUE]]
        /\ used' = used \union {r.id}
        /\ Logged(r.id, "created")
        /\ Finish(q)
        /\ Misled(q)
        /\ UNCHANGED <<tier, level, had, doubtful>>

\* Mutation: an update that found no row is written all the same.
CommitUpdateAnyway(q) ==
    LET r == req[q]
    IN  /\ r.step = "written"
        /\ r.op = "update"
        /\ CanLog(r.by)
        /\ row' = [row EXCEPT ![r.id].meta = r.meta]
        /\ Logged(r.id, "updated")
        /\ Finish(q)
        /\ Misled(q)
        /\ UNCHANGED <<tier, level, used, had, doubtful>>

CommitUpdate(q) ==
    LET r == req[q]
    IN  /\ r.step = "written"
        /\ r.op = "update"
        /\ CanLog(r.by)
        /\ row' = IF r.hit THEN [row EXCEPT ![r.id] = [meta |-> r.meta, there |-> row[r.id].there]]
                  ELSE row
        /\ Logged(r.id, "updated")
        /\ Finish(q)
        /\ Misled(q)
        /\ UNCHANGED <<tier, level, used, had, doubtful>>

CommitDelete(q) ==
    LET r == req[q]
    IN  /\ r.step = "written"
        /\ r.op = "delete"
        /\ CanLog(r.by)
        /\ row' = IF r.hit THEN [row EXCEPT ![r.id] = NoRow] ELSE row
        /\ Logged(r.id, "deleted")
        /\ doubtful' = IF "level" \in missed[q] THEN doubtful \union {r.id} ELSE doubtful
        /\ Finish(q)
        /\ Misled(q)
        /\ UNCHANGED <<tier, level, used, had>>

\* A guard or a service answers with an error, a policy rejects a statement,
\* the transaction fails, the process dies: what was not committed is undone.
RequestFails(q) ==
    /\ req[q] # Idle
    /\ Finish(q)
    /\ missed' = [missed EXCEPT ![q] = {}]
    /\ UNCHANGED <<tier, level, row, used, log, had, doubtful>>

(***************************************************************************)
(* Around it                                                               *)
(***************************************************************************)
\* Family access: an acceptance, a revocation, or the owner changes the level.
ChangeLevel(c, l) ==
    /\ level[c] # l
    /\ level' = [level EXCEPT ![c] = l]
    /\ missed' = [q \in Requests |->
                    IF req[q].by # c THEN missed[q]
                    ELSE missed[q] \union (IF req[q].op = "delete" /\ req[q].step = "read"
                                           THEN {"level"} ELSE {})
                                   \union (IF req[q].step = "written" THEN {"after"} ELSE {})]
    /\ UNCHANGED <<tier, row, used, log, req, had, doubtful>>

\* Subscriptions: the owner's tier changes.
ChangeTier(t) ==
    /\ t # tier
    /\ tier' = t
    /\ had' = had \union {t}
    /\ UNCHANGED <<level, row, used, log, req, missed, doubtful>>

\* A patch that neither sets nor strips changes what NoPatch changes, and a key
\* has one value.
Patches == {p \in Patch : p = NoPatch \/ (p.set \union p.strip # {} /\ p.set \intersect p.strip = {})}

Begin(q) ==
    \E op \in Ops, u \in Contacts \union {Owner}, i \in Ids, p \in Patches :
        (op = "create" => Spare(KindOf[i])) /\ PlanAccess(q, op, u, i, p)

Proceed(q) ==
    \/ Entitled(q)
    \/ Insert(q) \/ FindOne(q) \/ Write(q)
    \/ CommitCreate(q) \/ CommitUpdate(q) \/ CommitDelete(q)

Next ==
    \/ \E q \in Requests : Begin(q) \/ Proceed(q) \/ RequestFails(q)
    \/ \E c \in Contacts, l \in Levels \union {"none"} : ChangeLevel(c, l)
    \/ \E t \in TiersSeen : ChangeTier(t)

Spec == Init /\ [][Next]_vars

(***************************************************************************)
(* Safety                                                                  *)
(***************************************************************************)
\* The quota is checked in the guard and the row inserted two transactions
\* later.  Concurrent creations overshoot the limit, but a plan that was free
\* all along never by more than the other requests in flight: deleting and
\* creating again does not add up.
QuotaOvershoot ==
    had = {"free"} => CountUsage("entry") <= FreeEntries + Cardinality(Requests) - 1

\* Who has no edit access, or loses it, stays out, although the guard looked at
\* another plan, or read the level long before: a committed change is the
\* owner's, or by a contact with edit access, now or until after the statement
\* ran.
EditsByEditors ==
    [][\A i \in Ids : row'[i] # row[i] =>
        \E q \in Requests :
            /\ req[q].id = i
            /\ \/ req[q].by = Owner
               \/ level[req[q].by] = "full_edit"
               \/ "after" \in missed[q]]_vars

\* The activity log and the tables agree: what exists or existed was logged,
\* what is gone was logged as deleted, and what an editor has logged as deleted
\* is gone, whoever else was at it meanwhile.  An author who could read the row
\* but not modify it, from the SELECT on or by the time of the DELETE, logs a
\* deletion that deleted nothing.
LogIsTrue ==
    \A i \in Ids :
        /\ i \in used => "created" \in log[i]
        /\ i \in used /\ ~row[i].there => "deleted" \in log[i]
        /\ "deleted" \in log[i] => ~row[i].there \/ i \in doubtful

\* A metadata key comes and goes only by a request whose patch names it.  The
\* exception is a request that read the row before another one changed it: it
\* writes the whole metadata back, keys it never named included.
UntouchedKeysStay ==
    [][\A i \in Ids : row[i].there /\ row'[i].there /\ row'[i].meta # row[i].meta =>
        \E q \in Requests :
            /\ req[q].id = i /\ req[q].op = "update"
            /\ \/ "row" \in missed[q]
               \/ /\ row'[i].meta \ row[i].meta \subseteq req[q].patch.set
                  /\ row[i].meta \ row'[i].meta \subseteq req[q].patch.strip]_vars
=============================================================================
