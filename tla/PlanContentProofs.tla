------------------------- MODULE PlanContentProofs -------------------------
(***************************************************************************)
(* Theorems about PlanContent: its type invariant, the activity log, who   *)
(* edits, what becomes of metadata, and by how much a quota is exceeded.   *)
(*                                                                         *)
(* Everything rests on ContentInv, which says what a request under way     *)
(* still knows: its id is new or used, its row is there while it holds the *)
(* lock, its author could write, what it is about to write back.           *)
(***************************************************************************)
EXTENDS PlanContent, FiniteSetTheorems, TLAPS

Creating(q) == req[q].step # "idle" /\ req[q].op = "create"
Changing(q) == req[q].step # "idle" /\ req[q].op # "create"
Holding(q) == req[q].step = "written" /\ req[q].op # "create" /\ req[q].hit

\* A request is idle or has an author and an id, a new one of its own or one
\* that is used.
RequestsOK ==
    \A q \in Requests :
        /\ req[q].step = "idle" => req[q] = Idle
        /\ req[q].step # "idle" => req[q].id \in Ids /\ req[q].by \in Contacts \union {Owner}
        /\ Creating(q) => /\ req[q].id \notin used
                          /\ \A p \in Requests \ {q} : req[p].id # req[q].id
        /\ Changing(q) => req[q].id \in used

\* An INSERT that has run has its row.
CreationsHit ==
    \A q \in Requests : req[q].step = "written" /\ req[q].op = "create" => req[q].hit

\* Only updates and deletions read.
ReadersChange == \A q \in Requests : req[q].step = "read" => req[q].op # "create"

\* Rows are of used ids, and so is the log.
RowsUsed == \A i \in Ids : i \notin used => row[i] = NoRow /\ log[i] = {}

\* A row lock has one holder, and its row is there.
LocksHeld ==
    \A q \in Requests : Holding(q) =>
        /\ row[req[q].id].there
        /\ \A p \in Requests \ {q} : Holding(p) => req[p].id # req[q].id

\* A statement that has run was its author's to run, and a deletion that has
\* found its row is, unless it is marked.
AuthorMay(q) ==
    /\ req[q].step = "written" /\ (req[q].op = "create" \/ req[q].hit)
          => CanModify(req[q].by) \/ "after" \in missed[q]
    /\ req[q].step = "read" /\ req[q].op = "delete" => CanModify(req[q].by) \/ "level" \in missed[q]
    /\ req[q].step = "written" /\ req[q].op = "delete" /\ ~req[q].hit
          => ~row[req[q].id].there \/ "level" \in missed[q]

AuthorsMay == \A q \in Requests : AuthorMay(q)

\* What an update writes back is the row's metadata with its patch, unless
\* another request has changed the row since.
MergesHold ==
    \A q \in Requests :
        /\ req[q].op = "update"
        /\ req[q].step = "read" \/ Holding(q)
        /\ row[req[q].id].there
        => "row" \in missed[q] \/ req[q].meta = MergeMetadata(row[req[q].id].meta, req[q].patch)

ContentInv ==
    /\ TypeOK
    /\ RequestsOK /\ CreationsHit /\ ReadersChange
    /\ RowsUsed /\ LocksHeld
    /\ AuthorsMay /\ MergesHold
    /\ LogIsTrue

\* Entries, and creations of entries the guard has let in: while the plan is
\* free, only the guard adds to them.
Admitted == {q \in Requests : req[q].op = "create" /\ req[q].step \in {"entitled", "written"}
                              /\ KindOf[req[q].id] = "entry"}
Coming == {req[q].id : q \in Admitted}

QuotaInv ==
    /\ tier \in had
    /\ had = {"free"} =>
          Cardinality(Existing("entry") \union Coming) <= FreeEntries + Cardinality(Requests) - 1

-----------------------------------------------------------------------------
(***************************************************************************)
(* Requests under way                                                      *)
(***************************************************************************)
\* An active request is the owner's or a contact's, with an id.
LEMMA RequestFields ==
    ASSUME ContentInv, NEW q \in Requests, req[q].step # "idle"
    PROVE  /\ req[q].id \in Ids
           /\ req[q].by \in Contacts \union {Owner}
           /\ req[q] \in Request
           /\ req[q].op \in Ops
           /\ req[q].patch \in Patch
           /\ req[q].meta \in SUBSET Keys
           /\ row[req[q].id] \in Row \union {NoRow}
           /\ row[req[q].id].there \in BOOLEAN
           /\ row[req[q].id].meta \in SUBSET Keys
<1>1. req[q].id \in Ids /\ req[q].by \in Contacts \union {Owner}
  BY DEF ContentInv, RequestsOK
<1>2. req[q] \in Request
  BY DEF ContentInv, TypeOK
<1>3. row[req[q].id] \in Row \union {NoRow}
  BY <1>1 DEF ContentInv, TypeOK
<1>4. \A r \in Row \union {NoRow} : r.there \in BOOLEAN /\ r.meta \in SUBSET Keys
  <2> TAKE r \in Row \union {NoRow}
  <2>1. CASE r \in Row
    BY <2>1 DEF Row
  <2>2. CASE r = NoRow
    BY <2>2 DEF NoRow
  <2>3. QED  BY <2>1, <2>2
<1>5. QED
  BY <1>1, <1>2, <1>3, <1>4 DEF Request

\* The routes' patches are patches, and a merge is a set of keys.
LEMMA MergeType ==
    ASSUME NEW base \in SUBSET Keys, NEW patch \in Patch
    PROVE  MergeMetadata(base, patch) \in SUBSET Keys
<1>1. CASE patch = NoPatch
  BY <1>1 DEF MergeMetadata, NoPatch
<1>2. CASE patch # NoPatch
  <2>1. patch \in [set : SUBSET Keys, strip : SUBSET Keys, given : {TRUE}]
    BY <1>2 DEF Patch
  <2>2. patch.set \in SUBSET Keys
    BY <2>1
  <2>3. QED  BY <2>2 DEF MergeMetadata
<1>3. QED  BY <1>1, <1>2

\* Whoever may modify is the owner or a contact with edit access; a step that
\* leaves the levels alone changes nothing of it.
LEMMA ModifyStays ==
    ASSUME UNCHANGED level, NEW u
    PROVE  CanModify(u)' <=> CanModify(u)
  BY DEF CanModify, HasAccess

(***************************************************************************)
(* A step of a request before its commit                                   *)
(***************************************************************************)
\* A request is let in by the guard.
LEMMA PlanAccessKeeps ==
    ASSUME ContentInv, ContentAssumption, NEW q \in Requests, NEW op \in Ops,
           NEW u \in Contacts \union {Owner}, NEW i \in Ids, NEW p \in Patch,
           PlanAccess(q, op, u, i, p)
    PROVE  ContentInv'
<1> DEFINE r == Asked(op, u, i, p)
<1>1. /\ req' = [req EXCEPT ![q] = r] /\ req[q] = Idle
      /\ UNCHANGED <<tier, level, row, used, log, had, missed, doubtful>>
  BY DEF PlanAccess
<1>2. req \in [Requests -> Request] /\ r \in Request
  BY DEF ContentInv, TypeOK, Asked, Request, Steps, Ops
<1>3. req'[q] = r /\ \A o \in Requests \ {q} : req'[o] = req[o]
  BY <1>1, <1>2
<1>4. r.step = "known" /\ r.op = op /\ r.id = i /\ r.by = u /\ r.hit = FALSE
  BY DEF Asked
<1>5. IF op = "create" THEN i \notin used /\ \A o \in Requests : req[o].id # i ELSE i \in used
  BY DEF PlanAccess
<1>7. TypeOK'
  BY <1>1, <1>2 DEF ContentInv, TypeOK
<1>8. RequestsOK'
  <2> SUFFICES ASSUME NEW o \in Requests
               PROVE  /\ req'[o].step = "idle" => req'[o] = Idle
                      /\ req'[o].step # "idle" => req'[o].id \in Ids /\ req'[o].by \in Contacts \union {Owner}
                      /\ Creating(o)' => /\ req'[o].id \notin used'
                                         /\ \A n \in Requests \ {o} : req'[n].id # req'[o].id
                      /\ Changing(o)' => req'[o].id \in used'
    BY DEF RequestsOK
  <2>1. CASE o = q
    BY <2>1, <1>1, <1>3, <1>4, <1>5 DEF Creating, Changing
  <2>2. CASE o # q
    BY <2>2, <1>1, <1>3, <1>4, <1>5 DEF Creating, Changing, ContentInv, RequestsOK
  <2>3. QED  BY <2>1, <2>2
<1>9. CreationsHit' /\ ReadersChange' /\ RowsUsed' /\ LogIsTrue'
  BY <1>1, <1>3, <1>4 DEF ReadersChange, CreationsHit, ContentInv, RowsUsed, LogIsTrue
<1>10. LocksHeld'
  BY <1>1, <1>3, <1>4 DEF ContentInv, LocksHeld, Holding
<1>11. AuthorsMay'
  BY <1>1, <1>3, <1>4, ModifyStays DEF ContentInv, AuthorsMay, AuthorMay
<1>12. MergesHold'
  BY <1>1, <1>3, <1>4 DEF ContentInv, MergesHold, Holding
<1>13. QED
  BY <1>7, <1>8, <1>9, <1>10, <1>11, <1>12 DEF ContentInv

\* A request that stays what it is and takes a step that holds no lock yet.
LEMMA AdvanceKeeps ==
    ASSUME ContentInv, NEW q \in Requests, req[q].step # "idle", req[q].step # "written",
           NEW step \in Steps \ {"idle"}, NEW meta \in SUBSET Keys, NEW hit \in BOOLEAN,
           Advance(q, step, meta, hit),
           UNCHANGED <<tier, level, row, used, log, had, doubtful>>,
           missed' \in [Requests -> SUBSET Misses], missed[q] \subseteq missed'[q],
           \A o \in Requests \ {q} : missed'[o] = missed[o],
           step = "read" =>
             /\ req[q].op # "create"
             /\ req[q].op = "delete" => CanModify(req[q].by) \/ "level" \in missed'[q],
           step = "written" =>
             /\ req[q].op = "create" => hit
             /\ req[q].op = "create" \/ hit => CanModify(req[q].by)
             /\ req[q].op # "create" /\ hit =>
                  /\ row[req[q].id].there
                  /\ ~Locked(req[q].id, q)
             /\ req[q].op = "delete" /\ ~hit => ~row[req[q].id].there \/ "level" \in missed[q],
           req[q].op = "update" /\ (step = "read" \/ hit) /\ row[req[q].id].there =>
             "row" \in missed[q] \/ meta = MergeMetadata(row[req[q].id].meta, req[q].patch)
    PROVE  ContentInv'
<1> DEFINE r == [step |-> step, op |-> req[q].op, by |-> req[q].by, id |-> req[q].id,
                 patch |-> req[q].patch, meta |-> meta, hit |-> hit]
<1>1. req' = [req EXCEPT ![q] = r]
  BY DEF Advance
<1>2. req \in [Requests -> Request] /\ r \in Request
  BY DEF ContentInv, TypeOK, Request
<1>3. req'[q] = r /\ \A o \in Requests \ {q} : req'[o] = req[o]
  BY <1>1, <1>2
<1>4. /\ r.step = step /\ r.op = req[q].op /\ r.id = req[q].id /\ r.by = req[q].by
      /\ r.patch = req[q].patch /\ r.meta = meta /\ r.hit = hit
  OBVIOUS
<1> HIDE DEF r
<1>5. TypeOK'
  BY <1>1, <1>2 DEF ContentInv, TypeOK
<1>6. RequestsOK'
  <2> SUFFICES ASSUME NEW o \in Requests
               PROVE  /\ req'[o].step = "idle" => req'[o] = Idle
                      /\ req'[o].step # "idle" => req'[o].id \in Ids /\ req'[o].by \in Contacts \union {Owner}
                      /\ Creating(o)' => /\ req'[o].id \notin used'
                                         /\ \A n \in Requests \ {o} : req'[n].id # req'[o].id
                      /\ Changing(o)' => req'[o].id \in used'
    BY DEF RequestsOK
  <2>1. \A n \in Requests : req'[n].id = req[n].id
    BY <1>3, <1>4
  <2>2. CASE o = q
    BY <2>1, <2>2, <1>3, <1>4 DEF Creating, Changing, ContentInv, RequestsOK
  <2>3. CASE o # q
    BY <2>1, <2>3, <1>3, <1>4 DEF Creating, Changing, ContentInv, RequestsOK
  <2>4. QED  BY <2>2, <2>3
<1>7. CreationsHit' /\ ReadersChange' /\ RowsUsed' /\ LogIsTrue'
  BY <1>3, <1>4 DEF ReadersChange, CreationsHit, ContentInv, RowsUsed, LogIsTrue
<1>8. LocksHeld'
  <2> SUFFICES ASSUME NEW o \in Requests, Holding(o)'
               PROVE  /\ row[req'[o].id].there
                      /\ \A n \in Requests \ {o} : Holding(n)' => req'[n].id # req'[o].id
    BY DEF LocksHeld
  <2>1. \A n \in Requests \ {q} : (Holding(n)' <=> Holding(n)) /\ req'[n].id = req[n].id
    BY <1>3 DEF Holding
  <2>2. Holding(q)' => /\ row[req[q].id].there
                       /\ \A n \in Requests \ {q} : Holding(n) => req[n].id # req[q].id
    BY <1>3, <1>4 DEF Holding, Locked
  <2>3. QED
    BY <2>1, <2>2, <1>3, <1>4 DEF ContentInv, LocksHeld
<1>9. AuthorsMay'
  BY <1>3, <1>4, ModifyStays DEF ContentInv, AuthorsMay, AuthorMay, Changing
<1>10. MergesHold'
  BY <1>3, <1>4 DEF ContentInv, MergesHold, Holding
<1>11. QED
  BY <1>5, <1>6, <1>7, <1>8, <1>9, <1>10 DEF ContentInv

LEMMA ProceedKeeps ==
    ASSUME ContentInv, ContentAssumption, NEW q \in Requests,
           Entitled(q) \/ Insert(q) \/ FindOne(q) \/ Write(q)
    PROVE  ContentInv'
<1>1. req[q].step # "idle" /\ req[q].step # "written"
  BY DEF Entitled, Insert, FindOne, Write
<1>2. /\ req[q].op \in Ops /\ req[q].patch \in Patch /\ req[q].meta \in SUBSET Keys
      /\ row[req[q].id].meta \in SUBSET Keys /\ row[req[q].id].there \in BOOLEAN
  BY <1>1, RequestFields
<1>3. {} \in SUBSET Keys
  OBVIOUS
<1>0. missed \in [Requests -> SUBSET Misses]
  BY DEF ContentInv, TypeOK
<1>4. CASE Entitled(q)
  BY <1>1, <1>3, <1>4, <1>0, AdvanceKeeps DEF Entitled, Steps
<1>5. CASE Insert(q)
  BY <1>1, <1>3, <1>5, <1>0, AdvanceKeeps DEF Insert, Steps
<1>6. CASE FindOne(q)
  <2> DEFINE meta == IF req[q].op = "update" THEN MergeMetadata(row[req[q].id].meta, req[q].patch)
                     ELSE {}
  <2>1. meta \in SUBSET Keys
    BY <1>2, MergeType
  <2>2. Advance(q, "read", meta, FALSE) /\ req[q].op # "create"
    BY <1>6 DEF FindOne
  <2>3. /\ UNCHANGED <<tier, level, row, used, log, had, doubtful>>
        /\ missed' \in [Requests -> SUBSET Misses] /\ missed[q] \subseteq missed'[q]
        /\ \A o \in Requests \ {q} : missed'[o] = missed[o]
        /\ req[q].op = "delete" => CanModify(req[q].by) \/ "level" \in missed'[q]
    <3>1. missed \in [Requests -> SUBSET Misses] /\ "level" \in Misses
      BY DEF ContentInv, TypeOK, Misses
    <3>2. missed' = IF req[q].op = "delete" /\ ~CanModify(req[q].by)
                    THEN [missed EXCEPT ![q] = @ \union {"level"}] ELSE missed
      BY <1>6 DEF FindOne
    <3>3. CASE req[q].op = "delete" /\ ~CanModify(req[q].by)
      BY <1>6, <3>1, <3>2, <3>3 DEF FindOne
    <3>4. CASE ~(req[q].op = "delete" /\ ~CanModify(req[q].by))
      BY <1>6, <3>1, <3>2, <3>4 DEF FindOne
    <3>5. QED  BY <3>3, <3>4
  <2>4. req[q].op = "update" => meta = MergeMetadata(row[req[q].id].meta, req[q].patch)
    OBVIOUS
  <2> HIDE DEF meta
  <2>5. QED
    BY <1>1, <2>1, <2>2, <2>3, <2>4, AdvanceKeeps DEF Steps
<1>7. CASE Write(q)
  <2> DEFINE hit == row[req[q].id].there /\ CanModify(req[q].by)
  <2>1. hit \in BOOLEAN
    BY <1>2, Zenon DEF CanModify, HasAccess
  <2>2. /\ req[q].step = "read" /\ ~Locked(req[q].id, q)
        /\ Advance(q, "written", req[q].meta, hit)
        /\ UNCHANGED <<tier, level, row, used, log, had, missed, doubtful>>
    BY <1>7 DEF Write
  <2>3. req[q].op # "create"
    BY <2>2 DEF ContentInv, ReadersChange
  <2>4. req[q].op = "delete" /\ ~hit => ~row[req[q].id].there \/ "level" \in missed[q]
    BY <2>2 DEF ContentInv, AuthorsMay, AuthorMay
  <2>5. req[q].op = "update" /\ row[req[q].id].there =>
           "row" \in missed[q] \/ req[q].meta = MergeMetadata(row[req[q].id].meta, req[q].patch)
    BY <2>2 DEF ContentInv, MergesHold
  <2>6. hit => row[req[q].id].there /\ CanModify(req[q].by)
    OBVIOUS
  <2> HIDE DEF hit
  <2>7. QED
    BY <1>1, <1>2, <1>0, <2>1, <2>2, <2>3, <2>4, <2>5, <2>6, AdvanceKeeps DEF Steps
<1>8. QED  BY <1>4, <1>5, <1>6, <1>7

(***************************************************************************)
(* Commits                                                                 *)
(***************************************************************************)
\* What a commit does to the other requests: nothing, except that an update
\* that has read the row misses its change.
LEMMA OthersStay ==
    ASSUME ContentInv, NEW q \in Requests, Finish(q), Misled(q)
    PROVE  /\ req'[q] = Idle
           /\ req' \in [Requests -> Request \union {Idle}]
           /\ missed' \in [Requests -> SUBSET Misses]
           /\ \A o \in Requests \ {q} :
                /\ req'[o] = req[o]
                /\ missed[o] \subseteq missed'[o]
                /\ req[q].hit /\ req[o].id = req[q].id /\ req[o].op = "update" /\ req[o].step = "read"
                     => "row" \in missed'[o]
<1>1. req \in [Requests -> Request] /\ missed \in [Requests -> SUBSET Misses]
  BY DEF ContentInv, TypeOK
<1>2. req'[q] = Idle /\ \A o \in Requests \ {q} : req'[o] = req[o]
  BY <1>1 DEF Finish
<1>3. req' \in [Requests -> Request \union {Idle}]
  BY <1>1 DEF Finish
<1>4. \A o \in Requests \ {q} :
        /\ missed[o] \subseteq missed'[o]
        /\ req[q].hit /\ req[o].id = req[q].id /\ req[o].op = "update" /\ req[o].step = "read"
             => "row" \in missed'[o]
  BY DEF Misled
<1>5. missed' \in [Requests -> SUBSET Misses]
  BY <1>1 DEF Misled, Misses
<1>6. QED  BY <1>2, <1>3, <1>4, <1>5

LEMMA IdleType ==
    ASSUME ContentAssumption
    PROVE  Idle \in Request
  BY DEF Idle, Request, Steps, Ops, Patch

\* The parts of the invariant about other requests survive a commit that
\* changes its own row only, and only with the lock or a new id.
LEMMA CommitKeepsOthers ==
    ASSUME ContentInv, ContentAssumption, NEW q \in Requests, Finish(q), Misled(q),
           req[q].step = "written", UNCHANGED level,
           used' = used \/ (Creating(q) /\ used' = used \union {req[q].id}),
           \A j \in Ids : j # req[q].id => row'[j] = row[j],
           row'[req[q].id] = row[req[q].id] \/ (req[q].hit /\ (Creating(q) \/ Holding(q))),
           ~Creating(q) /\ row'[req[q].id].there => row[req[q].id].there
    PROVE  RequestsOK' /\ ReadersChange' /\ LocksHeld' /\ AuthorsMay' /\ MergesHold'
<1> DEFINE i == req[q].id
<1>1. req'[q] = Idle /\ \A o \in Requests \ {q} : req'[o] = req[o] /\ missed[o] \subseteq missed'[o]
  BY OthersStay
<1>2. i \in Ids
  BY RequestFields
<1>3. Idle.step = "idle" /\ Idle.id = Null /\ Null \notin Ids /\ Idle.op = "create" /\ ~Idle.hit
  BY DEF Idle, ContentAssumption
<1>4. \A o \in Requests \ {q} : req[o].step # "idle" => req[o].id \in Ids
  BY DEF ContentInv, RequestsOK
<1>5. \A o \in Requests \ {q} : Creating(q) /\ Changing(o) => req[o].id # i
  BY DEF ContentInv, RequestsOK
<1>6. \A o \in Requests \ {q} : Holding(o) => Changing(o)
  BY DEF Holding, Changing
<1>7. \A o \in Requests \ {q} :
        /\ Creating(o)' <=> Creating(o)
        /\ Changing(o)' <=> Changing(o)
        /\ Holding(o)' <=> Holding(o)
  BY <1>1 DEF Creating, Changing, Holding
<1>8. ~Creating(q)' /\ ~Changing(q)' /\ ~Holding(q)'
  BY <1>1, <1>3 DEF Creating, Changing, Holding
<1>9. RequestsOK'
  <2> SUFFICES ASSUME NEW o \in Requests
               PROVE  /\ req'[o].step = "idle" => req'[o] = Idle
                      /\ req'[o].step # "idle" => req'[o].id \in Ids /\ req'[o].by \in Contacts \union {Owner}
                      /\ Creating(o)' => /\ req'[o].id \notin used'
                                         /\ \A n \in Requests \ {o} : req'[n].id # req'[o].id
                      /\ Changing(o)' => req'[o].id \in used'
    BY DEF RequestsOK
  <2>1. CASE o = q
    BY <2>1, <1>1, <1>3, <1>8
  <2>2. CASE o # q
    <3>1. Creating(o) => req[o].id # i /\ req[o].id \notin used /\ req[o].id \in Ids
      BY <2>2, <1>4 DEF ContentInv, RequestsOK, Creating
    <3>2. \A n \in Requests \ {o} : Creating(o) => req'[n].id # req[o].id
      BY <2>2, <3>1, <1>1, <1>3 DEF ContentInv, RequestsOK
    <3>3. QED
      BY <2>2, <3>1, <3>2, <1>1, <1>7 DEF ContentInv, RequestsOK
  <2>3. QED  BY <2>1, <2>2
<1>10. ReadersChange'
  BY <1>1, <1>3 DEF ContentInv, ReadersChange
<1>11. \A o \in Requests \ {q} : Holding(o) => row'[req[o].id] = row[req[o].id]
  <2> TAKE o \in Requests \ {q}
  <2> HAVE Holding(o)
  <2>1. req[o].id = i => ~Creating(q) /\ ~Holding(q)
    BY <1>5, <1>6 DEF ContentInv, LocksHeld
  <2>2. QED  BY <2>1, <1>4, <1>6 DEF Changing
<1>12. LocksHeld'
  BY <1>1, <1>7, <1>8, <1>11 DEF ContentInv, LocksHeld
<1>13. \A o \in Requests \ {q} : Changing(o) /\ row'[req[o].id].there => row[req[o].id].there
  BY <1>4, <1>5 DEF Changing
<1>14. AuthorsMay'
  <2> SUFFICES ASSUME NEW o \in Requests
               PROVE  AuthorMay(o)'
    BY DEF AuthorsMay
  <2>1. CASE o = q
    BY <2>1, <1>1, <1>3, <1>8 DEF AuthorMay
  <2>2. CASE o # q
    <3>1. AuthorMay(o)
      BY DEF ContentInv, AuthorsMay
    <3>2. req'[o] = req[o] /\ missed[o] \subseteq missed'[o] /\ (Changing(o)' <=> Changing(o))
      BY <2>2, <1>1, <1>7
    <3>3. Changing(o) /\ row'[req[o].id].there => row[req[o].id].there
      BY <2>2, <1>13
    <3>4. QED
      BY <3>1, <3>2, <3>3 DEF AuthorMay, Changing, CanModify, HasAccess
  <2>3. QED  BY <2>1, <2>2
<1>15. MergesHold'
  <2> SUFFICES ASSUME NEW o \in Requests, req'[o].op = "update",
                      req'[o].step = "read" \/ Holding(o)', row'[req'[o].id].there
               PROVE  "row" \in missed'[o] \/
                      req'[o].meta = MergeMetadata(row'[req'[o].id].meta, req'[o].patch)
    BY DEF MergesHold, MergeMetadata
  <2>1. o # q /\ req'[o] = req[o] /\ Changing(o)
    BY <1>1, <1>3, <1>6, <1>7, <1>8 DEF Changing
  <2>2. row[req[o].id].there
    BY <2>1, <1>13
  <2>3. "row" \in missed[o] \/ req[o].meta = MergeMetadata(row[req[o].id].meta, req[o].patch)
    BY <2>1, <2>2, <1>7 DEF ContentInv, MergesHold
  <2>4. CASE row'[req[o].id] = row[req[o].id]
    BY <2>1, <2>3, <2>4, <1>1
  <2>5. CASE row'[req[o].id] # row[req[o].id]
    <3>1. req[o].id = i /\ req[q].hit /\ ~Holding(o)
      BY <2>1, <2>5, <1>4, <1>5, <1>11 DEF Changing
    <3>2. "row" \in missed'[o]
      BY <2>1, <3>1, <1>7, OthersStay
    <3>3. QED  BY <3>2
  <2>6. QED  BY <2>4, <2>5
<1>16. QED
  BY <1>9, <1>10, <1>12, <1>14, <1>15

LEMMA CommitCreateKeeps ==
    ASSUME ContentInv, ContentAssumption, NEW q \in Requests, CommitCreate(q)
    PROVE  ContentInv'
<1> DEFINE i == req[q].id
<1>1. /\ req[q].step = "written" /\ req[q].op = "create"
      /\ row' = [row EXCEPT ![i] = [meta |-> {}, there |-> TRUE]]
      /\ used' = used \union {i}
      /\ log' = [log EXCEPT ![i] = @ \union {"created"}]
      /\ Finish(q) /\ Misled(q)
      /\ UNCHANGED <<tier, level, had, doubtful>>
  BY DEF CommitCreate, Logged
<1>2. i \in Ids /\ i \notin used /\ Creating(q)
  BY <1>1, RequestFields DEF ContentInv, RequestsOK, Creating
<1>3. req[q].hit
  BY <1>1 DEF ContentInv, CreationsHit
<1>4. /\ row \in [Ids -> Row \union {NoRow}] /\ log \in [Ids -> SUBSET Events]
      /\ used \subseteq Ids
  BY DEF ContentInv, TypeOK
<1>5. /\ row'[i] = [meta |-> {}, there |-> TRUE] /\ log'[i] = log[i] \union {"created"}
      /\ \A j \in Ids : j # i => row'[j] = row[j] /\ log'[j] = log[j]
  BY <1>1, <1>2, <1>4
<1>6. RequestsOK' /\ ReadersChange' /\ LocksHeld' /\ AuthorsMay' /\ MergesHold'
  BY <1>1, <1>2, <1>3, <1>5, CommitKeepsOthers
<1>7. TypeOK'
  <2>1. [meta |-> {}, there |-> TRUE] \in Row
    BY DEF Row
  <2>2. row' \in [Ids -> Row \union {NoRow}] /\ log' \in [Ids -> SUBSET Events] /\ used' \subseteq Ids
    BY <1>1, <1>2, <1>4, <2>1 DEF Events
  <2>3. req' \in [Requests -> Request] /\ missed' \in [Requests -> SUBSET Misses]
    BY <1>1, OthersStay, IdleType
  <2>4. QED
    BY <1>1, <2>2, <2>3 DEF ContentInv, TypeOK
<1>8. CreationsHit'
  BY <1>1, OthersStay DEF ContentInv, CreationsHit, Idle
<1>9. RowsUsed'
  BY <1>1, <1>5 DEF ContentInv, RowsUsed
<1>10. LogIsTrue'
  <2> SUFFICES ASSUME NEW j \in Ids
               PROVE  /\ j \in used' => "created" \in log'[j]
                      /\ j \in used' /\ ~row'[j].there => "deleted" \in log'[j]
                      /\ "deleted" \in log'[j] => ~row'[j].there \/ j \in doubtful'
    BY DEF LogIsTrue
  <2>1. CASE j = i
    BY <2>1, <1>1, <1>2, <1>5 DEF ContentInv, RowsUsed
  <2>2. CASE j # i
    BY <2>2, <1>1, <1>5 DEF ContentInv, LogIsTrue
  <2>3. QED  BY <2>1, <2>2
<1>11. QED
  BY <1>6, <1>7, <1>8, <1>9, <1>10 DEF ContentInv

LEMMA CommitUpdateKeeps ==
    ASSUME ContentInv, ContentAssumption, NEW q \in Requests, CommitUpdate(q)
    PROVE  ContentInv'
<1> DEFINE i == req[q].id
           new == [meta |-> req[q].meta, there |-> row[i].there]
<1>1. /\ req[q].step = "written" /\ req[q].op = "update"
      /\ row' = IF req[q].hit THEN [row EXCEPT ![i] = new] ELSE row
      /\ log' = [log EXCEPT ![i] = @ \union {"updated"}]
      /\ Finish(q) /\ Misled(q)
      /\ UNCHANGED <<tier, level, used, had, doubtful>>
  BY DEF CommitUpdate, Logged
<1>2. i \in Ids /\ i \in used /\ ~Creating(q) /\ req[q].meta \in SUBSET Keys
  BY <1>1, RequestFields DEF ContentInv, RequestsOK, Creating, Changing
<1>3. /\ row \in [Ids -> Row \union {NoRow}] /\ log \in [Ids -> SUBSET Events]
      /\ row[i].there \in BOOLEAN
  BY <1>1, RequestFields DEF ContentInv, TypeOK
<1>4. req[q].hit => Holding(q) /\ row[i].there
  BY <1>1 DEF ContentInv, LocksHeld, Holding
<1>5. /\ log'[i] = log[i] \union {"updated"} /\ row'[i].there = row[i].there
      /\ \A j \in Ids : j # i => row'[j] = row[j] /\ log'[j] = log[j]
  BY <1>1, <1>2, <1>3
<1>6. RequestsOK' /\ ReadersChange' /\ LocksHeld' /\ AuthorsMay' /\ MergesHold'
  <2>1. row'[i] = row[i] \/ (req[q].hit /\ Holding(q))
    BY <1>1, <1>4
  <2>2. QED
    BY <1>1, <1>2, <1>5, <2>1, CommitKeepsOthers
<1>7. TypeOK'
  <2>1. req[q].hit => new \in Row
    BY <1>2, <1>3, <1>4 DEF Row
  <2>2. row' \in [Ids -> Row \union {NoRow}] /\ log' \in [Ids -> SUBSET Events]
    BY <1>1, <1>2, <1>3, <2>1 DEF Events
  <2>3. req' \in [Requests -> Request] /\ missed' \in [Requests -> SUBSET Misses]
    BY <1>1, OthersStay, IdleType
  <2>4. QED
    BY <1>1, <2>2, <2>3 DEF ContentInv, TypeOK
<1>8. CreationsHit'
  BY <1>1, OthersStay DEF ContentInv, CreationsHit, Idle
<1>9. RowsUsed'
  BY <1>1, <1>2, <1>5 DEF ContentInv, RowsUsed
<1>10. LogIsTrue'
  BY <1>1, <1>2, <1>5 DEF ContentInv, LogIsTrue
<1>11. QED
  BY <1>6, <1>7, <1>8, <1>9, <1>10 DEF ContentInv

LEMMA CommitDeleteKeeps ==
    ASSUME ContentInv, ContentAssumption, NEW q \in Requests, CommitDelete(q)
    PROVE  ContentInv'
<1> DEFINE i == req[q].id
<1>1. /\ req[q].step = "written" /\ req[q].op = "delete"
      /\ row' = IF req[q].hit THEN [row EXCEPT ![i] = NoRow] ELSE row
      /\ log' = [log EXCEPT ![i] = @ \union {"deleted"}]
      /\ doubtful' = IF "level" \in missed[q] THEN doubtful \union {i} ELSE doubtful
      /\ Finish(q) /\ Misled(q)
      /\ UNCHANGED <<tier, level, used, had>>
  BY DEF CommitDelete, Logged
<1>2. i \in Ids /\ i \in used /\ ~Creating(q)
  BY <1>1, RequestFields DEF ContentInv, RequestsOK, Creating, Changing
<1>3. /\ row \in [Ids -> Row \union {NoRow}] /\ log \in [Ids -> SUBSET Events]
      /\ doubtful \subseteq Ids
  BY DEF ContentInv, TypeOK
<1>4. req[q].hit => Holding(q)
  BY <1>1 DEF Holding
<1>5. ~req[q].hit => ~row[i].there \/ i \in doubtful'
  BY <1>1 DEF ContentInv, AuthorsMay, AuthorMay
<1>6. ~NoRow.there
  BY DEF NoRow
<1>7. /\ log'[i] = log[i] \union {"deleted"} /\ row'[i] = (IF req[q].hit THEN NoRow ELSE row[i])
      /\ \A j \in Ids : j # i => row'[j] = row[j] /\ log'[j] = log[j]
  BY <1>1, <1>2, <1>3
<1>8. RequestsOK' /\ ReadersChange' /\ LocksHeld' /\ AuthorsMay' /\ MergesHold'
  <2>1. row'[i] = row[i] \/ (req[q].hit /\ Holding(q))
    BY <1>1, <1>4
  <2>2. row'[i].there => row[i].there
    BY <1>6, <1>7
  <2>3. QED
    BY <1>1, <1>2, <1>7, <2>1, <2>2, CommitKeepsOthers
<1>9. TypeOK'
  <2>1. row' \in [Ids -> Row \union {NoRow}] /\ log' \in [Ids -> SUBSET Events]
    BY <1>1, <1>2, <1>3 DEF Events
  <2>2. req' \in [Requests -> Request] /\ missed' \in [Requests -> SUBSET Misses]
    BY <1>1, OthersStay, IdleType
  <2>3. doubtful' \subseteq Ids
    BY <1>1, <1>2, <1>3
  <2>4. QED
    BY <1>1, <2>1, <2>2, <2>3 DEF ContentInv, TypeOK
<1>10. CreationsHit'
  BY <1>1, OthersStay DEF ContentInv, CreationsHit, Idle
<1>11. RowsUsed'
  BY <1>1, <1>2, <1>7 DEF ContentInv, RowsUsed
<1>12. LogIsTrue'
  <2> SUFFICES ASSUME NEW j \in Ids
               PROVE  /\ j \in used' => "created" \in log'[j]
                      /\ j \in used' /\ ~row'[j].there => "deleted" \in log'[j]
                      /\ "deleted" \in log'[j] => ~row'[j].there \/ j \in doubtful'
    BY DEF LogIsTrue
  <2>1. CASE j = i
    BY <2>1, <1>1, <1>2, <1>5, <1>6, <1>7 DEF ContentInv, LogIsTrue
  <2>2. CASE j # i
    BY <2>2, <1>1, <1>7 DEF ContentInv, LogIsTrue
  <2>3. QED  BY <2>1, <2>2
<1>13. QED
  BY <1>8, <1>9, <1>10, <1>11, <1>12 DEF ContentInv

(***************************************************************************)
(* Failures, and what happens around the requests                          *)
(***************************************************************************)
LEMMA RequestFailsKeeps ==
    ASSUME ContentInv, ContentAssumption, NEW q \in Requests, RequestFails(q)
    PROVE  ContentInv'
<1>1. /\ req' = [req EXCEPT ![q] = Idle]
      /\ missed' = [missed EXCEPT ![q] = {}]
      /\ UNCHANGED <<tier, level, row, used, log, had, doubtful>>
  BY DEF RequestFails, Finish
<1>2. req \in [Requests -> Request] /\ missed \in [Requests -> SUBSET Misses]
  BY DEF ContentInv, TypeOK
<1>3. /\ req'[q] = Idle
      /\ \A o \in Requests \ {q} : req'[o] = req[o] /\ missed'[o] = missed[o]
  BY <1>1, <1>2
<1>4. Idle.step = "idle" /\ Idle.id = Null /\ Null \notin Ids /\ Idle.op = "create" /\ ~Idle.hit
  BY DEF Idle, ContentAssumption
<1>5. TypeOK'
  BY <1>1, <1>2, IdleType DEF ContentInv, TypeOK
<1>6. RequestsOK'
  BY <1>1, <1>3, <1>4 DEF ContentInv, RequestsOK, Creating, Changing
<1>7. CreationsHit' /\ ReadersChange' /\ RowsUsed' /\ LogIsTrue'
  BY <1>1, <1>3, <1>4 DEF ContentInv, CreationsHit, ReadersChange, RowsUsed, LogIsTrue
<1>8. LocksHeld'
  BY <1>1, <1>3, <1>4 DEF ContentInv, LocksHeld, Holding
<1>9. AuthorsMay'
  BY <1>1, <1>3, <1>4, ModifyStays DEF ContentInv, AuthorsMay, AuthorMay, Changing
<1>10. MergesHold'
  BY <1>1, <1>3, <1>4 DEF ContentInv, MergesHold, Holding
<1>11. QED
  BY <1>5, <1>6, <1>7, <1>8, <1>9, <1>10 DEF ContentInv

LEMMA ChangeLevelKeeps ==
    ASSUME ContentInv, ContentAssumption, NEW c \in Contacts, NEW l \in Levels \union {"none"},
           ChangeLevel(c, l)
    PROVE  ContentInv'
<1>1. /\ level' = [level EXCEPT ![c] = l]
      /\ UNCHANGED <<tier, row, used, log, req, had, doubtful>>
  BY DEF ChangeLevel
<1>2. level \in [Contacts -> Levels \union {"none"}] /\ missed \in [Requests -> SUBSET Misses]
  BY DEF ContentInv, TypeOK
<1>3. \A q \in Requests :
        /\ missed[q] \subseteq missed'[q]
        /\ req[q].by = c /\ req[q].op = "delete" /\ req[q].step = "read" => "level" \in missed'[q]
        /\ req[q].by = c /\ req[q].step = "written" => "after" \in missed'[q]
  BY DEF ChangeLevel
<1>4. missed' \in [Requests -> SUBSET Misses]
  BY <1>2 DEF ChangeLevel, Misses
<1>5. \A u : u # c => (CanModify(u)' <=> CanModify(u))
  BY <1>1, <1>2 DEF CanModify, HasAccess
<1>6. TypeOK'
  BY <1>1, <1>2, <1>4 DEF ContentInv, TypeOK
<1>7. RequestsOK' /\ CreationsHit' /\ ReadersChange' /\ RowsUsed' /\ LogIsTrue' /\ LocksHeld'
  BY <1>1 DEF ContentInv, RequestsOK, CreationsHit, ReadersChange, RowsUsed, LogIsTrue,
              LocksHeld, Creating, Changing, Holding
<1>8. AuthorsMay'
  <2> SUFFICES ASSUME NEW q \in Requests
               PROVE  AuthorMay(q)'
    BY DEF AuthorsMay
  <2>1. AuthorMay(q)
    BY DEF ContentInv, AuthorsMay
  <2>2. CASE req[q].by = c
    BY <2>1, <2>2, <1>1, <1>3 DEF AuthorMay, Changing
  <2>3. CASE req[q].by # c
    <3>1. CanModify(req[q].by)' <=> CanModify(req[q].by)
      BY <2>3, <1>1, <1>2 DEF CanModify, HasAccess
    <3>2. QED  BY <2>1, <3>1, <1>1, <1>3 DEF AuthorMay, Changing
  <2>4. QED  BY <2>2, <2>3
<1>9. MergesHold'
  BY <1>1, <1>3 DEF ContentInv, MergesHold, Holding
<1>10. QED
  BY <1>6, <1>7, <1>8, <1>9 DEF ContentInv

\* A step that changes only the tier, or nothing.
LEMMA ElsewhereKeeps ==
    ASSUME ContentInv, tier' \in Tiers, had' \subseteq Tiers,
           UNCHANGED <<level, row, used, log, req, missed, doubtful>>
    PROVE  ContentInv'
<1>1. TypeOK'
  BY DEF ContentInv, TypeOK
<1>2. RequestsOK' /\ CreationsHit' /\ ReadersChange' /\ RowsUsed' /\ LogIsTrue' /\ LocksHeld'
  BY DEF ContentInv, RequestsOK, CreationsHit, ReadersChange, RowsUsed, LogIsTrue,
         LocksHeld, Creating, Changing, Holding
<1>3. AuthorsMay' /\ MergesHold'
  BY ModifyStays DEF ContentInv, AuthorsMay, AuthorMay, MergesHold, Changing, Holding
<1>4. QED
  BY <1>1, <1>2, <1>3 DEF ContentInv

(***************************************************************************)
(* The invariant                                                           *)
(***************************************************************************)
LEMMA InitContent ==
    ASSUME ContentAssumption, Init
    PROVE  ContentInv
<1>1. Idle.step = "idle" /\ Idle.op = "create" /\ ~Idle.hit
  BY DEF Idle
<1>2. \A q \in Requests : req[q] = Idle
  BY DEF Init
<1>3. TypeOK
  BY IdleType DEF Init, TypeOK, ContentAssumption, Misses, Events
<1>4. RequestsOK /\ CreationsHit /\ ReadersChange
  BY <1>1, <1>2 DEF RequestsOK, CreationsHit, ReadersChange, Creating, Changing
<1>5. RowsUsed /\ LogIsTrue
  BY DEF Init, RowsUsed, LogIsTrue
<1>6. LocksHeld /\ AuthorsMay /\ MergesHold
  BY <1>1, <1>2 DEF LocksHeld, AuthorsMay, AuthorMay, MergesHold, Holding, Changing
<1>7. QED
  BY <1>3, <1>4, <1>5, <1>6 DEF ContentInv

LEMMA NextContent ==
    ASSUME ContentAssumption, ContentInv, [Next]_vars
    PROVE  ContentInv'
<1>1. ASSUME NEW q \in Requests, Begin(q)
      PROVE  ContentInv'
  <2>1. PICK op \in Ops, u \in Contacts \union {Owner}, i \in Ids, p \in Patches :
           PlanAccess(q, op, u, i, p)
    BY <1>1 DEF Begin
  <2>2. p \in Patch
    BY DEF Patches
  <2>3. QED  BY <2>1, <2>2, PlanAccessKeeps
<1>2. ASSUME NEW q \in Requests, Proceed(q)
      PROVE  ContentInv'
  <2>1. CASE Entitled(q) \/ Insert(q) \/ FindOne(q) \/ Write(q)
    BY <2>1, ProceedKeeps
  <2>2. CASE CommitCreate(q)
    BY <2>2, CommitCreateKeeps
  <2>3. CASE CommitUpdate(q)
    BY <2>3, CommitUpdateKeeps
  <2>4. CASE CommitDelete(q)
    BY <2>4, CommitDeleteKeeps
  <2>5. QED  BY <1>2, <2>1, <2>2, <2>3, <2>4 DEF Proceed
<1>3. ASSUME NEW q \in Requests, RequestFails(q)
      PROVE  ContentInv'
  BY <1>3, RequestFailsKeeps
<1>4. ASSUME NEW c \in Contacts, NEW l \in Levels \union {"none"}, ChangeLevel(c, l)
      PROVE  ContentInv'
  BY <1>4, ChangeLevelKeeps
<1>5. ASSUME NEW t \in TiersSeen, ChangeTier(t)
      PROVE  ContentInv'
  <2>1. t \in Tiers /\ had \subseteq Tiers
    BY DEF ContentAssumption, ContentInv, TypeOK
  <2>2. QED  BY <1>5, <2>1, ElsewhereKeeps DEF ChangeTier
<1>6. CASE UNCHANGED vars
  <2>1. tier \in Tiers /\ had \subseteq Tiers
    BY DEF ContentInv, TypeOK
  <2>2. QED  BY <1>6, <2>1, ElsewhereKeeps DEF vars
<1>7. QED
  BY <1>1, <1>2, <1>3, <1>4, <1>5, <1>6 DEF Next

THEOREM ContentInvariance == Spec => []ContentInv
<1>1. Init => ContentInv
  BY InitContent, ContentAssumption
<1>2. ContentInv /\ [Next]_vars => ContentInv'
  BY NextContent, ContentAssumption
<1>3. QED
  BY <1>1, <1>2, PTL DEF Spec

\* The tables and the requests have their types: a row in a table exists, also
\* when an update finds none.
THEOREM ContentTypes == Spec => []TypeOK
<1>1. ContentInv => TypeOK
  BY DEF ContentInv
<1>2. QED
  BY <1>1, ContentInvariance, PTL

\* What exists, existed or was deleted is in the activity log as such.
THEOREM LogTruth == Spec => []LogIsTrue
<1>1. ContentInv => LogIsTrue
  BY DEF ContentInv
<1>2. QED
  BY <1>1, ContentInvariance, PTL

(***************************************************************************)
(* Who changes a row, and how                                              *)
(***************************************************************************)
\* Only a commit of a request on the row changes it, and only if the request's
\* statement found it.
LEMMA RowChange ==
    ASSUME ContentInv, [Next]_vars, NEW i \in Ids, row'[i] # row[i]
    PROVE  \E q \in Requests :
              /\ req[q].id = i
              /\ req[q].step = "written"
              /\ \/ CommitCreate(q)
                 \/ CommitUpdate(q) /\ Holding(q)
                 \/ CommitDelete(q) /\ Holding(q)
<1>1. row \in [Ids -> Row \union {NoRow}]
  BY DEF ContentInv, TypeOK
<1>2. ASSUME NEW q \in Requests, Begin(q)
      PROVE  FALSE
  BY <1>2 DEF Begin, PlanAccess
<1>3. ASSUME NEW q \in Requests, Proceed(q)
      PROVE  /\ req[q].id = i
             /\ req[q].step = "written"
             /\ \/ CommitCreate(q)
                \/ CommitUpdate(q) /\ Holding(q)
                \/ CommitDelete(q) /\ Holding(q)
  <2>1. ~(Entitled(q) \/ Insert(q) \/ FindOne(q) \/ Write(q))
    BY DEF Entitled, Insert, FindOne, Write
  <2>2. CASE CommitCreate(q)
    BY <2>2, <1>1 DEF CommitCreate
  <2>3. CASE CommitUpdate(q)
    BY <2>3, <1>1 DEF CommitUpdate, Holding
  <2>4. CASE CommitDelete(q)
    BY <2>4, <1>1 DEF CommitDelete, Holding
  <2>5. QED  BY <1>3, <2>1, <2>2, <2>3, <2>4 DEF Proceed
<1>4. ASSUME NEW q \in Requests, RequestFails(q)
      PROVE  FALSE
  BY <1>4 DEF RequestFails
<1>5. ASSUME NEW c \in Contacts, NEW l \in Levels \union {"none"}, ChangeLevel(c, l)
      PROVE  FALSE
  BY <1>5 DEF ChangeLevel
<1>6. ASSUME NEW t \in TiersSeen, ChangeTier(t)
      PROVE  FALSE
  BY <1>6 DEF ChangeTier
<1>7. ~UNCHANGED vars
  BY DEF vars
<1>8. QED
  BY <1>2, <1>3, <1>4, <1>5, <1>6, <1>7 DEF Next

\* Every committed change of content is the owner's, or by a contact who has
\* edit access, or had it until after the statement.
THEOREM EditorsOnly == Spec => EditsByEditors
<1>1. ASSUME ContentInv, [Next]_vars, NEW i \in Ids, row'[i] # row[i]
      PROVE  \E q \in Requests :
               /\ req[q].id = i
               /\ \/ req[q].by = Owner
                  \/ level[req[q].by] = "full_edit"
                  \/ "after" \in missed[q]
  <2>1. PICK q \in Requests :
           /\ req[q].id = i
           /\ req[q].step = "written"
           /\ \/ CommitCreate(q)
              \/ CommitUpdate(q) /\ Holding(q)
              \/ CommitDelete(q) /\ Holding(q)
    BY <1>1, RowChange
  <2>2. req[q].op = "create" \/ req[q].hit
    BY <2>1 DEF CommitCreate, Holding
  <2>3. CanModify(req[q].by) \/ "after" \in missed[q]
    BY <1>1, <2>1, <2>2 DEF ContentInv, AuthorsMay, AuthorMay
  <2>4. QED
    BY <2>1, <2>3 DEF CanModify, HasAccess
<1>2. ContentInv /\ [Next]_vars =>
        \A i \in Ids : row'[i] # row[i] =>
        \E q \in Requests :
            /\ req[q].id = i
            /\ \/ req[q].by = Owner
               \/ level[req[q].by] = "full_edit"
               \/ "after" \in missed[q]
  BY <1>1
<1>3. QED
  BY <1>2, ContentInvariance, PTL DEF Spec, EditsByEditors

\* Metadata keys come and go by patches that name them, or by an update that
\* had read the row before another request changed it.
THEOREM KeysStay == Spec => UntouchedKeysStay
<1>1. ASSUME ContentInv, [Next]_vars, NEW i \in Ids,
             row[i].there, row'[i].there, row'[i].meta # row[i].meta
      PROVE  \E q \in Requests :
               /\ req[q].id = i /\ req[q].op = "update"
               /\ \/ "row" \in missed[q]
                  \/ /\ row'[i].meta \ row[i].meta \subseteq req[q].patch.set
                     /\ row[i].meta \ row'[i].meta \subseteq req[q].patch.strip
  <2>1. PICK q \in Requests :
           /\ req[q].id = i
           /\ req[q].step = "written"
           /\ \/ CommitCreate(q)
              \/ CommitUpdate(q) /\ Holding(q)
              \/ CommitDelete(q) /\ Holding(q)
    BY <1>1, RowChange
  <2>2. row \in [Ids -> Row \union {NoRow}] /\ ~NoRow.there
    BY <1>1 DEF ContentInv, TypeOK, NoRow
  <2>3. ~CommitCreate(q)
    BY <1>1, <2>1, <2>2 DEF CommitCreate, ContentInv, RequestsOK, RowsUsed, Creating
  <2>4. ~(CommitDelete(q) /\ Holding(q))
    BY <1>1, <2>1, <2>2 DEF CommitDelete, Holding
  <2>5. CommitUpdate(q) /\ Holding(q)
    BY <2>1, <2>3, <2>4
  <2>6. req[q].op = "update" /\ row'[i].meta = req[q].meta
    BY <2>1, <2>2, <2>5 DEF CommitUpdate, Holding
  <2>7. "row" \in missed[q] \/ req[q].meta = MergeMetadata(row[i].meta, req[q].patch)
    BY <1>1, <2>1, <2>5, <2>6 DEF ContentInv, MergesHold
  <2>8. QED
    BY <1>1, <2>1, <2>6, <2>7 DEF MergeMetadata
<1>2. ContentInv /\ [Next]_vars =>
        \A i \in Ids : row[i].there /\ row'[i].there /\ row'[i].meta # row[i].meta =>
          \E q \in Requests :
            /\ req[q].id = i /\ req[q].op = "update"
            /\ \/ "row" \in missed[q]
               \/ /\ row'[i].meta \ row[i].meta \subseteq req[q].patch.set
                  /\ row[i].meta \ row'[i].meta \subseteq req[q].patch.strip
  BY <1>1
<1>3. QED
  BY <1>2, ContentInvariance, PTL DEF Spec, UntouchedKeysStay

-----------------------------------------------------------------------------
(***************************************************************************)
(* The quota                                                               *)
(***************************************************************************)
\* At most one id per member of a finite set.
LEMMA NamedOnce ==
    ASSUME NEW A, IsFiniteSet(A), NEW r
    PROVE  /\ IsFiniteSet({r[q].id : q \in A})
           /\ Cardinality({r[q].id : q \in A}) <= Cardinality(A)
<1> DEFINE T == {r[q].id : q \in A}
           f == [q \in A |-> r[q].id]
<1>1. f \in Surjection(A, T)
  BY DEF Surjection
<1>2. QED
  BY <1>1, FS_Surjection

\* Entries and admitted creations are ids, so finitely many.
LEMMA FewIds ==
    ASSUME ContentAssumption, ContentInv
    PROVE  /\ Existing("entry") \subseteq Ids /\ Coming \subseteq Ids
           /\ IsFiniteSet(Existing("entry") \union Coming)
           /\ Cardinality(Existing("entry") \union Coming) \in Nat
           /\ Cardinality(Requests) \in Nat
<1>1. Existing("entry") \subseteq Ids /\ Coming \subseteq Ids
  BY RequestFields DEF Existing, Coming, Admitted
<1>2. Existing("entry") \union Coming \in SUBSET Ids
  BY <1>1
<1>3. QED
  BY <1>1, <1>2, FS_Subset, FS_CardinalityType DEF ContentAssumption

\* A step that admits nothing, and adds no entry but an admitted one.
LEMMA NothingAdmitted ==
    ASSUME ContentAssumption, ContentInv, QuotaInv, UNCHANGED <<tier, had>>,
           \A q \in Requests : q \in Admitted' => q \in Admitted /\ req'[q].id = req[q].id,
           \A i \in Ids : i \in Existing("entry")' => i \in Existing("entry") \union Coming
    PROVE  QuotaInv'
<1>1. (Existing("entry") \union Coming)' \subseteq Existing("entry") \union Coming
  <2>1. Coming' \subseteq Coming
    BY DEF Coming, Admitted
  <2>2. Existing("entry")' \subseteq Ids
    BY DEF Existing
  <2>3. QED  BY <2>1, <2>2
<1>2. /\ Cardinality((Existing("entry") \union Coming)') \in Nat
      /\ Cardinality((Existing("entry") \union Coming)')
           <= Cardinality(Existing("entry") \union Coming)
  BY <1>1, FewIds, FS_Subset, FS_CardinalityType
<1>3. ASSUME had' = {"free"}
      PROVE  Cardinality(Existing("entry") \union Coming)' <= FreeEntries + Cardinality(Requests) - 1
  BY <1>2, <1>3, FewIds, LimitAssumption DEF QuotaInv
<1>4. QED
  BY <1>3 DEF QuotaInv

\* The guard lets a creation in on a free plan only below the limit.
LEMMA GuardCounts ==
    ASSUME NEW n \in Nat, EvaluateQuota("free", "entries", n)
    PROVE  n < FreeEntries
<1>1. TierConfig["free"].quotas["entries"] = FreeEntries
  BY DEF TierConfig, Tiers
<1>2. FreeEntries # Unlimited
  BY LimitAssumption DEF Unlimited
<1>3. QED
  BY <1>1, <1>2 DEF EvaluateQuota

LEMMA EntitledQuota ==
    ASSUME ContentAssumption, ContentInv, QuotaInv, NEW q \in Requests, Entitled(q)
    PROVE  QuotaInv'
<1>1. /\ UNCHANGED <<tier, had, row>>
      /\ \A p \in Requests \ {q} : req'[p] = req[p]
      /\ req'[q].id = req[q].id /\ req'[q].op = req[q].op
  BY DEF Entitled, Advance, ContentInv, TypeOK
<1>2. Existing("entry")' = Existing("entry")
  BY <1>1 DEF Existing
<1>3. CASE req[q].op = "create" /\ KindOf[req[q].id] = "entry" /\ had = {"free"}
  <2>1. tier = "free"
    BY <1>3 DEF QuotaInv
  <2>2. /\ IsFiniteSet(Existing("entry"))
        /\ Cardinality(Existing("entry")) \in Nat
    <3>1. Existing("entry") \in SUBSET Ids
      BY DEF Existing
    <3>2. QED  BY <3>1, FS_Subset, FS_CardinalityType DEF ContentAssumption
  <2>3. EvaluateQuota("free", "entries", Cardinality(Existing("entry")))
    <3>1. Routes("entry").feature = "entries"
      BY DEF Routes, EntryRoutes
    <3>2. QED
      BY <1>3, <2>1, <3>1 DEF Entitled, CheckEntitlements, CountUsage
  <2>4. Cardinality(Existing("entry")) < FreeEntries
    BY <2>2, <2>3, GuardCounts
  <2>5. /\ IsFiniteSet(Admitted') /\ Cardinality(Admitted') \in Nat
        /\ Cardinality(Admitted') <= Cardinality(Requests)
    <3>1. Admitted' \in SUBSET Requests
      BY DEF Admitted
    <3>2. QED  BY <3>1, FS_Subset, FS_CardinalityType DEF ContentAssumption
  <2>6. /\ IsFiniteSet(Coming') /\ Cardinality(Coming') \in Nat
        /\ Cardinality(Coming') <= Cardinality(Admitted')
    <3>1. Coming' = {req'[p].id : p \in Admitted'}
      BY DEF Coming
    <3>2. QED  BY <2>5, <3>1, NamedOnce, FS_CardinalityType
  <2>7. /\ Cardinality(Existing("entry") \intersect Coming') \in Nat
        /\ Cardinality(Existing("entry") \union Coming')
             = Cardinality(Existing("entry")) + Cardinality(Coming')
                 - Cardinality(Existing("entry") \intersect Coming')
    BY <2>2, <2>6, FS_Union, FS_Intersection, FS_CardinalityType
  <2>8. Cardinality(Requests) \in Nat /\ FreeEntries \in Nat
    BY FewIds, LimitAssumption
  <2>9. Cardinality(Existing("entry") \union Coming') <= FreeEntries + Cardinality(Requests) - 1
    BY <2>2, <2>4, <2>5, <2>6, <2>7, <2>8
  <2>10. QED
    BY <1>1, <1>2, <2>9 DEF QuotaInv
<1>4. CASE ~(req[q].op = "create" /\ KindOf[req[q].id] = "entry")
  <2>1. \A p \in Requests : p \in Admitted' => p \in Admitted /\ req'[p].id = req[p].id
    BY <1>1, <1>4 DEF Admitted
  <2>2. QED
    BY <1>1, <1>2, <2>1, NothingAdmitted
<1>5. CASE had # {"free"}
  BY <1>1, <1>5 DEF QuotaInv
<1>6. QED
  BY <1>3, <1>4, <1>5


\* A request's other steps before its commit admit nothing and add nothing.
LEMMA ProceedQuota ==
    ASSUME ContentAssumption, ContentInv, QuotaInv, NEW q \in Requests,
           Insert(q) \/ FindOne(q) \/ Write(q)
    PROVE  QuotaInv'
<1>1. /\ UNCHANGED <<tier, had, row>>
      /\ \A p \in Requests \ {q} : req'[p] = req[p]
      /\ req'[q].id = req[q].id /\ req'[q].op = req[q].op
  BY DEF Insert, FindOne, Write, Advance, ContentInv, TypeOK
<1>2. req[q].op = "create" => req[q].step = "entitled"
  BY DEF Insert, FindOne, Write, ContentInv, ReadersChange
<1>3. \A p \in Requests : p \in Admitted' => p \in Admitted /\ req'[p].id = req[p].id
  BY <1>1, <1>2 DEF Admitted
<1>4. QED
  BY <1>1, <1>3, NothingAdmitted DEF Existing

\* A request that ends, or is let in by the first guard, is not admitted.
LEMMA CommitQuota ==
    ASSUME ContentAssumption, ContentInv, QuotaInv, NEW q \in Requests,
           CommitCreate(q) \/ CommitUpdate(q) \/ CommitDelete(q)
    PROVE  QuotaInv'
<1>1. /\ UNCHANGED <<tier, had>>
      /\ req'[q] = Idle /\ \A p \in Requests \ {q} : req'[p] = req[p]
  BY DEF CommitCreate, CommitUpdate, CommitDelete, Finish, ContentInv, TypeOK
<1>2. \A p \in Requests : p \in Admitted' => p \in Admitted /\ req'[p].id = req[p].id
  BY <1>1 DEF Admitted, Idle
<1>3. row \in [Ids -> Row \union {NoRow}] /\ ~NoRow.there
  BY DEF ContentInv, TypeOK, NoRow
<1>4. ASSUME NEW i \in Ids, i \in Existing("entry")'
      PROVE  i \in Existing("entry") \union Coming
  <2>1. row'[i].there /\ KindOf[i] = "entry"
    BY <1>4 DEF Existing
  <2>2. CASE row[i].there
    BY <2>1, <2>2 DEF Existing
  <2>3. CASE ~row[i].there
    <3>1. ~CommitUpdate(q)
      BY <1>3, <2>1, <2>3 DEF CommitUpdate
    <3>2. ~CommitDelete(q)
      BY <1>3, <2>1, <2>3 DEF CommitDelete
    <3>3. CommitCreate(q) /\ req[q].id = i
      BY <1>3, <2>1, <2>3, <3>1, <3>2 DEF CommitCreate
    <3>4. q \in Admitted
      BY <2>1, <3>3 DEF Admitted, CommitCreate
    <3>5. QED  BY <3>3, <3>4 DEF Coming
  <2>4. QED  BY <2>2, <2>3
<1>5. QED
  BY <1>1, <1>2, <1>4, NothingAdmitted

LEMMA BeginQuota ==
    ASSUME ContentAssumption, ContentInv, QuotaInv, NEW q \in Requests,
           Begin(q) \/ RequestFails(q)
    PROVE  QuotaInv'
<1>1. /\ UNCHANGED <<tier, had, row>>
      /\ req'[q].step \in {"idle", "known"} /\ \A p \in Requests \ {q} : req'[p] = req[p]
  BY DEF Begin, PlanAccess, Asked, RequestFails, Finish, Idle, ContentInv, TypeOK
<1>2. \A p \in Requests : p \in Admitted' => p \in Admitted /\ req'[p].id = req[p].id
  BY <1>1 DEF Admitted
<1>3. QED
  BY <1>1, <1>2, NothingAdmitted DEF Existing

LEMMA InitQuota ==
    ASSUME ContentAssumption, Init
    PROVE  QuotaInv
<1>1. Existing("entry") = {} /\ Coming = {}
  BY DEF Init, Existing, Coming, Admitted, Idle, NoRow
<1>2. Cardinality(Existing("entry") \union Coming) = 0
  BY <1>1, FS_EmptySet
<1>3. Cardinality(Requests) \in Nat /\ Cardinality(Requests) # 0
  BY FS_CardinalityType, FS_EmptySet DEF ContentAssumption
<1>4. 0 <= FreeEntries + Cardinality(Requests) - 1
  BY <1>3, LimitAssumption
<1>5. QED
  BY <1>2, <1>4 DEF QuotaInv, Init

LEMMA NextQuota ==
    ASSUME ContentAssumption, ContentInv, QuotaInv, [Next]_vars
    PROVE  QuotaInv'
<1>1. ASSUME NEW q \in Requests, Begin(q) \/ Proceed(q) \/ RequestFails(q)
      PROVE  QuotaInv'
  BY <1>1, BeginQuota, EntitledQuota, ProceedQuota, CommitQuota DEF Proceed
<1>2. ASSUME NEW c \in Contacts, NEW l \in Levels \union {"none"}, ChangeLevel(c, l)
      PROVE  QuotaInv'
  BY <1>2, NothingAdmitted DEF ChangeLevel, Admitted, Existing
<1>3. ASSUME NEW t \in TiersSeen, ChangeTier(t)
      PROVE  QuotaInv'
  <2>1. tier' \in had' /\ had' # {"free"}
    BY <1>3 DEF ChangeTier, QuotaInv
  <2>2. QED  BY <2>1 DEF QuotaInv
<1>4. CASE UNCHANGED vars
  BY <1>4, NothingAdmitted DEF vars, Admitted, Existing
<1>5. QED
  BY <1>1, <1>2, <1>3, <1>4 DEF Next

\* A plan that was free all along exceeds its entries by less than the number
\* of requests in flight.
THEOREM Overshoot == Spec => []QuotaOvershoot
<1>1. Init => QuotaInv
  BY InitQuota, ContentAssumption
<1>2. ContentInv /\ QuotaInv /\ [Next]_vars => QuotaInv'
  BY NextQuota, ContentAssumption
<1>3. ASSUME ContentInv, QuotaInv
      PROVE  QuotaOvershoot
  <2>1. /\ IsFiniteSet(Existing("entry") \union Coming)
        /\ Cardinality(Existing("entry") \union Coming) \in Nat
        /\ Cardinality(Requests) \in Nat
    BY <1>3, FewIds, ContentAssumption
  <2>2. /\ Cardinality(Existing("entry")) \in Nat
        /\ Cardinality(Existing("entry")) <= Cardinality(Existing("entry") \union Coming)
    BY <2>1, FS_Subset, FS_CardinalityType
  <2>3. QED
    BY <1>3, <2>1, <2>2, LimitAssumption DEF QuotaInv, QuotaOvershoot, CountUsage
<1>4. QED
  BY <1>1, <1>2, <1>3, ContentInvariance, PTL DEF Spec

=============================================================================
