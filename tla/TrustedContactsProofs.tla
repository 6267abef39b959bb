----------------------- MODULE TrustedContactsProofs -----------------------
(***************************************************************************)
(* Theorems about TrustedContacts, for any accounts, addresses, ids and    *)
(* number of requests: its type invariant, that ended access does not come *)
(* back by itself, that its end takes the key copy, and that the requests, *)
(* statement by statement, implement AccessLedger.                         *)
(***************************************************************************)
EXTENDS TrustedContacts, TLAPS

(***************************************************************************)
(* The inductive invariant: what each request has in hand                  *)
(***************************************************************************)
\* A request that updates a record has its id; one that links an account or
\* stores a copy for it has the account; an invitation has its address.
FieldsOf(q) ==
    /\ req[q].op \in {"accept", "reinviting"} \union Ending => req[q].id \in Ids
    /\ req[q].op \in {"accept", "store"} => req[q].user \in Users
    /\ req[q].op = "create" => req[q].email \in Emails

\* The invitation an acceptance has read is still one, or was accepted by
\* another one, unless it was ended since.
Fresh(q) == req[q].op = "accept" /\ q \notin outdated => contact[req[q].id].status \in Active

\* A request that ends a record and has not deleted copies yet has read whom the
\* record is linked to; any other linked account has no copy, or raced.
Knows(q) ==
    LET u == contact[req[q].id].user
    IN  req[q].op \in Ending /\ u \in dek => u \in raced \/ (u = req[q].user /\ req[q].op # "declined")

\* The record that a re-invitation has updated, and holds the lock of, is there.
Holds(q) == req[q].op = "reinviting" => contact[req[q].id] # NoContact

ContactInv ==
    /\ TypeOK
    /\ \A q \in Requests : FieldsOf(q) /\ Fresh(q) /\ Knows(q) /\ Holds(q)

(***************************************************************************)
(* Rows and requests                                                       *)
(***************************************************************************)
\* Who is in the table is a contact; the empty row is of no address and account.
LEMMA Rows ==
    ASSUME TypeOK, NEW i \in Ids
    PROVE  /\ contact[i] \in Contact \union {NoContact}
           /\ contact[i] # NoContact => contact[i] \in Contact
           /\ contact[i].user \in Users \union {Null}
           /\ contact[i].status \in Active => contact[i] # NoContact
           /\ NoContact.user = Null /\ NoContact.status \notin Active
<1>1. contact[i] \in Contact \union {NoContact}
  BY DEF TypeOK
<1>2. CASE contact[i] \in Contact
  BY <1>2 DEF Contact, NoContact, Active
<1>3. CASE contact[i] = NoContact
  BY <1>3 DEF NoContact, Active
<1>4. QED
  BY <1>1, <1>2, <1>3

\* A record's status is set, or there is no record; the links stay.
LEMMA StatusSet ==
    ASSUME TypeOK, NEW i \in Ids, NEW status \in Active \union Ended, SetStatus(i, status)
    PROVE  /\ contact' \in [Ids -> Contact \union {NoContact}]
           /\ \A j \in Ids : contact'[j].user = contact[j].user
           /\ \A j \in Ids : j # i => contact'[j] = contact[j]
           /\ contact[i] # NoContact => contact'[i].status = status
           /\ contact[i] = NoContact => contact'[i] = NoContact
<1>1. CASE contact[i] = NoContact
  BY <1>1 DEF SetStatus, TypeOK
<1>2. CASE contact[i] # NoContact
  <2>1. contact[i] \in Contact
    BY <1>2, Rows
  <2>2. contact' = [contact EXCEPT ![i] = [contact[i] EXCEPT !.status = status]]
    BY <1>2 DEF SetStatus
  <2>3. /\ [contact[i] EXCEPT !.status = status] \in Contact
        /\ [contact[i] EXCEPT !.status = status].user = contact[i].user
        /\ [contact[i] EXCEPT !.status = status].status = status
    BY <2>1 DEF Contact
  <2>4. QED
    BY <1>2, <2>2, <2>3 DEF TypeOK
<1>3. QED  BY <1>1, <1>2

\* One request changes, the others stay.
LEMMA OneMoves ==
    ASSUME TypeOK, NEW q \in Requests, NEW r \in Request, req' = [req EXCEPT ![q] = r]
    PROVE  /\ req' \in [Requests -> Request]
           /\ req'[q] = r
           /\ \A p \in Requests \ {q} : req'[p] = req[p]
  BY DEF TypeOK

LEMMA IdleRequest == Idle \in Request /\ Idle.op = "idle"
  BY DEF Idle, Request, Ops

LEMMA Finished ==
    ASSUME TypeOK, NEW q \in Requests, Finish(q)
    PROVE  /\ req' \in [Requests -> Request]
           /\ req'[q] = Idle
           /\ \A p \in Requests \ {q} : req'[p] = req[p]
  BY IdleRequest, OneMoves DEF Finish

LEMMA Gone ==
    ASSUME TypeOK, NEW q \in Requests, NEW op \in Ops, Goto(q, op)
    PROVE  /\ req' \in [Requests -> Request]
           /\ req'[q].op = op /\ req'[q].id = req[q].id /\ req'[q].user = req[q].user
           /\ req'[q].email = req[q].email
           /\ \A p \in Requests \ {q} : req'[p] = req[p]
<1>1. req[q] \in Request
  BY DEF TypeOK
<1>2. req' = [req EXCEPT ![q] = [req[q] EXCEPT !.op = op]]
  BY DEF Goto
<1>3. [req[q] EXCEPT !.op = op] \in Request
  BY <1>1 DEF Request
<1>4. QED
  BY <1>1, <1>2, <1>3, OneMoves DEF Request

\* A step of one request, and what it must leave the others: a record that
\* loses its invitation makes its acceptances outdated, and an account that a
\* record is linked to has a copy it did not have only as one that raced.
LEMMA StepKeeps ==
    ASSUME ContactInv, NEW q \in Requests, TypeOK',
           \A p \in Requests \ {q} :
             /\ req'[p] = req[p]
             /\ p \in outdated => p \in outdated'
             /\ req[p].op = "reinviting" => contact'[req[p].id] # NoContact
             /\ req[p].op = "accept" /\ contact[req[p].id].status \in Active
                  => contact'[req[p].id].status \in Active \/ p \in outdated'
             /\ req[p].op \in Ending /\ contact'[req[p].id].user \in dek'
                  => \/ contact'[req[p].id].user \in raced'
                     \/ /\ contact'[req[p].id].user = contact[req[p].id].user
                        /\ contact[req[p].id].user \in dek
                        /\ contact[req[p].id].user \notin raced,
           FieldsOf(q)', Fresh(q)', Knows(q)', Holds(q)'
    PROVE  ContactInv'
<1>1. ASSUME NEW p \in Requests
      PROVE  FieldsOf(p)' /\ Fresh(p)' /\ Knows(p)' /\ Holds(p)'
  <2>1. CASE p = q
    BY <2>1
  <2>2. CASE p # q
    <3>1. FieldsOf(p)'
      BY <2>2 DEF ContactInv, FieldsOf
    <3>2. Fresh(p)'
      BY <2>2 DEF ContactInv, Fresh
    <3>3. Knows(p)'
      BY <2>2 DEF ContactInv, Knows
    <3>4. Holds(p)'
      BY <2>2 DEF Holds
    <3>5. QED  BY <3>1, <3>2, <3>3, <3>4
  <2>3. QED  BY <2>1, <2>2
<1>2. QED
  BY <1>1 DEF ContactInv

\* Nothing but the request changes: the others need nothing.
LEMMA QuietStep ==
    ASSUME ContactInv, NEW q \in Requests, req' \in [Requests -> Request],
           \A p \in Requests \ {q} : req'[p] = req[p] /\ (p \in outdated => p \in outdated'),
           outdated' \subseteq Requests,
           UNCHANGED <<contact, invited, dek, alive, raced>>,
           FieldsOf(q)', Fresh(q)', Knows(q)', Holds(q)'
    PROVE  ContactInv'
<1>1. TypeOK'
  BY DEF ContactInv, TypeOK
<1>2. \A p \in Requests \ {q} : Knows(p) /\ Holds(p) /\ Fresh(p)
  BY DEF ContactInv
<1>3. QED
  BY <1>1, <1>2, StepKeeps DEF Knows, Holds

LEMMA FinishKeeps ==
    ASSUME ContactInv, NEW q \in Requests, Finish(q),
           UNCHANGED <<contact, invited, dek, alive, outdated, raced>>
    PROVE  ContactInv'
<1>1. /\ req' \in [Requests -> Request]
      /\ req'[q] = Idle
      /\ \A p \in Requests \ {q} : req'[p] = req[p]
  BY Finished DEF ContactInv
<1>2. FieldsOf(q)' /\ Fresh(q)' /\ Knows(q)' /\ Holds(q)'
  BY <1>1, IdleRequest DEF FieldsOf, Fresh, Knows, Holds, Ending
<1>3. outdated' \subseteq Requests
  BY DEF ContactInv, TypeOK
<1>4. QED
  BY <1>1, <1>2, <1>3, QuietStep

\* A request begins with what its SELECT returned.
LEMMA BeginKeeps ==
    ASSUME ContactInv, NEW q \in Requests, NEW op \in Ops \ {"declined", "reinviting"},
           NEW i \in Ids \union {Null}, NEW u \in Users \union {Null},
           NEW e \in Emails \union {Null}, Begin(q, op, i, u, e),
           op \in {"accept"} \union Ending => i \in Ids,
           op \in {"accept", "store"} => u \in Users,
           op = "create" => e \in Emails,
           op = "accept" => contact[i].status \in Active,
           op \in Ending => contact[i].user = u
    PROVE  ContactInv'
<1> DEFINE r == [op |-> op, id |-> i, user |-> u, email |-> e]
<1>1. r \in Request
  BY DEF Request
<1>2. /\ req' \in [Requests -> Request]
      /\ req'[q] = r
      /\ \A p \in Requests \ {q} : req'[p] = req[p]
  BY <1>1, OneMoves DEF Begin, ContactInv
<1>3. FieldsOf(q)' /\ Fresh(q)' /\ Knows(q)' /\ Holds(q)'
  BY <1>2 DEF Begin, FieldsOf, Fresh, Knows, Holds
<1>4. /\ outdated' \subseteq Requests
      /\ UNCHANGED <<contact, invited, dek, alive, raced>>
      /\ \A p \in Requests \ {q} : p \in outdated => p \in outdated'
  BY DEF Begin, ContactInv, TypeOK
<1>5. QED
  BY <1>2, <1>3, <1>4, QuietStep

LEMMA StartKeeps ==
    ASSUME NullAssumption, ContactInv, NEW q \in Requests, Start(q)
    PROVE  ContactInv'
<1> USE DEF Ops, RowLocking, Ending
<1>1. TypeOK
  BY DEF ContactInv
<1>2. ASSUME NEW e \in Emails, NEW k \in Users \union {Null}, CreateSelect(q, e, k)
      PROVE  ContactInv'
  <2>1. CASE Begin(q, "create", Null, k, e)
    BY <2>1, BeginKeeps
  <2>2. ASSUME NEW i \in Ids, Begin(q, "create", i, k, e)
        PROVE  ContactInv'
    BY <2>2, BeginKeeps
  <2>3. QED  BY <1>2, <2>1, <2>2 DEF CreateSelect
<1>3. ASSUME NEW i \in Ids,
             DeclineSelect(q, i) \/ RevokeSelect(q, i) \/ LeaveSelect(q, i) \/ DeleteSelect(q, i)
      PROVE  ContactInv'
  <2>1. contact[i].user \in Users \union {Null}
    BY <1>1, Rows
  <2>2. CASE DeclineSelect(q, i)
    <3>1. contact[i] \in Contact
      BY <1>1, <2>2, Rows DEF DeclineSelect, Active
    <3>2. contact[i].email \in Emails \union {Null}
      BY <3>1 DEF Contact
    <3>3. QED
      BY <2>1, <2>2, <3>2, BeginKeeps DEF DeclineSelect
  <2>3. CASE RevokeSelect(q, i)
    BY <2>1, <2>3, BeginKeeps DEF RevokeSelect
  <2>4. CASE LeaveSelect(q, i)
    BY <2>1, <2>4, BeginKeeps DEF LeaveSelect
  <2>5. CASE DeleteSelect(q, i)
    BY <2>1, <2>5, BeginKeeps DEF DeleteSelect
  <2>6. QED  BY <1>3, <2>2, <2>3, <2>4, <2>5
<1>4. ASSUME NEW i \in Ids, NEW u \in Users, AcceptSelect(q, i, u)
      PROVE  ContactInv'
  BY <1>4, BeginKeeps DEF AcceptSelect, Active
<1>5. ASSUME NEW u \in Users, StoreSelect(q, u)
      PROVE  ContactInv'
  BY <1>5, BeginKeeps DEF StoreSelect
<1>6. QED
  BY <1>2, <1>3, <1>4, <1>5 DEF Start

\* An UPDATE has run, and waits for its commit.
LEMMA UpdateKeeps ==
    ASSUME NullAssumption, ContactInv, NEW q \in Requests,
           ReinviteUpdate(q) \/ DeclineUpdate(q) \/ RevokeUpdate(q)
    PROVE  ContactInv'
<1>1. PICK op \in Ops :
         /\ Goto(q, op)
         /\ \/ /\ req[q].op = "create" /\ op = "reinviting" /\ req[q].id # Null
               /\ contact[req[q].id] # NoContact
            \/ req[q].op \in Ending /\ op \in Ending \ {"declined"} /\ req[q].op # "declined"
  BY DEF ReinviteUpdate, DeclineUpdate, RevokeUpdate, Ops, RowLocking, Ending
<1>2. /\ req' \in [Requests -> Request]
      /\ req'[q].op = op /\ req'[q].id = req[q].id /\ req'[q].user = req[q].user
      /\ req'[q].email = req[q].email
      /\ \A p \in Requests \ {q} : req'[p] = req[p]
  BY <1>1, Gone DEF ContactInv
<1>3. UNCHANGED <<contact, invited, dek, alive, outdated, raced>>
  BY DEF ReinviteUpdate, DeclineUpdate, RevokeUpdate
<1>4. req[q].id \in Ids \union {Null}
  BY DEF ContactInv, TypeOK, Request
<1>5. FieldsOf(q) /\ Fresh(q) /\ Knows(q)
  BY DEF ContactInv
<1>6. FieldsOf(q)' /\ Fresh(q)' /\ Knows(q)' /\ Holds(q)'
  BY <1>1, <1>2, <1>3, <1>4, <1>5 DEF FieldsOf, Fresh, Knows, Holds, Ending
<1>7. outdated' \subseteq Requests
  BY <1>3 DEF ContactInv, TypeOK
<1>8. QED
  BY <1>2, <1>3, <1>6, <1>7, QuietStep


(***************************************************************************)
(* Commits                                                                 *)
(***************************************************************************)
\* Copies that are deleted leave no copy unaccounted for.
LEMMA FewerCopies ==
    ASSUME ContactInv, NEW p \in Requests, NEW v,
           v = contact[req[p].id].user, req[p].op \in Ending, v \in dek',
           dek' \subseteq dek, raced \intersect dek' \subseteq raced'
    PROVE  v \in raced' \/ (v \in dek /\ v \notin raced)
  OBVIOUS

\* A copy that is stored while a request ends a record of its account races.
LEMMA SharedCopies ==
    ASSUME NEW p \in Requests, req[p].op \in Ending,
           NEW k, NEW v, v = contact[req[p].id].user, v \in dek \union ({k} \ {Null}),
           raced' = raced \union {u \in {k} \ {Null} : Races(u)}
    PROVE  v \in raced' \/ (v \in dek /\ v \notin raced)
  BY DEF Races

\* The record is ended or deleted, and the requests that had read it are outdated.
LEMMA EndKeeps ==
    ASSUME NullAssumption, ContactInv, NEW q \in Requests, NEW i \in Ids, i = req[q].id,
           Finish(q), Outdates(i, q), UNCHANGED <<invited, alive>>,
           contact' \in [Ids -> Contact \union {NoContact}],
           \A j \in Ids : j # i => contact'[j] = contact[j],
           contact'[i].user \in {contact[i].user, Null},
           contact'[i] = NoContact => contact[i] = NoContact \/ ~RowLocked(i, q),
           dek' \subseteq dek, raced' = raced \intersect dek' \/ UNCHANGED raced
    PROVE  ContactInv'
<1>1. /\ req' \in [Requests -> Request]
      /\ req'[q] = Idle
      /\ \A p \in Requests \ {q} : req'[p] = req[p]
  BY Finished DEF ContactInv
<1>2. outdated' = outdated \union {p \in Requests \ {q} : req[p].id = i}
  BY DEF Outdates
<1>3. TypeOK'
  BY <1>1, <1>2 DEF ContactInv, TypeOK
<1>4. FieldsOf(q)' /\ Fresh(q)' /\ Knows(q)' /\ Holds(q)'
  BY <1>1, IdleRequest DEF FieldsOf, Fresh, Knows, Holds, Ending
<1>5. ASSUME NEW p \in Requests \ {q}, req[p].op = "accept", contact[req[p].id].status \in Active
      PROVE  contact'[req[p].id].status \in Active \/ p \in outdated'
  <2>1. req[p].id \in Ids
    BY <1>5 DEF ContactInv, FieldsOf
  <2>2. QED  BY <1>2, <1>5, <2>1
<1>6. ASSUME NEW p \in Requests \ {q}, req[p].op \in Ending, contact'[req[p].id].user \in dek'
      PROVE  \/ contact'[req[p].id].user \in raced'
             \/ /\ contact'[req[p].id].user = contact[req[p].id].user
                /\ contact[req[p].id].user \in dek
                /\ contact[req[p].id].user \notin raced
  <2>1. req[p].id \in Ids
    BY <1>6 DEF ContactInv, FieldsOf
  <2>2. Null \notin dek'
    BY <1>3, NullAssumption DEF TypeOK
  <2>3. contact'[req[p].id].user = contact[req[p].id].user
    BY <1>6, <2>1, <2>2
  <2>4. QED
    BY <1>6, <2>3, FewerCopies
<1>7. ASSUME NEW p \in Requests \ {q}, req[p].op = "reinviting"
      PROVE  contact'[req[p].id] # NoContact
  <2>1. req[p].id \in Ids /\ contact[req[p].id] # NoContact
    BY <1>7 DEF ContactInv, FieldsOf, Holds
  <2>2. req[p].id = i => RowLocked(i, q)
    BY <1>7 DEF RowLocked, RowLocking
  <2>3. QED  BY <2>1, <2>2
<1>8. QED
  BY <1>1, <1>2, <1>3, <1>4, <1>5, <1>6, <1>7, StepKeeps

LEMMA EndedKeeps ==
    ASSUME NullAssumption, ContactInv, NEW q \in Requests,
           DeclineCommit(q) \/ RevokeCommit(q) \/ DeleteCommit(q)
    PROVE  ContactInv'
<1> DEFINE i == req[q].id
<1>1. i \in Ids /\ TypeOK
  BY DEF ContactInv, FieldsOf, DeclineCommit, RevokeCommit, DeleteCommit, Ending
<1>2. CASE DeclineCommit(q)
  <2>1. SetStatus(i, "declined")
    BY <1>2 DEF DeclineCommit
  <2>2. /\ contact' \in [Ids -> Contact \union {NoContact}]
        /\ \A j \in Ids : j # i => contact'[j] = contact[j]
        /\ contact'[i].user = contact[i].user
        /\ contact'[i] = NoContact => contact[i] = NoContact
    BY <1>1, <2>1, StatusSet DEF Ended, NoContact
  <2>3. QED
    BY <1>1, <1>2, <2>2, EndKeeps DEF DeclineCommit
<1>3. CASE RevokeCommit(q)
  <2>1. PICK status \in Ended : SetStatus(i, status)
    BY <1>3 DEF RevokeCommit, Ended
  <2>2. /\ contact' \in [Ids -> Contact \union {NoContact}]
        /\ \A j \in Ids : j # i => contact'[j] = contact[j]
        /\ contact'[i].user = contact[i].user
        /\ contact'[i] = NoContact => contact[i] = NoContact
    BY <1>1, <2>1, StatusSet DEF Ended, NoContact
  <2>3. QED
    BY <1>1, <1>3, <2>2, EndKeeps DEF RevokeCommit
<1>4. CASE DeleteCommit(q)
  <2>1. /\ contact' \in [Ids -> Contact \union {NoContact}]
        /\ \A j \in Ids : j # i => contact'[j] = contact[j]
        /\ contact'[i].user = Null
    BY <1>1, <1>4 DEF DeleteCommit, TypeOK, NoContact
  <2>2. QED
    BY <1>1, <1>4, <2>1, EndKeeps DEF DeleteCommit
<1>5. QED  BY <1>2, <1>3, <1>4

\* A decline's other connection, and a delete, take the copies they know of.
LEMMA DropKeeps ==
    ASSUME NullAssumption, ContactInv, NEW q \in Requests, DeclineDropKey(q) \/ DeleteKey(q)
    PROVE  ContactInv'
<1>1. FieldsOf(q) /\ Knows(q) /\ req[q].op \in Ending /\ req[q].op # "declined"
  BY DEF ContactInv, DeclineDropKey, DeleteKey, Ending
<1>2. CASE DeclineDropKey(q)
  <2>1. /\ req' \in [Requests -> Request]
        /\ req'[q].op = "declined" /\ req'[q].id = req[q].id
        /\ \A p \in Requests \ {q} : req'[p] = req[p]
    BY <1>2, Gone DEF DeclineDropKey, ContactInv, Ops, RowLocking
  <2>2. /\ dek' = dek \ {DeclineRecipient(q)} /\ raced' = raced \intersect dek'
        /\ UNCHANGED <<contact, invited, alive, outdated>>
    BY <1>2 DEF DeclineDropKey
  <2>3. TypeOK'
    BY <2>1, <2>2 DEF ContactInv, TypeOK
  <2>4. FieldsOf(q)' /\ Fresh(q)' /\ Holds(q)'
    BY <1>1, <2>1 DEF FieldsOf, Fresh, Holds, Ending
  <2>5. Knows(q)'
    <3>1. req[q].user \in Users => DeclineRecipient(q) = req[q].user
      BY NullAssumption DEF DeclineRecipient
    <3>2. dek \subseteq Users
      BY DEF ContactInv, TypeOK
    <3>3. QED
      BY <1>1, <2>1, <2>2, <3>1, <3>2 DEF Knows
  <2>6. QED
    BY <2>1, <2>2, <2>3, <2>4, <2>5, FewerCopies, StepKeeps DEF ContactInv, Holds
<1>3. CASE DeleteKey(q)
  <2> DEFINE u == IF req[q].user \in dek THEN req[q].user ELSE Null
             r == [req[q] EXCEPT !.op = "deleting", !.user = u]
  <2>1. req[q] \in Request
    BY DEF ContactInv, TypeOK
  <2>2. r \in Request /\ r.op = "deleting" /\ r.id = req[q].id /\ r.user = u
    BY <2>1 DEF Request, Ops, Ending
  <2>3. req' = [req EXCEPT ![q] = r]
    BY <1>3 DEF DeleteKey
  <2>4. /\ req' \in [Requests -> Request]
        /\ req'[q] = r
        /\ \A p \in Requests \ {q} : req'[p] = req[p]
    BY <2>2, <2>3, OneMoves DEF ContactInv
  <2>5. UNCHANGED <<contact, invited, dek, alive, outdated, raced>> /\ outdated' \subseteq Requests
    BY <1>3 DEF DeleteKey, ContactInv, TypeOK
  <2>6. FieldsOf(q)' /\ Fresh(q)' /\ Holds(q)'
    BY <1>1, <2>2, <2>4 DEF FieldsOf, Fresh, Holds, Ending
  <2>7. Knows(q)'
    BY <1>1, <2>2, <2>4, <2>5 DEF Knows
  <2>8. QED
    BY <2>4, <2>5, <2>6, <2>7, QuietStep
<1>4. QED  BY <1>2, <1>3


\* An invitation, and a re-invitation: the record is pending, linked as it was
\* or not at all, and a copy may be stored with it.
LEMMA InviteKeeps ==
    ASSUME NullAssumption, ContactInv, NEW q \in Requests, NEW i \in Ids,
           Finish(q), ShareAhead(req[q].user, q), UNCHANGED alive, invited' \subseteq Ids,
           outdated \subseteq outdated', outdated' \subseteq Requests,
           contact' \in [Ids -> Contact \union {NoContact}],
           \A j \in Ids : j # i => contact'[j] = contact[j],
           contact'[i].status = "pending",
           contact'[i].user \in {contact[i].user, Null}
    PROVE  ContactInv'
<1>1. /\ req' \in [Requests -> Request]
      /\ req'[q] = Idle
      /\ \A p \in Requests \ {q} : req'[p] = req[p]
  BY Finished DEF ContactInv
<1>2. req[q].user \in Users \union {Null}
  BY DEF ContactInv, TypeOK, Request
<1>3. TypeOK'
  BY <1>1, <1>2 DEF ContactInv, TypeOK, ShareAhead
<1>4. FieldsOf(q)' /\ Fresh(q)' /\ Knows(q)' /\ Holds(q)'
  BY <1>1, IdleRequest DEF FieldsOf, Fresh, Knows, Holds, Ending
<1>5. ASSUME NEW p \in Requests \ {q}, req[p].op = "accept", contact[req[p].id].status \in Active
      PROVE  contact'[req[p].id].status \in Active \/ p \in outdated'
  <2>1. req[p].id \in Ids
    BY <1>5 DEF ContactInv, FieldsOf
  <2>2. QED  BY <1>5, <2>1 DEF Active
<1>6. ASSUME NEW p \in Requests \ {q}, req[p].op \in Ending, contact'[req[p].id].user \in dek'
      PROVE  \/ contact'[req[p].id].user \in raced'
             \/ /\ contact'[req[p].id].user = contact[req[p].id].user
                /\ contact[req[p].id].user \in dek
                /\ contact[req[p].id].user \notin raced
  <2>1. req[p].id \in Ids
    BY <1>6 DEF ContactInv, FieldsOf
  <2>2. Null \notin dek'
    BY <1>3, NullAssumption DEF TypeOK
  <2>3. contact'[req[p].id].user = contact[req[p].id].user
    BY <1>6, <2>1, <2>2
  <2>4. QED
    BY <1>6, <2>3, SharedCopies DEF ShareAhead
<1>7. ASSUME NEW p \in Requests \ {q}, req[p].op = "reinviting"
      PROVE  contact'[req[p].id] # NoContact
  BY <1>7 DEF ContactInv, FieldsOf, Holds, NoContact
<1>8. QED
  BY <1>1, <1>3, <1>4, <1>5, <1>6, <1>7, StepKeeps

LEMMA InvitedKeeps ==
    ASSUME NullAssumption, ContactInv, NEW q \in Requests, CreateInsert(q) \/ ReinviteCommit(q)
    PROVE  ContactInv'
<1>1. TypeOK /\ FieldsOf(q)
  BY DEF ContactInv
<1>2. CASE CreateInsert(q)
  <2>1. PICK i \in Ids \ invited :
          /\ contact' = [contact EXCEPT ![i] =
                            [email |-> req[q].email, status |-> "pending", user |-> Null]]
          /\ invited' = invited \union {i}
          /\ ShareAhead(req[q].user, q)
    BY <1>2 DEF CreateInsert
  <2>2. [email |-> req[q].email, status |-> "pending", user |-> Null] \in Contact
    BY <1>1, <1>2 DEF FieldsOf, CreateInsert, Contact, Active
  <2>3. /\ contact' \in [Ids -> Contact \union {NoContact}]
        /\ \A j \in Ids : j # i => contact'[j] = contact[j]
        /\ contact'[i].status = "pending" /\ contact'[i].user = Null
    BY <1>1, <2>1, <2>2 DEF TypeOK
  <2>4. invited' \subseteq Ids /\ outdated' = outdated /\ outdated \subseteq Requests
    BY <1>1, <1>2, <2>1 DEF TypeOK, CreateInsert
  <2>5. QED
    BY <1>2, <2>1, <2>3, <2>4, InviteKeeps DEF CreateInsert
<1>3. CASE ReinviteCommit(q)
  <2> DEFINE i == req[q].id
             c == [contact[i] EXCEPT !.status = "pending"]
  <2>1. i \in Ids
    BY <1>1, <1>3 DEF FieldsOf, ReinviteCommit
  <2>2. contact' = [contact EXCEPT ![i] = c]
    BY <1>3 DEF ReinviteCommit
  <2>3. contact[i] \in Contact
    BY <1>1, <1>3, <2>1, Rows DEF ContactInv, Holds, ReinviteCommit
  <2>4. c \in Contact /\ c.status = "pending" /\ c.user = contact[i].user
    BY <2>3 DEF Contact, Active
  <2>5. /\ contact' \in [Ids -> Contact \union {NoContact}]
        /\ \A j \in Ids : j # i => contact'[j] = contact[j]
        /\ contact'[i] = c
    BY <1>1, <2>1, <2>2, <2>4 DEF TypeOK
  <2>6. invited' \subseteq Ids /\ outdated \subseteq outdated' /\ outdated' \subseteq Requests
    BY <1>1, <1>3 DEF ReinviteCommit, Outdates, TypeOK
  <2>7. QED
    BY <1>3, <2>1, <2>4, <2>5, <2>6, InviteKeeps DEF ReinviteCommit
<1>4. QED  BY <1>2, <1>3


\* An acceptance links the account, which races with whoever ends the record.
LEMMA AcceptKeeps ==
    ASSUME NullAssumption, ContactInv, NEW q \in Requests, AcceptCommit(q)
    PROVE  ContactInv'
<1> DEFINE i == req[q].id
           u == req[q].user
           c == [contact[i] EXCEPT !.status = "accepted", !.user = u]
<1>1. i \in Ids /\ u \in Users /\ TypeOK /\ contact[i] \in Contact
  BY Rows DEF ContactInv, FieldsOf, AcceptCommit
<1>2. c \in Contact /\ c.status = "accepted" /\ c.user = u /\ c # NoContact
  BY <1>1 DEF Contact, Active, NoContact
<1>3. contact' = [contact EXCEPT ![i] = c]
  BY DEF AcceptCommit
<1>4. /\ contact' \in [Ids -> Contact \union {NoContact}]
      /\ contact'[i] = c /\ \A j \in Ids : j # i => contact'[j] = contact[j]
  BY <1>1, <1>2, <1>3 DEF TypeOK
<1>5. /\ req' \in [Requests -> Request]
      /\ req'[q] = Idle
      /\ \A p \in Requests \ {q} : req'[p] = req[p]
  BY <1>1, Finished DEF AcceptCommit
<1>6. /\ raced' = raced \union {v \in {u} : \E p \in Requests : req[p].op \in Ending /\ req[p].id = i}
      /\ outdated' = outdated \union {p \in Requests \ {q} : req[p].id = i}
      /\ UNCHANGED <<invited, dek, alive>>
  BY DEF AcceptCommit, Outdates
<1>7. TypeOK'
  BY <1>1, <1>4, <1>5, <1>6 DEF TypeOK
<1>8. FieldsOf(q)' /\ Fresh(q)' /\ Knows(q)' /\ Holds(q)'
  BY <1>5, IdleRequest DEF FieldsOf, Fresh, Knows, Holds, Ending
<1>9. ASSUME NEW p \in Requests \ {q}
      PROVE  /\ req[p].op = "reinviting" => contact'[req[p].id] # NoContact
             /\ req[p].op = "accept" /\ contact[req[p].id].status \in Active
                  => contact'[req[p].id].status \in Active \/ p \in outdated'
             /\ req[p].op \in Ending /\ contact'[req[p].id].user \in dek'
                  => \/ contact'[req[p].id].user \in raced'
                     \/ /\ contact'[req[p].id].user = contact[req[p].id].user
                        /\ contact[req[p].id].user \in dek
                        /\ contact[req[p].id].user \notin raced
  <2>1. req[p].op \in {"accept", "reinviting"} \union Ending => req[p].id \in Ids
    BY DEF ContactInv, FieldsOf
  <2>2. CASE req[p].id = i
    BY <1>2, <1>4, <1>6, <2>2 DEF Active
  <2>3. CASE req[p].id # i
    BY <1>4, <1>6, <2>1, <2>3 DEF ContactInv, Holds
  <2>4. QED  BY <2>2, <2>3
<1>10. QED
  BY <1>5, <1>6, <1>7, <1>8, <1>9, StepKeeps

LEMMA StoreKeeps ==
    ASSUME NullAssumption, ContactInv, NEW q \in Requests, StoreCommit(q)
    PROVE  ContactInv'
<1>1. req[q].user \in Users
  BY DEF ContactInv, FieldsOf, StoreCommit
<1>2. /\ req' \in [Requests -> Request]
      /\ req'[q] = Idle
      /\ \A p \in Requests \ {q} : req'[p] = req[p]
  BY Finished DEF StoreCommit, ContactInv
<1>3. /\ dek' = dek \union ({req[q].user} \ {Null})
      /\ raced' = raced \union {u \in {req[q].user} \ {Null} : Races(u)}
      /\ UNCHANGED <<contact, invited, alive, outdated>>
  BY <1>1, NullAssumption DEF StoreCommit
<1>4. TypeOK'
  BY <1>1, <1>2, <1>3 DEF ContactInv, TypeOK
<1>5. FieldsOf(q)' /\ Fresh(q)' /\ Knows(q)' /\ Holds(q)'
  BY <1>2, IdleRequest DEF FieldsOf, Fresh, Knows, Holds, Ending
<1>6. ASSUME NEW p \in Requests \ {q}, req[p].op \in Ending, contact'[req[p].id].user \in dek'
      PROVE  \/ contact'[req[p].id].user \in raced'
             \/ /\ contact'[req[p].id].user = contact[req[p].id].user
                /\ contact[req[p].id].user \in dek
                /\ contact[req[p].id].user \notin raced
  BY <1>3, <1>6, SharedCopies
<1>7. QED
  BY <1>2, <1>3, <1>4, <1>5, <1>6, StepKeeps DEF ContactInv, Holds

\* The owner deletes copies, or an account goes and its records are unlinked.
LEMMA AccountKeeps ==
    ASSUME NullAssumption, ContactInv, NEW u \in Users, DeleteDeks(u) \/ DeleteUser(u)
    PROVE  ContactInv'
<1>1. /\ dek' = dek \ {u} /\ raced' = raced \ {u} /\ UNCHANGED <<invited, req, outdated>>
      /\ alive' \subseteq alive
  BY DEF DeleteDeks, DeleteUser
<1>2. ASSUME NEW i \in Ids
      PROVE  /\ contact'[i] \in Contact \union {NoContact}
             /\ contact'[i] = NoContact => contact[i] = NoContact
             /\ contact'[i].status = contact[i].status
             /\ contact'[i].user \in {contact[i].user, Null}
  <2>1. /\ contact[i] \in Contact \union {NoContact}
        /\ contact[i] # NoContact => contact[i] \in Contact
        /\ NoContact.user = Null
    BY Rows DEF ContactInv
  <2>2. CASE contact'[i] = contact[i]
    BY <2>1, <2>2
  <2>3. CASE contact[i].user = u /\ contact'[i] = [contact[i] EXCEPT !.user = Null]
    <3>1. contact[i] \in Contact
      BY <2>1, <2>3, NullAssumption
    <3>2. QED
      BY <2>3, <3>1 DEF Contact, NoContact, Active, Ended
  <2>4. QED
    BY <2>2, <2>3 DEF DeleteDeks, DeleteUser
<1>3. contact' \in [Ids -> Contact \union {NoContact}]
  <2>1. contact' = [i \in Ids |-> contact'[i]]
    BY DEF DeleteDeks, DeleteUser, ContactInv, TypeOK
  <2>2. QED  BY <1>2, <2>1
<1>4. TypeOK'
  BY <1>1, <1>3 DEF ContactInv, TypeOK
<1>5. Null \notin dek'
  BY <1>4, NullAssumption DEF TypeOK
<1>6. ASSUME NEW p \in Requests
      PROVE  FieldsOf(p)' /\ Fresh(p)' /\ Knows(p)' /\ Holds(p)'
  <2>1. FieldsOf(p) /\ Fresh(p) /\ Knows(p) /\ Holds(p)
    BY DEF ContactInv
  <2>2. FieldsOf(p)'
    BY <1>1, <2>1 DEF FieldsOf
  <2>3. Fresh(p)' /\ Holds(p)'
    BY <1>1, <1>2, <2>1 DEF FieldsOf, Fresh, Holds
  <2>4. Knows(p)'
    BY <1>1, <1>2, <1>5, <2>1 DEF FieldsOf, Knows
  <2>5. QED  BY <2>2, <2>3, <2>4
<1>7. QED
  BY <1>4, <1>6 DEF ContactInv

(***************************************************************************)
(* The theorems                                                            *)
(***************************************************************************)
LEMMA InitContacts ==
    ASSUME Init
    PROVE  ContactInv
<1>1. TypeOK
  BY IdleRequest DEF Init, TypeOK
<1>2. ASSUME NEW q \in Requests
      PROVE  FieldsOf(q) /\ Fresh(q) /\ Knows(q) /\ Holds(q)
  BY IdleRequest DEF Init, FieldsOf, Fresh, Knows, Holds, Ending
<1>3. QED
  BY <1>1, <1>2 DEF ContactInv

LEMMA NextContacts ==
    ASSUME NullAssumption, ContactInv, [Next]_vars
    PROVE  ContactInv'
<1>1. ASSUME NEW q \in Requests, Start(q)
      PROVE  ContactInv'
  BY <1>1, StartKeeps
<1>2. ASSUME NEW q \in Requests, Proceed(q)
      PROVE  ContactInv'
  <2>1. CASE ReinviteUpdate(q) \/ DeclineUpdate(q) \/ RevokeUpdate(q)
    BY <2>1, UpdateKeeps
  <2>2. CASE DeclineCommit(q) \/ RevokeCommit(q) \/ DeleteCommit(q)
    BY <2>2, EndedKeeps
  <2>3. CASE DeclineDropKey(q) \/ DeleteKey(q)
    BY <2>3, DropKeeps
  <2>4. CASE CreateInsert(q) \/ ReinviteCommit(q)
    BY <2>4, InvitedKeeps
  <2>5. CASE AcceptCommit(q)
    BY <2>5, AcceptKeeps
  <2>6. CASE StoreCommit(q)
    BY <2>6, StoreKeeps
  <2>7. CASE Refused(q)
    BY <2>7, FinishKeeps DEF Refused
  <2>8. QED
    BY <1>2, <2>1, <2>2, <2>3, <2>4, <2>5, <2>6, <2>7 DEF Proceed
<1>3. ASSUME NEW q \in Requests, RequestFails(q)
      PROVE  ContactInv'
  BY <1>3, FinishKeeps DEF RequestFails
<1>4. ASSUME NEW u \in Users, DeleteDeks(u) \/ DeleteUser(u)
      PROVE  ContactInv'
  BY <1>4, AccountKeeps
<1>5. CASE UNCHANGED vars
  BY <1>5 DEF vars, ContactInv, TypeOK, FieldsOf, Fresh, Knows, Holds
<1>6. QED
  BY <1>1, <1>2, <1>3, <1>4, <1>5 DEF Next

THEOREM ContactInvariance == Spec => []ContactInv
<1>1. Init => ContactInv
  BY InitContacts
<1>2. ContactInv /\ [Next]_vars => ContactInv'
  BY NextContacts, NullAssumption
<1>3. QED
  BY <1>1, <1>2, PTL DEF Spec

\* Records, requests and copies keep their types.
THEOREM TypeCorrect == Spec => []TypeOK
<1>1. ContactInv => TypeOK
  BY DEF ContactInv
<1>2. QED
  BY <1>1, ContactInvariance, PTL


\* A record's status changes only at a commit: it is invited, or somebody
\* accepts, or its access ends.
LEMMA StatusChange ==
    ASSUME NullAssumption, ContactInv, [Next]_vars, NEW i \in Ids,
           contact'[i].status # contact[i].status
    PROVE  \/ contact'[i].status = "pending"
           \/ \E q \in Requests :
                /\ req[q].id = i
                /\ \/ AcceptCommit(q)
                   \/ DeclineCommit(q) \/ RevokeCommit(q) \/ DeleteCommit(q)
                /\ AcceptCommit(q) <=> contact'[i].status = "accepted"
<1>1. TypeOK
  BY DEF ContactInv
<1>2. ASSUME NEW q \in Requests, Start(q)
      PROVE  FALSE
  BY <1>2 DEF Start, CreateSelect, DeclineSelect, RevokeSelect, LeaveSelect, DeleteSelect,
              AcceptSelect, StoreSelect, Begin
<1>3. ASSUME NEW q \in Requests, CreateInsert(q) \/ ReinviteCommit(q)
      PROVE  contact'[i].status = "pending"
  <2>1. CASE CreateInsert(q)
    BY <1>1, <2>1 DEF CreateInsert, TypeOK
  <2>2. CASE ReinviteCommit(q)
    <3>1. contact[req[q].id] \in Contact /\ req[q].id \in Ids
      BY <1>1, <2>2, Rows DEF ContactInv, FieldsOf, Holds, ReinviteCommit
    <3>2. [contact[req[q].id] EXCEPT !.status = "pending"].status = "pending"
      BY <3>1 DEF Contact
    <3>3. QED
      BY <1>1, <2>2, <3>1, <3>2 DEF ReinviteCommit, TypeOK
  <2>3. QED  BY <1>3, <2>1, <2>2
<1>4. ASSUME NEW q \in Requests, AcceptCommit(q)
      PROVE  req[q].id = i /\ contact'[i].status = "accepted"
  <2>1. contact[req[q].id] \in Contact /\ req[q].id \in Ids
    BY <1>1, <1>4, Rows DEF ContactInv, FieldsOf, AcceptCommit
  <2>2. [contact[req[q].id] EXCEPT !.status = "accepted", !.user = req[q].user].status = "accepted"
    BY <2>1 DEF Contact
  <2>3. contact' = [contact EXCEPT ![req[q].id] =
                      [contact[req[q].id] EXCEPT !.status = "accepted", !.user = req[q].user]]
    BY <1>4 DEF AcceptCommit
  <2>4. QED
    BY <1>1, <2>1, <2>2, <2>3 DEF TypeOK
<1>5. ASSUME NEW q \in Requests, DeclineCommit(q) \/ RevokeCommit(q) \/ DeleteCommit(q)
      PROVE  req[q].id = i /\ contact'[i].status # "accepted"
  <2>1. req[q].id \in Ids
    BY <1>5 DEF ContactInv, FieldsOf, DeclineCommit, RevokeCommit, DeleteCommit, Ending
  <2>2. CASE DeclineCommit(q) \/ RevokeCommit(q)
    <3>1. PICK status \in Ended : SetStatus(req[q].id, status)
      BY <2>2 DEF DeclineCommit, RevokeCommit, Ended
    <3>2. QED
      BY <1>1, <2>1, <3>1, StatusSet DEF Ended
  <2>3. CASE DeleteCommit(q)
    BY <1>1, <2>1, <2>3 DEF DeleteCommit, TypeOK, NoContact
  <2>4. QED  BY <1>5, <2>2, <2>3
<1>6. ASSUME NEW u \in Users, DeleteDeks(u) \/ DeleteUser(u)
      PROVE  FALSE
  <2>1. CASE contact'[i] = contact[i]
    BY <2>1
  <2>2. CASE contact[i].user = u /\ contact'[i] = [contact[i] EXCEPT !.user = Null]
    <3>1. contact[i] \in Contact
      BY <1>1, <2>2, Rows, NullAssumption
    <3>2. QED
      BY <2>2, <3>1 DEF Contact
  <2>3. QED
    BY <1>6, <2>1, <2>2 DEF DeleteDeks, DeleteUser
<1>7. ASSUME NEW q \in Requests,
             \/ ReinviteUpdate(q) \/ DeclineUpdate(q) \/ RevokeUpdate(q)
             \/ DeclineDropKey(q) \/ DeleteKey(q) \/ StoreCommit(q) \/ Refused(q) \/ RequestFails(q)
      PROVE  FALSE
  BY <1>7 DEF ReinviteUpdate, DeclineUpdate, RevokeUpdate, DeclineDropKey, DeleteKey, StoreCommit,
              Refused, RequestFails
<1>8. ~UNCHANGED vars
  BY DEF vars
<1>9. CASE \E q \in Requests : Proceed(q)
  <2>1. PICK q \in Requests : Proceed(q)
    BY <1>9
  <2>2. CASE AcceptCommit(q)
    BY <1>4, <2>2
  <2>3. CASE DeclineCommit(q) \/ RevokeCommit(q) \/ DeleteCommit(q)
    <3>1. req[q].id = i /\ contact'[i].status # "accepted"
      BY <1>5, <2>3
    <3>2. ~AcceptCommit(q)
      BY <1>4, <3>1
    <3>3. QED  BY <2>3, <3>1, <3>2
  <2>4. QED
    BY <1>3, <1>7, <2>1, <2>2, <2>3 DEF Proceed
<1>10. QED
  BY <1>2, <1>6, <1>7, <1>8, <1>9 DEF Next

\* Ended access comes back by a new invitation, or by an acceptance that had
\* read the invitation before its end.
THEOREM EndedNeverReturns == Spec => EndedStaysEnded
<1>1. ASSUME ContactInv, [Next]_vars, NEW i \in Ids,
             contact[i].status # "pending", contact[i].status # "accepted",
             contact'[i].status = "accepted"
      PROVE  \E q \in outdated : req[q].op = "accept" /\ req[q].id = i
  <2>1. PICK q \in Requests : req[q].id = i /\ AcceptCommit(q)
    BY <1>1, StatusChange, NullAssumption
  <2>2. req[q].op = "accept"
    BY <2>1 DEF AcceptCommit
  <2>3. q \in outdated
    BY <1>1, <2>1, <2>2 DEF ContactInv, Fresh, Active
  <2>4. QED  BY <2>1, <2>2, <2>3
<1>2. ContactInv /\ [Next]_vars =>
        \A i \in Ids :
          contact[i].status # "pending" /\ contact[i].status # "accepted"
            /\ contact'[i].status = "accepted" =>
          \E q \in outdated : req[q].op = "accept" /\ req[q].id = i
  BY <1>1
<1>3. QED
  BY <1>2, ContactInvariance, PTL DEF Spec, EndedStaysEnded

\* The step that ends a linked contact's access takes the copy of the plan's
\* key, unless the contact was linked or given the copy on the way.
THEOREM EndingTakesKey == Spec => EndingDropsKey
<1>1. ASSUME ContactInv, [Next]_vars, NEW i \in Ids,
             contact[i].status \in Active, contact[i].user # Null, contact'[i].status \notin Active
      PROVE  contact[i].user \notin dek' \/ contact[i].user \in raced
  <2>1. PICK q \in Requests :
          /\ req[q].id = i
          /\ DeclineCommit(q) \/ RevokeCommit(q) \/ DeleteCommit(q)
    BY <1>1, StatusChange, NullAssumption DEF Active
  <2>2. Knows(q)
    BY <1>1 DEF ContactInv
  <2>3. CASE DeclineCommit(q)
    BY <2>1, <2>2, <2>3 DEF DeclineCommit, Knows, Ending
  <2>4. CASE RevokeCommit(q)
    BY <2>1, <2>2, <2>4 DEF RevokeCommit, Knows, Ending
  <2>5. CASE DeleteCommit(q)
    BY <2>1, <2>2, <2>5 DEF DeleteCommit, Knows, Ending
  <2>6. QED  BY <2>1, <2>3, <2>4, <2>5
<1>2. ContactInv /\ [Next]_vars =>
        \A i \in Ids :
          LET u == contact[i].user
          IN  contact[i].status \in Active /\ u # Null /\ contact'[i].status \notin Active
                => u \notin dek' \/ u \in raced
  BY <1>1
<1>3. QED
  BY <1>2, ContactInvariance, PTL DEF Spec, EndingDropsKey

(***************************************************************************)
(* AccessLedger: what a request still finds that nobody has overlapped     *)
(***************************************************************************)
\* The record is as the SELECT of request q showed it, save that the account it
\* was linked to may be gone.
Reads(q) ==
    LET c == contact[req[q].id]
    IN  /\ req[q].op \in {"accept", "decline", "declining", "declined"} => c.status = "pending"
        /\ req[q].op = "reinviting" \/ (req[q].op = "create" /\ req[q].id # Null)
             => c.status \in Ended
        /\ req[q].op \in {"leave", "leaving"} => c.status = "accepted"
        /\ req[q].op \in Ending =>
             /\ c # NoContact
             /\ req[q].user \in {c.user, Null} \/ req[q].user \notin alive

LedgerInv ==
    /\ ContactInv
    /\ dek \subseteq alive
    /\ \A i \in Ids : contact[i] # NoContact => i \in invited
    /\ \A q \in Requests : q \notin outdated => Reads(q)

\* What a request reads that is not outdated is there.
LEMMA ReadsRecord ==
    ASSUME ContactInv, NEW q \in Requests, Reads(q),
           \/ req[q].op \in {"accept", "reinviting"} \union Ending
           \/ req[q].op = "create" /\ req[q].id # Null
    PROVE  req[q].id \in Ids /\ contact[req[q].id] # NoContact
<1>1. req[q].id \in Ids
  BY DEF ContactInv, FieldsOf, TypeOK, Request
<1>2. req[q].op \in {"accept", "reinviting", "create"} => contact[req[q].id] # NoContact
  BY DEF Reads, NoContact, Ended
<1>3. QED
  BY <1>1, <1>2 DEF Reads

\* A step of one request keeps what the others have read, unless it outdates
\* them.
LEMMA OthersRead ==
    ASSUME LedgerInv, ContactInv', NEW q \in Requests,
           \A p \in Requests \ {q} : req'[p] = req[p] /\ (p \in outdated => p \in outdated'),
           \A p \in Requests \ {q} :
             p \notin outdated' /\ req[p].id \in Ids /\ contact[req[p].id] # NoContact
               => contact'[req[p].id] = contact[req[p].id],
           alive' = alive, dek' \subseteq alive,
           \A i \in Ids : contact'[i] # NoContact => i \in invited',
           q \notin outdated' => Reads(q)'
    PROVE  LedgerInv'
<1>1. ASSUME NEW p \in Requests, p # q, p \notin outdated'
      PROVE  Reads(p)'
  <2>1. Reads(p)
    BY <1>1 DEF LedgerInv
  <2>2. CASE \/ req[p].op \in {"accept", "reinviting"} \union Ending
             \/ req[p].op = "create" /\ req[p].id # Null
    <3>1. contact'[req[p].id] = contact[req[p].id]
      BY <1>1, <2>1, <2>2, ReadsRecord DEF LedgerInv
    <3>2. QED
      BY <1>1, <2>1, <3>1 DEF Reads
  <2>3. CASE ~(\/ req[p].op \in {"accept", "reinviting"} \union Ending
               \/ req[p].op = "create" /\ req[p].id # Null)
    BY <1>1, <2>3 DEF Reads, Ending
  <2>4. QED  BY <2>2, <2>3
<1>2. QED
  BY <1>1 DEF LedgerInv

\* A request that is over reads nothing.
LEMMA IdleReads ==
    ASSUME NEW q \in Requests, req'[q] = Idle
    PROVE  Reads(q)'
  BY DEF Reads, Idle, Ending

LEMMA QuietReads ==
    ASSUME LedgerInv, ContactInv', NEW q \in Requests,
           \A p \in Requests \ {q} : req'[p] = req[p] /\ (p \in outdated => p \in outdated'),
           UNCHANGED <<contact, invited, dek, alive>>, q \notin outdated' => Reads(q)'
    PROVE  LedgerInv'
<1>1. dek' \subseteq alive /\ \A i \in Ids : contact'[i] # NoContact => i \in invited'
  BY DEF LedgerInv
<1>2. QED
  BY <1>1, OthersRead

\* The writes of a commit, and whom they outdate.
LEMMA Written ==
    ASSUME ContactInv, NEW q \in Requests,
           \/ ReinviteCommit(q) \/ AcceptCommit(q)
           \/ DeclineCommit(q) \/ RevokeCommit(q) \/ DeleteCommit(q)
    PROVE  LET i == req[q].id
               c == contact'[i]
           IN  /\ i \in Ids
               /\ \A j \in Ids : j # i => contact'[j] = contact[j]
               /\ Finish(q) /\ Outdates(i, q) /\ UNCHANGED <<invited, alive>>
               /\ ReinviteCommit(q) =>
                    /\ contact[i] # NoContact /\ c # NoContact
                    /\ c.status = "pending" /\ c.user = contact[i].user
               /\ AcceptCommit(q) =>
                    /\ contact[i] # NoContact /\ c # NoContact
                    /\ c.status = "accepted" /\ c.user = req[q].user
               /\ DeclineCommit(q) \/ RevokeCommit(q) =>
                    /\ contact[i] = NoContact => c = NoContact
                    /\ contact[i] # NoContact =>
                         /\ c # NoContact /\ c.user = contact[i].user
                         /\ c.status = IF DeclineCommit(q) THEN "declined"
                                       ELSE IF req[q].op = "revoking" THEN "revoked_by_owner"
                                       ELSE "revoked_by_contact"
               /\ DeleteCommit(q) => c = NoContact
<1> DEFINE i == req[q].id
<1>1. i \in Ids /\ TypeOK
  BY DEF ContactInv, FieldsOf, ReinviteCommit, AcceptCommit, DeclineCommit, RevokeCommit,
         DeleteCommit, Ending
<1>2. Finish(q) /\ Outdates(i, q) /\ UNCHANGED <<invited, alive>>
  BY DEF ReinviteCommit, AcceptCommit, DeclineCommit, RevokeCommit, DeleteCommit
<1>3. CASE ReinviteCommit(q)
  <2> DEFINE c == [contact[i] EXCEPT !.status = "pending"]
  <2>1. contact[i] \in Contact /\ contact[i] # NoContact
    BY <1>1, <1>3, Rows DEF ContactInv, Holds, ReinviteCommit
  <2>2. c.status = "pending" /\ c.user = contact[i].user /\ c # NoContact
    BY <2>1 DEF Contact, NoContact
  <2>3. contact' = [contact EXCEPT ![i] = c]
    BY <1>3 DEF ReinviteCommit
  <2>4. QED
    BY <1>1, <1>2, <1>3, <2>1, <2>2, <2>3
       DEF TypeOK, ReinviteCommit, AcceptCommit, DeclineCommit, RevokeCommit, DeleteCommit
<1>4. CASE AcceptCommit(q)
  <2> DEFINE c == [contact[i] EXCEPT !.status = "accepted", !.user = req[q].user]
  <2>1. contact[i] \in Contact /\ contact[i] # NoContact
    BY <1>1, <1>4, Rows DEF AcceptCommit
  <2>2. c.status = "accepted" /\ c.user = req[q].user /\ c # NoContact
    BY <2>1 DEF Contact, NoContact
  <2>3. contact' = [contact EXCEPT ![i] = c]
    BY <1>4 DEF AcceptCommit
  <2>4. QED
    BY <1>1, <1>2, <1>4, <2>1, <2>2, <2>3
       DEF TypeOK, ReinviteCommit, AcceptCommit, DeclineCommit, RevokeCommit, DeleteCommit
<1>5. CASE DeclineCommit(q) \/ RevokeCommit(q)
  <2> DEFINE s == IF req[q].op = "declined" THEN "declined"
                  ELSE IF req[q].op = "revoking" THEN "revoked_by_owner" ELSE "revoked_by_contact"
  <2>1. SetStatus(i, s) /\ s \in Ended
    BY <1>5 DEF DeclineCommit, RevokeCommit, Ended
  <2>2. /\ \A j \in Ids : contact'[j].user = contact[j].user
        /\ \A j \in Ids : j # i => contact'[j] = contact[j]
        /\ contact[i] # NoContact => contact'[i].status = s
        /\ contact[i] = NoContact => contact'[i] = NoContact
    <3> HIDE DEF s
    <3>1. QED  BY <1>1, <2>1, StatusSet
  <2>3. s # NoContact.status
    BY DEF NoContact
  <2>4. DeclineCommit(q) <=> req[q].op = "declined"
    BY <1>5 DEF DeclineCommit, RevokeCommit
  <2>5. ~ReinviteCommit(q) /\ ~AcceptCommit(q) /\ ~DeleteCommit(q)
    BY <1>5 DEF ReinviteCommit, AcceptCommit, DeclineCommit, RevokeCommit, DeleteCommit
  <2>6. s = IF DeclineCommit(q) THEN "declined"
            ELSE IF req[q].op = "revoking" THEN "revoked_by_owner" ELSE "revoked_by_contact"
    BY <2>4
  <2>7. contact[i] # NoContact => contact'[i] # NoContact
    BY <2>2, <2>3
  <2> HIDE DEF s
  <2>8. QED
    BY <1>1, <1>2, <2>2, <2>5, <2>6, <2>7
<1>6. CASE DeleteCommit(q)
  BY <1>1, <1>2, <1>6
     DEF TypeOK, ReinviteCommit, AcceptCommit, DeclineCommit, RevokeCommit, DeleteCommit
<1>7. QED  BY <1>3, <1>4, <1>5, <1>6

\* A commit outdates whoever has read its record.
LEMMA CommitReads ==
    ASSUME LedgerInv, ContactInv', NEW q \in Requests,
           \/ ReinviteCommit(q) \/ AcceptCommit(q)
           \/ DeclineCommit(q) \/ RevokeCommit(q) \/ DeleteCommit(q)
    PROVE  LedgerInv'
<1> DEFINE i == req[q].id
<1>1. /\ i \in Ids
      /\ \A j \in Ids : j # i => contact'[j] = contact[j]
      /\ Finish(q) /\ Outdates(i, q) /\ UNCHANGED <<invited, alive>>
      /\ contact[i] = NoContact => contact'[i] = NoContact
  BY Written DEF LedgerInv
<1>2. /\ req'[q] = Idle
      /\ \A p \in Requests \ {q} : req'[p] = req[p]
  BY <1>1, Finished DEF LedgerInv, ContactInv
<1>3. outdated' = outdated \union {p \in Requests \ {q} : req[p].id = i}
  BY <1>1 DEF Outdates
<1>4. dek' \subseteq alive
  BY DEF LedgerInv, ReinviteCommit, ShareAhead, AcceptCommit, DeclineCommit, RevokeCommit,
         DeleteCommit
<1>5. \A j \in Ids : contact'[j] # NoContact => j \in invited'
  BY <1>1 DEF LedgerInv
<1>6. \A p \in Requests \ {q} :
        p \notin outdated' /\ req[p].id \in Ids => contact'[req[p].id] = contact[req[p].id]
  BY <1>1, <1>3
<1>7. Reads(q)'
  BY <1>2, IdleReads
<1>8. QED
  BY <1>1, <1>2, <1>3, <1>4, <1>5, <1>6, <1>7, OthersRead

\* A new record, and copies stored or deleted, concern no record that was read.
LEMMA NewReads ==
    ASSUME NullAssumption, LedgerInv, ContactInv', NEW q \in Requests,
           CreateInsert(q) \/ StoreCommit(q) \/ DeclineDropKey(q)
    PROVE  LedgerInv'
<1>1. TypeOK /\ FieldsOf(q)
  BY DEF LedgerInv, ContactInv
<1>2. CASE CreateInsert(q)
  <2>1. PICK i \in Ids \ invited :
          /\ contact' = [contact EXCEPT ![i] =
                            [email |-> req[q].email, status |-> "pending", user |-> Null]]
          /\ invited' = invited \union {i}
          /\ ShareAhead(req[q].user, q)
    BY <1>2 DEF CreateInsert
  <2>2. contact[i] = NoContact /\ \A j \in Ids : j # i => contact'[j] = contact[j]
    BY <1>1, <2>1 DEF LedgerInv, TypeOK
  <2>3. Finish(q) /\ alive' = alive /\ outdated' = outdated
    BY <1>2 DEF CreateInsert
  <2>4. /\ req'[q] = Idle
        /\ \A p \in Requests \ {q} : req'[p] = req[p]
    BY <1>1, <2>3, Finished
  <2>5. dek' \subseteq alive
    BY <2>1 DEF LedgerInv, ShareAhead
  <2>6. \A j \in Ids : contact'[j] # NoContact => j \in invited'
    BY <2>1, <2>2 DEF LedgerInv
  <2>7. Reads(q)'
    BY <2>4, IdleReads
  <2>8. QED
    BY <2>2, <2>3, <2>4, <2>5, <2>6, <2>7, OthersRead
<1>3. CASE StoreCommit(q)
  <2>1. Finish(q) /\ dek' \subseteq alive /\ UNCHANGED <<contact, invited, alive, outdated>>
    BY <1>3 DEF StoreCommit, LedgerInv
  <2>2. /\ req'[q] = Idle
        /\ \A p \in Requests \ {q} : req'[p] = req[p]
    BY <1>1, <2>1, Finished
  <2>3. Reads(q)'
    BY <2>2, IdleReads
  <2>4. \A j \in Ids : contact'[j] # NoContact => j \in invited'
    BY <2>1 DEF LedgerInv
  <2>5. QED
    BY <2>1, <2>2, <2>3, <2>4, OthersRead
<1>4. CASE DeclineDropKey(q)
  <2>1. /\ Goto(q, "declined") /\ dek' \subseteq alive /\ req[q].op = "declining"
        /\ UNCHANGED <<contact, invited, alive, outdated>>
    BY <1>4 DEF DeclineDropKey, LedgerInv
  <2>2. /\ req'[q].op = "declined" /\ req'[q].id = req[q].id /\ req'[q].user = req[q].user
        /\ \A p \in Requests \ {q} : req'[p] = req[p]
    BY <1>1, <2>1, Gone DEF Ops, RowLocking
  <2>3. q \notin outdated => Reads(q)
    BY DEF LedgerInv
  <2>4. q \notin outdated' => Reads(q)'
    BY <2>1, <2>2, <2>3 DEF Reads, Ending
  <2>5. \A j \in Ids : contact'[j] # NoContact => j \in invited'
    BY <2>1 DEF LedgerInv
  <2>6. QED
    BY <2>1, <2>2, <2>4, <2>5, OthersRead
<1>5. QED  BY <1>2, <1>3, <1>4

\* What a SELECT has just returned.
LEMMA BeginReads ==
    ASSUME LedgerInv, ContactInv', NEW q \in Requests, NEW op, NEW i, NEW u, NEW e,
           Begin(q, op, i, u, e),
           op \in {"create", "accept", "store", "decline", "revoke", "leave", "delete"},
           op \in {"accept", "decline"} => contact[i].status = "pending",
           op = "create" /\ i # Null => contact[i].status \in Ended,
           op = "leave" => contact[i].status = "accepted",
           op \in {"decline", "revoke", "leave", "delete"} =>
             contact[i] # NoContact /\ u = contact[i].user
    PROVE  LedgerInv'
<1> DEFINE r == [op |-> op, id |-> i, user |-> u, email |-> e]
<1>1. /\ req' = [req EXCEPT ![q] = r]
      /\ outdated' = outdated \ {q}
      /\ UNCHANGED <<contact, invited, dek, alive>>
  BY DEF Begin
<1>2. req'[q] = r /\ \A p \in Requests \ {q} : req'[p] = req[p]
  BY <1>1 DEF LedgerInv, ContactInv, TypeOK
<1>3. Reads(q)'
  BY <1>1, <1>2 DEF Reads, Ending
<1>4. QED
  BY <1>1, <1>2, <1>3, QuietReads

LEMMA StartReads ==
    ASSUME LedgerInv, ContactInv', NEW q \in Requests, Start(q)
    PROVE  LedgerInv'
<1>1. ASSUME NEW e \in Emails, NEW k \in Users \union {Null}, CreateSelect(q, e, k)
      PROVE  LedgerInv'
  <2>1. CASE Begin(q, "create", Null, k, e)
    BY <2>1, BeginReads
  <2>2. ASSUME NEW i \in Ids, contact[i].status \in Ended, Begin(q, "create", i, k, e)
        PROVE  LedgerInv'
    BY <2>2, BeginReads
  <2>3. QED  BY <1>1, <2>1, <2>2 DEF CreateSelect
<1>2. ASSUME NEW i \in Ids,
             DeclineSelect(q, i) \/ RevokeSelect(q, i) \/ LeaveSelect(q, i) \/ DeleteSelect(q, i)
      PROVE  LedgerInv'
  <2>1. contact[i].status \in {"pending", "accepted"} => contact[i] # NoContact
    BY DEF NoContact
  <2>2. CASE DeclineSelect(q, i)
    BY <2>1, <2>2, BeginReads DEF DeclineSelect
  <2>3. CASE RevokeSelect(q, i)
    BY <2>3, BeginReads DEF RevokeSelect
  <2>4. CASE LeaveSelect(q, i)
    BY <2>1, <2>4, BeginReads DEF LeaveSelect
  <2>5. CASE DeleteSelect(q, i)
    BY <2>5, BeginReads DEF DeleteSelect
  <2>6. QED  BY <1>2, <2>2, <2>3, <2>4, <2>5
<1>3. ASSUME NEW i \in Ids, NEW u \in Users, AcceptSelect(q, i, u)
      PROVE  LedgerInv'
  BY <1>3, BeginReads DEF AcceptSelect
<1>4. ASSUME NEW u \in Users, StoreSelect(q, u)
      PROVE  LedgerInv'
  BY <1>4, BeginReads DEF StoreSelect
<1>5. QED
  BY <1>1, <1>2, <1>3, <1>4 DEF Start

\* A lock, a failure and a refusal change no row that was read.
LEMMA WaitReads ==
    ASSUME NullAssumption, LedgerInv, ContactInv', NEW q \in Requests,
           \/ ReinviteUpdate(q) \/ DeclineUpdate(q) \/ RevokeUpdate(q) \/ DeleteKey(q)
           \/ Refused(q) \/ RequestFails(q)
    PROVE  LedgerInv'
<1>1. TypeOK /\ (q \notin outdated => Reads(q))
  BY DEF LedgerInv, ContactInv
<1>2. UNCHANGED <<contact, invited, dek, alive, outdated>>
  BY DEF ReinviteUpdate, DeclineUpdate, RevokeUpdate, DeleteKey, Refused, RequestFails
<1>3. CASE Refused(q) \/ RequestFails(q)
  <2>1. req'[q] = Idle /\ \A p \in Requests \ {q} : req'[p] = req[p]
    BY <1>1, <1>3, Finished DEF Refused, RequestFails
  <2>2. QED
    BY <1>2, <2>1, IdleReads, QuietReads
<1>4. CASE ReinviteUpdate(q) \/ DeclineUpdate(q) \/ RevokeUpdate(q)
  <2>1. PICK op \in Ops :
          /\ Goto(q, op)
          /\ \/ req[q].op = "create" /\ req[q].id # Null /\ op = "reinviting"
             \/ req[q].op = "decline" /\ op = "declining"
             \/ req[q].op = "revoke" /\ op = "revoking"
             \/ req[q].op = "leave" /\ op = "leaving"
    BY <1>4 DEF ReinviteUpdate, DeclineUpdate, RevokeUpdate, Ops, RowLocking
  <2>2. /\ req'[q].op = op /\ req'[q].id = req[q].id /\ req'[q].user = req[q].user
        /\ \A p \in Requests \ {q} : req'[p] = req[p]
    BY <1>1, <2>1, Gone
  <2>3. q \notin outdated' => Reads(q)'
    BY <1>1, <1>2, <2>1, <2>2 DEF Reads, Ending
  <2>4. QED
    BY <1>2, <2>2, <2>3, QuietReads
<1>5. CASE DeleteKey(q)
  <2> DEFINE u == IF req[q].user \in dek THEN req[q].user ELSE Null
             r == [req[q] EXCEPT !.op = "deleting", !.user = u]
  <2>1. req[q] \in Request
    BY <1>1 DEF TypeOK
  <2>2. r.op = "deleting" /\ r.id = req[q].id /\ r.user = u
    BY <2>1 DEF Request
  <2>3. req' = [req EXCEPT ![q] = r]
    BY <1>5 DEF DeleteKey
  <2>4. req'[q] = r /\ \A p \in Requests \ {q} : req'[p] = req[p]
    BY <1>1, <2>3 DEF TypeOK
  <2>5. Null \notin alive
    BY <1>1, NullAssumption DEF TypeOK
  <2>6. req[q].op = "delete"
    BY <1>5 DEF DeleteKey
  <2>7. q \notin outdated' => Reads(q)'
    BY <1>1, <1>2, <2>2, <2>4, <2>5, <2>6 DEF Reads, Ending
  <2>8. QED
    BY <1>2, <2>4, <2>7, QuietReads
<1>6. QED  BY <1>3, <1>4, <1>5

\* An account that goes takes its copy, and leaves its records unlinked.
LEMMA AccountReads ==
    ASSUME NullAssumption, LedgerInv, ContactInv', NEW u \in Users, DeleteDeks(u) \/ DeleteUser(u)
    PROVE  LedgerInv'
<1>1. /\ dek' = dek \ {u} /\ UNCHANGED <<invited, req, outdated>> /\ alive' \subseteq alive
      /\ dek' \subseteq alive'
  BY DEF DeleteDeks, DeleteUser, LedgerInv
<1>2. ASSUME NEW i \in Ids
      PROVE  /\ contact'[i] # NoContact <=> contact[i] # NoContact
             /\ contact'[i].status = contact[i].status
             /\ contact'[i].user = contact[i].user
                  \/ (contact[i].user \notin alive' /\ contact'[i].user = Null)
  <2>1. CASE contact'[i] = contact[i]
    BY <2>1
  <2>2. CASE contact[i].user = u /\ u \notin alive' /\ contact'[i] = [contact[i] EXCEPT !.user = Null]
    <3>1. contact[i] \in Contact /\ contact[i] # NoContact
      BY <2>2, Rows, NullAssumption DEF LedgerInv, ContactInv
    <3>2. QED
      BY <2>2, <3>1 DEF Contact, NoContact, Active, Ended
  <2>3. QED
    BY <2>1, <2>2 DEF DeleteDeks, DeleteUser
<1>3. ASSUME NEW p \in Requests, p \notin outdated'
      PROVE  Reads(p)'
  <2>1. Reads(p)
    BY <1>1, <1>3 DEF LedgerInv
  <2>2. CASE \/ req[p].op \in {"accept", "reinviting"} \union Ending
             \/ req[p].op = "create" /\ req[p].id # Null
    <3>1. req[p].id \in Ids
      BY <2>1, <2>2, ReadsRecord DEF LedgerInv
    <3>2. QED
      BY <1>1, <1>2, <2>1, <3>1 DEF Reads
  <2>3. CASE ~(\/ req[p].op \in {"accept", "reinviting"} \union Ending
               \/ req[p].op = "create" /\ req[p].id # Null)
    BY <1>1, <2>3 DEF Reads, Ending
  <2>4. QED  BY <2>2, <2>3
<1>4. QED
  BY <1>1, <1>2, <1>3 DEF LedgerInv

LEMMA InitReads ==
    ASSUME Init
    PROVE  LedgerInv
<1>1. ASSUME NEW q \in Requests
      PROVE  Reads(q)
  BY DEF Init, Reads, Idle, Ending
<1>2. QED
  BY <1>1, InitContacts DEF Init, LedgerInv

LEMMA NextReads ==
    ASSUME NullAssumption, LedgerInv, [Next]_vars
    PROVE  LedgerInv'
<1>1. ContactInv'
  BY NextContacts DEF LedgerInv
<1>2. ASSUME NEW q \in Requests, Start(q) \/ Proceed(q) \/ RequestFails(q)
      PROVE  LedgerInv'
  BY <1>1, <1>2, StartReads, CommitReads, NewReads, WaitReads DEF Proceed
<1>3. ASSUME NEW u \in Users, DeleteDeks(u) \/ DeleteUser(u)
      PROVE  LedgerInv'
  BY <1>1, <1>3, AccountReads
<1>4. CASE UNCHANGED vars
  BY <1>1, <1>4 DEF vars, LedgerInv, Reads
<1>5. QED
  BY <1>2, <1>3, <1>4 DEF Next

THEOREM LedgerInvariance == Spec => []LedgerInv
<1>1. Init => LedgerInv
  BY InitReads
<1>2. LedgerInv /\ [Next]_vars => LedgerInv'
  BY NextReads, NullAssumption
<1>3. QED
  BY <1>1, <1>2, PTL DEF Spec

(***************************************************************************)
(* The requests implement AccessLedger                                     *)
(***************************************************************************)
\* Requests that end, or go on with their record, overlap nothing new.
LEMMA FewerOverlaps ==
    ASSUME \A p \in outdated' : p \in outdated /\ req'[p].id \in {req[p].id, Null}
    PROVE  Overlapped' \subseteq Overlapped
  BY DEF Overlapped

\* A commit is overlapped by whom it outdates; whoever commits outdated was
\* overlapped itself.
LEMMA CommitOverlaps ==
    ASSUME NullAssumption, TypeOK, NEW q \in Requests, NEW i \in Ids, i = req[q].id,
           Finish(q), Outdates(i, q)
    PROVE  Overlapped' \subseteq Overlapped \union {i} /\ (q \in outdated => i \in Overlapped)
<1>1. /\ req'[q] = Idle
      /\ \A p \in Requests \ {q} : req'[p] = req[p]
  BY Finished
<1>2. outdated' = outdated \union {p \in Requests \ {q} : req[p].id = i}
  BY DEF Outdates
<1>3. i # Null /\ Idle.id = Null
  BY NullAssumption DEF Idle
<1>4. ASSUME NEW p \in outdated', req'[p].id # Null
      PROVE  req'[p].id \in Overlapped \union {i}
  <2>1. p \in Requests /\ p # q
    BY <1>1, <1>2, <1>3, <1>4 DEF TypeOK
  <2>2. req'[p].id = req[p].id
    BY <1>1, <2>1
  <2>3. CASE p \in outdated
    BY <1>4, <2>2, <2>3 DEF Overlapped
  <2>4. CASE req[p].id = i
    BY <2>2, <2>4
  <2>5. QED  BY <1>2, <2>3, <2>4
<1>5. Overlapped' \subseteq Overlapped \union {i}
  BY <1>4 DEF Overlapped
<1>6. q \in outdated => i \in Overlapped
  BY <1>3 DEF Overlapped
<1>7. QED  BY <1>5, <1>6

\* One record is written: its life and its link are.
LEMMA OneLife ==
    ASSUME NEW i \in Ids, i \in invited', \A j \in Ids : j # i => contact'[j] = contact[j],
           \A j \in Ids : j # i => (j \in invited' <=> j \in invited)
    PROVE  /\ Life' = [Life EXCEPT ![i] = IF contact'[i] # NoContact THEN contact'[i].status
                                          ELSE "deleted"]
           /\ Linked' = [Linked EXCEPT ![i] = contact'[i].user]
  BY DEF Life, Linked

LEMMA SameLife ==
    ASSUME UNCHANGED <<contact, invited>>
    PROVE  UNCHANGED <<Life, Linked>>
  BY DEF Life, Linked

\* No record changes and no copy: requests come and go.
LEMMA ForgetMaps ==
    ASSUME UNCHANGED <<contact, invited, dek>>, raced' \subseteq raced,
           Overlapped' \subseteq Overlapped
    PROVE  Ledger!Next
<1>1. Ledger!Forget
  BY SameLife DEF Ledger!Forget
<1>2. QED  BY <1>1 DEF Ledger!Next

\* No record changes, and at most one copy goes.
LEMMA DropMaps ==
    ASSUME TypeOK, NEW v, UNCHANGED <<contact, invited>>, dek' = dek \ {v}, raced' \subseteq raced,
           Overlapped' \subseteq Overlapped
    PROVE  Ledger!Next
<1>1. CASE v \in Users
  <2>1. Ledger!Drop(v)
    BY SameLife DEF Ledger!Drop
  <2>2. QED  BY <1>1, <2>1 DEF Ledger!Next
<1>2. CASE v \notin Users
  BY <1>2, ForgetMaps DEF TypeOK
<1>3. QED  BY <1>1, <1>2

\* The end of a record takes the copy of the account it is linked to and, unless
\* the request is outdated, no other one.
LEMMA EndingTakesCopy ==
    ASSUME NullAssumption, LedgerInv, NEW q \in Requests,
           DeclineCommit(q) \/ RevokeCommit(q) \/ DeleteCommit(q),
           q \in outdated => req[q].id \in Overlapped
    PROVE  Ledger!TakesCopy(req[q].id)
<1> DEFINE i == req[q].id
           u == contact[i].user
<1>1. TypeOK /\ Knows(q) /\ i \in Ids /\ req[q].op \in Ending
  BY DEF LedgerInv, ContactInv, FieldsOf, DeclineCommit, RevokeCommit, DeleteCommit, Ending
<1>2. Linked[i] = u /\ Null \notin dek /\ req[q].user \in Users \union {Null}
  BY <1>1, NullAssumption DEF Linked, TypeOK, Request
<1>3. raced' \subseteq raced
  BY DEF DeclineCommit, RevokeCommit, DeleteCommit
<1>4. \E v \in {u, Null} \union (IF i \in Overlapped THEN Users ELSE {}) : dek' = dek \ {v}
  <2>1. CASE DeclineCommit(q)
    BY <1>2, <2>1 DEF DeclineCommit
  <2>2. CASE RevokeCommit(q) \/ DeleteCommit(q)
    <3>1. dek' = dek \ {req[q].user}
      BY <2>2 DEF RevokeCommit, DeleteCommit
    <3>2. CASE q \in outdated
      BY <1>2, <3>1, <3>2
    <3>3. CASE q \notin outdated
      <4>1. req[q].user \in {u, Null} \/ req[q].user \notin dek
        BY <1>1, <3>3 DEF LedgerInv, Reads
      <4>2. CASE req[q].user \in {u, Null}
        BY <3>1, <4>2
      <4>3. CASE req[q].user \notin dek
        BY <1>2, <3>1, <4>3
      <4>4. QED  BY <4>1, <4>2, <4>3
    <3>4. QED  BY <3>2, <3>3
  <2>3. QED  BY <2>1, <2>2
<1>5. u \notin dek' \/ u \in raced
  <2>1. CASE DeclineCommit(q)
    BY <1>1, <2>1 DEF DeclineCommit, Knows
  <2>2. CASE RevokeCommit(q) \/ DeleteCommit(q)
    BY <1>1, <2>2 DEF RevokeCommit, DeleteCommit, Knows
  <2>3. QED  BY <2>1, <2>2
<1>6. QED
  BY <1>2, <1>3, <1>4, <1>5 DEF Ledger!TakesCopy

\* The record moves from the status its request has read, or any while it is
\* overlapped.
LEMMA CommitMoves ==
    ASSUME NullAssumption, LedgerInv, NEW q \in Requests, NEW i \in Ids, i = req[q].id,
           contact[i] # NoContact, NEW from, NEW s,
           q \notin outdated => contact[i].status \in from,
           q \in outdated => i \in Overlapped,
           Life' = [Life EXCEPT ![i] = s], Overlapped' \subseteq Overlapped \union {i}
    PROVE  Ledger!Moves(i, from, s)
<1>1. contact[i] \in Contact
  BY Rows DEF LedgerInv, ContactInv
<1>2. Life[i] = contact[i].status /\ Life[i] \in Active \union Ended
  BY <1>1 DEF Life, Contact
<1>3. Life[i] \in Ledger!There
  BY <1>2 DEF Ledger!There, Ledger!Open, Ledger!Closed, Active, Ended
<1>4. QED
  BY <1>2, <1>3 DEF Ledger!Moves

LEMMA CommitMaps ==
    ASSUME NullAssumption, LedgerInv, NEW q \in Requests,
           \/ ReinviteCommit(q) \/ AcceptCommit(q)
           \/ DeclineCommit(q) \/ RevokeCommit(q) \/ DeleteCommit(q)
    PROVE  Ledger!Next
<1> DEFINE i == req[q].id
           c == contact'[i]
<1>1. /\ i \in Ids
      /\ \A j \in Ids : j # i => contact'[j] = contact[j]
      /\ Finish(q) /\ Outdates(i, q) /\ UNCHANGED <<invited, alive>>
  BY Written DEF LedgerInv
<1>2. TypeOK /\ FieldsOf(q) /\ req[q].user \in Users \union {Null} /\ (q \notin outdated => Reads(q))
  BY DEF LedgerInv, ContactInv, TypeOK, Request
<1>3. Overlapped' \subseteq Overlapped \union {i} /\ (q \in outdated => i \in Overlapped)
  BY <1>1, <1>2, CommitOverlaps
<1>4. ASSUME contact[i] # NoContact
      PROVE  /\ Life' = [Life EXCEPT ![i] = IF c # NoContact THEN c.status ELSE "deleted"]
             /\ Linked' = [Linked EXCEPT ![i] = c.user]
             /\ c.user = contact[i].user => Linked' = Linked
  <2>1. i \in invited'
    BY <1>1, <1>4 DEF LedgerInv
  <2>2. /\ Life' = [Life EXCEPT ![i] = IF c # NoContact THEN c.status ELSE "deleted"]
        /\ Linked' = [Linked EXCEPT ![i] = c.user]
    BY <1>1, <2>1, OneLife
  <2>3. c.user = contact[i].user => Linked' = Linked
    BY <2>2 DEF Linked
  <2>4. QED  BY <2>2, <2>3
<1>5. CASE ReinviteCommit(q)
  <2>1. /\ contact[i] # NoContact /\ c # NoContact
        /\ c.status = "pending" /\ c.user = contact[i].user
    BY <1>5, Written DEF LedgerInv
  <2>2. Life' = [Life EXCEPT ![i] = "pending"] /\ Linked' = Linked
    BY <1>4, <2>1
  <2>3. q \notin outdated => contact[i].status \in Ledger!Closed
    BY <1>2, <1>5 DEF Reads, ReinviteCommit, Ledger!Closed, Ended
  <2>4. Ledger!Moves(i, Ledger!Closed, "pending")
    BY <1>1, <1>3, <2>1, <2>2, <2>3, CommitMoves
  <2>5. Ledger!Shares(req[q].user)
    BY <1>5 DEF ReinviteCommit, ShareAhead, Ledger!Shares
  <2>6. Ledger!Reinvite(i, req[q].user)
    BY <2>2, <2>4, <2>5 DEF Ledger!Reinvite
  <2>7. QED
    BY <1>1, <1>2, <2>6 DEF Ledger!Next
<1>6. CASE AcceptCommit(q)
  <2>1. /\ contact[i] # NoContact /\ c # NoContact
        /\ c.status = "accepted" /\ c.user = req[q].user
    BY <1>6, Written DEF LedgerInv
  <2>2. Life' = [Life EXCEPT ![i] = "accepted"] /\ Linked' = [Linked EXCEPT ![i] = req[q].user]
    BY <1>4, <2>1
  <2>3. q \notin outdated => contact[i].status \in {"pending"}
    BY <1>2, <1>6 DEF Reads, AcceptCommit
  <2>4. Ledger!Moves(i, {"pending"}, "accepted")
    BY <1>1, <1>3, <2>1, <2>2, <2>3, CommitMoves
  <2>5. raced' \subseteq raced \union {req[q].user} /\ dek' = dek
    BY <1>6 DEF AcceptCommit
  <2>6. Ledger!Accept(i, req[q].user)
    BY <2>2, <2>4, <2>5 DEF Ledger!Accept
  <2>7. req[q].user \in Users
    BY <1>2, <1>6 DEF FieldsOf, AcceptCommit
  <2>8. QED
    BY <1>1, <2>6, <2>7 DEF Ledger!Next
<1>7. CASE (DeclineCommit(q) \/ RevokeCommit(q) \/ DeleteCommit(q)) /\ contact[i] = NoContact
  <2>1. c = NoContact
    BY <1>7, Written DEF LedgerInv
  <2>2. contact' = contact
    <3>1. contact' \in [Ids -> Contact \union {NoContact}]
      BY <1>7, NextContacts DEF LedgerInv, ContactInv, TypeOK, Next, Proceed
    <3>2. QED
      BY <1>1, <1>2, <1>7, <2>1, <3>1 DEF TypeOK
  <2>3. Overlapped' \subseteq Overlapped
    BY <1>2, <1>3, <1>7 DEF Reads, DeclineCommit, RevokeCommit, DeleteCommit, Ending
  <2>4. \E v : dek' = dek \ {v}
    <3>1. CASE DeclineCommit(q)
      <4>1. dek' = dek \ {Null}
        BY <1>2, <3>1, NullAssumption DEF DeclineCommit, TypeOK
      <4>2. QED  BY <4>1
    <3>2. CASE RevokeCommit(q) \/ DeleteCommit(q)
      BY <3>2 DEF RevokeCommit, DeleteCommit
    <3>3. QED  BY <1>7, <3>1, <3>2
  <2>5. raced' \subseteq raced
    BY <1>7 DEF DeclineCommit, RevokeCommit, DeleteCommit
  <2>6. QED
    BY <1>1, <1>2, <2>2, <2>3, <2>4, <2>5, DropMaps
<1>8. CASE (DeclineCommit(q) \/ RevokeCommit(q) \/ DeleteCommit(q)) /\ contact[i] # NoContact
  <2>1. Ledger!TakesCopy(i)
    BY <1>3, <1>8, EndingTakesCopy
  <2>2. contact[i].status \in Ledger!There
    BY <1>1, <1>2, <1>8, Rows
       DEF Contact, Ledger!There, Ledger!Open, Ledger!Closed, Active, Ended
  <2>3. CASE DeclineCommit(q)
    <3>1. c # NoContact /\ c.status = "declined" /\ c.user = contact[i].user
      BY <1>8, <2>3, Written DEF LedgerInv
    <3>2. Life' = [Life EXCEPT ![i] = "declined"] /\ Linked' = Linked
      BY <1>4, <1>8, <3>1
    <3>3. q \notin outdated => contact[i].status \in {"pending"}
      BY <1>2, <2>3 DEF Reads, DeclineCommit
    <3>4. Ledger!Moves(i, {"pending"}, "declined")
      BY <1>1, <1>3, <1>8, <3>2, <3>3, CommitMoves
    <3>5. Ledger!Decline(i)
      BY <2>1, <3>2, <3>4 DEF Ledger!Decline
    <3>6. QED  BY <1>1, <3>5 DEF Ledger!Next
  <2>4. CASE RevokeCommit(q)
    <3>1. /\ c # NoContact /\ c.user = contact[i].user
          /\ c.status = IF req[q].op = "revoking" THEN "revoked_by_owner" ELSE "revoked_by_contact"
      <4>1. ~DeclineCommit(q)
        BY <2>4 DEF DeclineCommit, RevokeCommit
      <4>2. QED  BY <1>8, <2>4, <4>1, Written DEF LedgerInv
    <3>2. CASE req[q].op = "revoking"
      <4>1. Life' = [Life EXCEPT ![i] = "revoked_by_owner"] /\ Linked' = Linked
        BY <1>4, <1>8, <3>1, <3>2
      <4>2. Ledger!Moves(i, Ledger!There, "revoked_by_owner")
        BY <1>1, <1>3, <1>8, <2>2, <4>1, CommitMoves
      <4>3. Ledger!Revoke(i)
        BY <2>1, <4>1, <4>2 DEF Ledger!Revoke
      <4>4. QED  BY <1>1, <4>3 DEF Ledger!Next
    <3>3. CASE req[q].op = "leaving"
      <4>1. Life' = [Life EXCEPT ![i] = "revoked_by_contact"] /\ Linked' = Linked
        BY <1>4, <1>8, <3>1, <3>3
      <4>2. q \notin outdated => contact[i].status \in {"accepted"}
        BY <1>2, <3>3 DEF Reads
      <4>3. Ledger!Moves(i, {"accepted"}, "revoked_by_contact")
        BY <1>1, <1>3, <1>8, <4>1, <4>2, CommitMoves
      <4>4. Ledger!Leave(i)
        BY <2>1, <4>1, <4>3 DEF Ledger!Leave
      <4>5. QED  BY <1>1, <4>4 DEF Ledger!Next
    <3>4. QED  BY <2>4, <3>2, <3>3 DEF RevokeCommit
  <2>5. CASE DeleteCommit(q)
    <3>1. c = NoContact /\ c.user = Null
      BY <2>5, Written DEF LedgerInv, NoContact
    <3>2. Life' = [Life EXCEPT ![i] = "deleted"] /\ Linked' = [Linked EXCEPT ![i] = Null]
      BY <1>4, <1>8, <3>1
    <3>3. Ledger!Moves(i, Ledger!There, "deleted")
      BY <1>1, <1>3, <1>8, <2>2, <3>2, CommitMoves
    <3>4. Ledger!Delete(i)
      BY <2>1, <3>2, <3>3 DEF Ledger!Delete
    <3>5. QED  BY <1>1, <3>4 DEF Ledger!Next
  <2>6. QED  BY <1>8, <2>3, <2>4, <2>5
<1>9. QED  BY <1>5, <1>6, <1>7, <1>8

\* An insert is an invitation with an id that was never used.
LEMMA InsertMaps ==
    ASSUME NullAssumption, LedgerInv, NEW q \in Requests, CreateInsert(q)
    PROVE  Ledger!Next
<1>1. TypeOK /\ req[q].user \in Users \union {Null} /\ FieldsOf(q) /\ req[q].op = "create"
  BY DEF LedgerInv, ContactInv, TypeOK, Request, CreateInsert
<1>2. PICK i \in Ids \ invited :
        /\ contact' = [contact EXCEPT ![i] =
                          [email |-> req[q].email, status |-> "pending", user |-> Null]]
        /\ invited' = invited \union {i}
        /\ ShareAhead(req[q].user, q)
  BY DEF CreateInsert
<1>3. contact[i] = NoContact
  BY <1>2 DEF LedgerInv
<1>4. /\ \A j \in Ids : j # i => contact'[j] = contact[j]
      /\ contact'[i] # NoContact /\ contact'[i].status = "pending"
      /\ contact'[i].user = contact[i].user
  BY <1>1, <1>2, <1>3 DEF TypeOK, NoContact
<1>5. /\ Life' = [Life EXCEPT ![i] = IF contact'[i] # NoContact THEN contact'[i].status
                                     ELSE "deleted"]
      /\ Linked' = [Linked EXCEPT ![i] = contact'[i].user]
  BY <1>2, <1>4, OneLife
<1>6. Life' = [Life EXCEPT ![i] = "pending"] /\ Linked' = Linked
  BY <1>4, <1>5 DEF Linked
<1>7. Life[i] = "none"
  BY <1>2, <1>3 DEF Life
<1>8. Overlapped' \subseteq Overlapped
  <2>1. Finish(q) /\ outdated' = outdated
    BY DEF CreateInsert
  <2>2. /\ req'[q].id = Null
        /\ \A p \in Requests \ {q} : req'[p] = req[p]
    BY <1>1, <2>1, Finished DEF Idle
  <2>3. QED
    BY <1>1, <2>1, <2>2, FewerOverlaps DEF TypeOK
<1>9. Ledger!Invite(i, req[q].user)
  BY <1>2, <1>6, <1>7, <1>8 DEF Ledger!Invite, Ledger!Shares, ShareAhead
<1>10. QED
  BY <1>1, <1>9 DEF Ledger!Next

\* Copies are stored and dropped beside the records, and other steps of a request
\* change neither.
LEMMA OtherMaps ==
    ASSUME NullAssumption, LedgerInv, NEW q \in Requests,
           \/ Start(q) \/ ReinviteUpdate(q) \/ DeclineUpdate(q) \/ RevokeUpdate(q)
           \/ DeleteKey(q) \/ Refused(q) \/ RequestFails(q)
           \/ DeclineDropKey(q) \/ StoreCommit(q)
    PROVE  Ledger!Next
<1>1. TypeOK /\ req[q] \in Request
  BY DEF LedgerInv, ContactInv, TypeOK
<1>2. CASE Start(q)
  <2>1. \E r : /\ req' = [req EXCEPT ![q] = r]
               /\ outdated' = outdated \ {q}
               /\ UNCHANGED <<contact, invited, dek, alive, raced>>
    BY <1>2 DEF Start, Begin, CreateSelect, DeclineSelect, RevokeSelect, LeaveSelect, DeleteSelect,
                AcceptSelect, StoreSelect
  <2>2. \A p \in Requests \ {q} : req'[p] = req[p]
    BY <1>1, <2>1 DEF TypeOK
  <2>3. Overlapped' \subseteq Overlapped
    BY <1>1, <2>1, <2>2, FewerOverlaps DEF TypeOK
  <2>4. QED
    BY <2>1, <2>3, ForgetMaps
<1>3. ASSUME outdated' = outdated, NEW r, req' = [req EXCEPT ![q] = r], r.id \in {req[q].id, Null}
      PROVE  Overlapped' \subseteq Overlapped
  <2>1. req'[q].id \in {req[q].id, Null} /\ \A p \in Requests \ {q} : req'[p] = req[p]
    BY <1>1, <1>3 DEF TypeOK
  <2>2. QED
    BY <1>1, <1>3, <2>1, FewerOverlaps DEF TypeOK
<1>4. ASSUME outdated' = outdated, NEW op, NEW u, req' = [req EXCEPT ![q].op = op, ![q].user = u]
      PROVE  Overlapped' \subseteq Overlapped
  <2> DEFINE r == [req[q] EXCEPT !.op = op, !.user = u]
  <2>1. r.id = req[q].id
    BY <1>1 DEF Request
  <2>2. req' = [req EXCEPT ![q] = r]
    BY <1>4
  <2>3. QED  BY <1>3, <1>4, <2>1, <2>2
<1>5. ASSUME outdated' = outdated, NEW op, Goto(q, op)
      PROVE  Overlapped' \subseteq Overlapped
  <2> DEFINE r == [req[q] EXCEPT !.op = op]
  <2>1. r.id = req[q].id
    BY <1>1 DEF Request
  <2>2. req' = [req EXCEPT ![q] = r]
    BY <1>5 DEF Goto
  <2>3. QED  BY <1>3, <1>5, <2>1, <2>2
<1>6. ASSUME outdated' = outdated, Finish(q)
      PROVE  Overlapped' \subseteq Overlapped
  BY <1>3, <1>6 DEF Finish, Idle
<1>7. CASE ReinviteUpdate(q) \/ DeclineUpdate(q) \/ RevokeUpdate(q)
  <2>1. /\ \E op : Goto(q, op)
        /\ UNCHANGED <<contact, invited, dek, outdated, raced>>
    BY <1>7 DEF ReinviteUpdate, DeclineUpdate, RevokeUpdate
  <2>2. QED
    BY <1>5, <2>1, ForgetMaps
<1>8. CASE DeleteKey(q)
  <2>1. /\ req' = [req EXCEPT ![q].op = "deleting",
                              ![q].user = IF req[q].user \in dek THEN req[q].user ELSE Null]
        /\ UNCHANGED <<contact, invited, dek, outdated, raced>>
    BY <1>8 DEF DeleteKey
  <2>2. QED
    BY <1>4, <2>1, ForgetMaps
<1>9. CASE Refused(q) \/ RequestFails(q)
  <2>1. Finish(q) /\ UNCHANGED <<contact, invited, dek, outdated, raced>>
    BY <1>9 DEF Refused, RequestFails
  <2>2. QED
    BY <1>6, <2>1, ForgetMaps
<1>10. CASE DeclineDropKey(q)
  <2>1. /\ Goto(q, "declined") /\ dek' = dek \ {DeclineRecipient(q)} /\ raced' \subseteq raced
        /\ UNCHANGED <<contact, invited, outdated>>
    BY <1>10 DEF DeclineDropKey
  <2>2. QED
    BY <1>1, <1>5, <2>1, DropMaps
<1>11. CASE StoreCommit(q)
  <2>1. /\ Finish(q) /\ dek' = dek \union {req[q].user} /\ raced' \subseteq raced \union {req[q].user}
        /\ UNCHANGED <<contact, invited, outdated>>
    BY <1>11 DEF StoreCommit
  <2>2. req[q].user \in Users
    BY <1>11 DEF StoreCommit, LedgerInv, ContactInv, FieldsOf
  <2>3. Ledger!Share(req[q].user)
    BY <1>6, <2>1, <2>2, SameLife, NullAssumption DEF Ledger!Share, Ledger!Shares
  <2>4. QED  BY <2>2, <2>3 DEF Ledger!Next
<1>12. QED
  BY <1>2, <1>7, <1>8, <1>9, <1>10, <1>11

\* The owner drops copies; an account that is deleted is closed in every record.
LEMMA AccountMaps ==
    ASSUME NullAssumption, LedgerInv, NEW u \in Users, DeleteDeks(u) \/ DeleteUser(u)
    PROVE  Ledger!Next
<1>1. TypeOK
  BY DEF LedgerInv, ContactInv
<1>2. /\ dek' = dek \ {u} /\ raced' \subseteq raced /\ UNCHANGED <<invited, req, outdated>>
  BY DEF DeleteDeks, DeleteUser
<1>3. Overlapped' = Overlapped
  BY <1>2 DEF Overlapped
<1>4. CASE DeleteDeks(u)
  BY <1>1, <1>2, <1>3, <1>4, DropMaps DEF DeleteDeks
<1>5. CASE DeleteUser(u)
  <2>1. ASSUME NEW i \in Ids
        PROVE  /\ contact'[i] # NoContact <=> contact[i] # NoContact
               /\ contact'[i].status = contact[i].status
               /\ contact'[i].user = IF contact[i].user = u THEN Null ELSE contact[i].user
    <3>1. CASE contact[i].user # u
      BY <1>5, <3>1 DEF DeleteUser
    <3>2. CASE contact[i].user = u
      <4>1. contact[i] \in Contact /\ contact[i] # NoContact
        BY <1>1, <3>2, Rows, NullAssumption
      <4>2. contact'[i] = [contact[i] EXCEPT !.user = Null]
        BY <1>5, <3>2 DEF DeleteUser
      <4>3. QED
        BY <3>2, <4>1, <4>2 DEF Contact, NoContact, Active, Ended
    <3>3. QED  BY <3>1, <3>2
  <2>2. Life' = Life
    BY <1>2, <2>1 DEF Life
  <2>3. Linked' = [i \in Ids |-> IF Linked[i] = u THEN Null ELSE Linked[i]]
    BY <2>1 DEF Linked
  <2>4. Ledger!Close(u)
    BY <1>2, <1>3, <2>2, <2>3 DEF Ledger!Close
  <2>5. QED  BY <2>4 DEF Ledger!Next
<1>6. QED  BY <1>4, <1>5

LEMMA InitMaps ==
    ASSUME Init
    PROVE  Ledger!Init
  BY DEF Init, Ledger!Init, Life, Linked, Overlapped, NoContact

LEMMA StepMaps ==
    ASSUME NullAssumption, LedgerInv, [Next]_vars
    PROVE  [Ledger!Next]_(Ledger!ledgerVars)
<1>1. ASSUME NEW q \in Requests, Start(q) \/ Proceed(q) \/ RequestFails(q)
      PROVE  Ledger!Next
  BY <1>1, CommitMaps, InsertMaps, OtherMaps DEF Proceed
<1>2. ASSUME NEW u \in Users, DeleteDeks(u) \/ DeleteUser(u)
      PROVE  Ledger!Next
  BY <1>2, AccountMaps
<1>3. CASE UNCHANGED vars
  <2>1. UNCHANGED <<Life, Linked, dek, Overlapped, raced>>
    BY <1>3 DEF vars, Life, Linked, Overlapped
  <2>2. QED  BY <2>1 DEF Ledger!ledgerVars
<1>4. QED
  BY <1>1, <1>2, <1>3 DEF Next

\* Statement by statement, the requests implement the life of a record that
\* AccessLedger describes: only an overlapped record leaves its order, a deleted
\* one never comes back, and the end of access takes the linked account's copy of
\* the key and no other one.
THEOREM LedgerKept == Spec => KeepsLedger
<1>1. Init => Ledger!Init
  BY InitMaps
<1>2. LedgerInv /\ [Next]_vars => [Ledger!Next]_(Ledger!ledgerVars)
  BY StepMaps, NullAssumption
<1>3. QED
  BY <1>1, <1>2, LedgerInvariance, PTL DEF Spec, KeepsLedger, Ledger!Spec

(***************************************************************************)
(* What follows from AccessLedger alone                                    *)
(***************************************************************************)
\* Which step ends a record, and whose copies it takes.
LEMMA LedgerEnds ==
    ASSUME [Ledger!Next]_(Ledger!ledgerVars), NEW i \in Ids,
           Life[i] \in Active, Life'[i] \notin Active
    PROVE  Ledger!TakesCopy(i)
<1> USE DEF Life, Active
<1>1. Ledger!Next
  BY DEF Ledger!ledgerVars
<1>2. ASSUME NEW j \in Ids, NEW k \in Users \union {Null}, Ledger!Invite(j, k) \/ Ledger!Reinvite(j, k)
      PROVE  FALSE
  BY <1>2 DEF Ledger!Invite, Ledger!Reinvite, Ledger!Moves
<1>3. ASSUME NEW j \in Ids, NEW u \in Users, Ledger!Accept(j, u)
      PROVE  FALSE
  BY <1>3 DEF Ledger!Accept, Ledger!Moves
<1>4. ASSUME NEW j \in Ids,
             Ledger!Decline(j) \/ Ledger!Leave(j) \/ Ledger!Revoke(j) \/ Ledger!Delete(j)
      PROVE  Ledger!TakesCopy(i)
  <2>1. PICK t : Life' = [Life EXCEPT ![j] = t]
    BY <1>4 DEF Ledger!Decline, Ledger!Leave, Ledger!Revoke, Ledger!Delete, Ledger!Moves
  <2>2. j = i
    BY <2>1
  <2>3. Ledger!TakesCopy(j)
    BY <1>4 DEF Ledger!Decline, Ledger!Leave, Ledger!Revoke, Ledger!Delete
  <2>4. QED  BY <2>2, <2>3
<1>5. ASSUME NEW u \in Users, Ledger!Share(u) \/ Ledger!Drop(u) \/ Ledger!Close(u)
      PROVE  FALSE
  BY <1>5 DEF Ledger!Share, Ledger!Drop, Ledger!Close
<1>6. ~Ledger!Forget
  BY DEF Ledger!Forget
<1>7. QED
  BY <1>1, <1>2, <1>3, <1>4, <1>5, <1>6 DEF Ledger!Next

\* The end of a contact's access, which takes the contact's copy, leaves everybody
\* else's where it is, unless another request wrote the record in between.
THEOREM OthersKeepCopies ==
    Spec => [][\A i \in Ids :
        contact[i].status \in Active /\ contact'[i].status \notin Active
            => dek \ dek' \subseteq {contact[i].user} \/ \E q \in outdated : req[q].id = i]_vars
<1>1. ASSUME TypeOK, [Ledger!Next]_(Ledger!ledgerVars), NEW i \in Ids,
             contact[i].status \in Active, contact'[i].status \notin Active
      PROVE  dek \ dek' \subseteq {contact[i].user} \/ \E q \in outdated : req[q].id = i
  <2>1. Life[i] \in Active /\ Life'[i] \notin Active
    BY <1>1 DEF Life, NoContact, Active
  <2>2. Ledger!TakesCopy(i)
    BY <1>1, <2>1, LedgerEnds
  <2>3. Linked[i] = contact[i].user
    BY DEF Linked
  <2>4. CASE i \in Overlapped
    BY <2>4 DEF Overlapped
  <2>5. CASE i \notin Overlapped
    <3>1. PICK v \in {contact[i].user, Null} : dek' = dek \ {v}
      BY <2>2, <2>3, <2>5 DEF Ledger!TakesCopy
    <3>2. Null \notin dek
      BY <1>1, NullAssumption DEF TypeOK
    <3>3. QED
      BY <3>1, <3>2
  <2>6. QED  BY <2>4, <2>5
<1>2. TypeOK /\ [Ledger!Next]_(Ledger!ledgerVars) =>
        \A i \in Ids :
          contact[i].status \in Active /\ contact'[i].status \notin Active
            => dek \ dek' \subseteq {contact[i].user} \/ \E q \in outdated : req[q].id = i
  BY <1>1
<1>3. QED
  BY <1>2, TypeCorrect, LedgerKept, PTL DEF KeepsLedger, Ledger!Spec

\* A contact that is deleted is gone: no request that had read it, however late
\* it commits, brings the record back.
THEOREM DeletedIsGone ==
    Spec => [][\A i \in invited : contact[i] = NoContact => contact'[i] = NoContact]_vars
<1>1. ASSUME TypeOK, TypeOK', [Ledger!Next]_(Ledger!ledgerVars), NEW i \in invited,
             contact[i] = NoContact
      PROVE  contact'[i] = NoContact
  <2>1. i \in Ids /\ Life[i] = "deleted"
    BY <1>1 DEF TypeOK, Life
  <2>2. Life'[i] = "deleted"
    <3> USE DEF Life
    <3>1. CASE UNCHANGED Ledger!ledgerVars
      BY <2>1, <3>1 DEF Ledger!ledgerVars
    <3>2. ASSUME NEW j \in Ids, NEW from \in SUBSET (Ledger!There), NEW t, Ledger!Moves(j, from, t)
          PROVE  Life'[i] = "deleted"
      <4>1. Life[j] # "deleted"
        BY <3>2 DEF Ledger!Moves, Ledger!There, Ledger!Open, Ledger!Closed
      <4>2. QED
        BY <2>1, <3>2, <4>1 DEF Ledger!Moves
    <3>3. ASSUME NEW j \in Ids, NEW k, Ledger!Invite(j, k)
          PROVE  Life'[i] = "deleted"
      BY <2>1, <3>3 DEF Ledger!Invite
    <3>4. Ledger!Open \subseteq Ledger!There /\ Ledger!Closed \subseteq Ledger!There
      BY DEF Ledger!There
    <3>5. {"pending"} \subseteq Ledger!There /\ {"accepted"} \subseteq Ledger!There
      BY DEF Ledger!There, Ledger!Open
    <3>6. ASSUME NEW j \in Ids,
                 \/ \E k : Ledger!Reinvite(j, k)
                 \/ \E u : Ledger!Accept(j, u)
                 \/ Ledger!Decline(j) \/ Ledger!Leave(j) \/ Ledger!Revoke(j) \/ Ledger!Delete(j)
          PROVE  Life'[i] = "deleted"
      <4>1. \E from \in SUBSET (Ledger!There) : \E t : Ledger!Moves(j, from, t)
        BY <3>4, <3>5, <3>6
           DEF Ledger!Reinvite, Ledger!Accept, Ledger!Decline, Ledger!Leave, Ledger!Revoke,
               Ledger!Delete
      <4>2. QED  BY <3>2, <4>1
    <3>7. ASSUME NEW u, Ledger!Share(u) \/ Ledger!Drop(u) \/ Ledger!Close(u)
          PROVE  Life' = Life
      BY <3>7 DEF Ledger!Share, Ledger!Drop, Ledger!Close
    <3>8. Ledger!Forget => Life' = Life
      BY DEF Ledger!Forget
    <3>9. QED
      BY <1>1, <2>1, <3>1, <3>3, <3>6, <3>7, <3>8 DEF Ledger!Next
  <2>3. contact'[i].status = "deleted" => contact'[i] = NoContact
    BY <1>1, <2>1 DEF TypeOK, Contact, Active, Ended
  <2>4. QED
    BY <2>1, <2>2, <2>3 DEF Life
<1>2. TypeOK /\ TypeOK' /\ [Ledger!Next]_(Ledger!ledgerVars) =>
        \A i \in invited : contact[i] = NoContact => contact'[i] = NoContact
  BY <1>1
<1>3. QED
  BY <1>2, TypeCorrect, LedgerKept, PTL DEF KeepsLedger, Ledger!Spec

=============================================================================
