-------------------------- MODULE TrustedContacts --------------------------
(***************************************************************************)
(* One plan's trusted contacts and the copies of the plan's key (contact   *)
(* DEKs) stored for them.  Owner requests (invite, revoke, delete, share   *)
(* a key) and contact requests (accept, decline, leave) run concurrently,  *)
(* each in a READ COMMITTED transaction of its own: a SELECT decides, and  *)
(* an UPDATE by primary key acts without deciding again.                   *)
(*                                                                         *)
(* An action is one statement that another transaction can come between.   *)
(* A transaction's writes appear when it commits; until then the rows it   *)
(* has written are locked, which the stages of a request record.           *)
(*                                                                         *)
(* Left out: names, notes and the access level (no decision here reads     *)
(* them), e-mails and push notifications (sent best effort), the activity  *)
(* log, and the key versions of a copy (module EncryptionKeys).  An        *)
(* invitation link is a signed token of the contact's id; that it expires  *)
(* after 30 days is modelled by the holder not using it.                   *)
(***************************************************************************)
EXTENDS Naturals, FiniteSets

CONSTANTS
    Users,      \* accounts other than the owner's
    Emails,     \* addresses the owner may invite
    AccountOf,  \* the account registered with an address, Null if none
    Ids,        \* contact ids, each used once
    Requests,   \* requests in flight at once
    Null        \* SQL NULL

ASSUME NullAssumption == Null \notin Users \union Emails \union Ids
ASSUME AccountAssumption == AccountOf \in [Emails -> Users \union {Null}]

VARIABLES
    contact,    \* trusted_contacts of the plan
    invited,    \* ids ever inserted; a link with the id is in the mail
    dek,        \* encrypted_deks of type contact: the recipients that have one
    alive,      \* accounts that exist
    req,        \* the requests in flight
    \* Observation only: no action's guard reads these
    outdated,   \* requests that read a record whose status was written afterwards
    raced       \* recipients linked or given a copy while a request that ends
                \* their access was under way

vars == <<contact, invited, dek, alive, req, outdated, raced>>

(***************************************************************************)
(* Rows                                                                    *)
(***************************************************************************)
Active == {"pending", "accepted"}
Ended == {"declined", "revoked_by_owner", "revoked_by_contact"}

Contact == [email : Emails, status : Active \union Ended, user : Users \union {Null}]

NoContact == [email |-> Null, status |-> "none", user |-> Null]

(***************************************************************************)
(* Requests.  The first stage of each follows its SELECT; the record keeps *)
(* what the SELECT returned.                                               *)
(*   create     to insert, or (id known) to re-invite                      *)
(*   reinviting the row is updated and locked                              *)
(*   accept     a pending invitation was read                              *)
(*   decline    a pending invitation was read                              *)
(*   declining  the row is updated and locked                              *)
(*   declined   and the key copies are deleted, by another connection      *)
(*   revoke     by the owner; leave  by the contact                        *)
(*   revoking, leaving   the row is updated and locked                     *)
(*   delete     the contact was read                                       *)
(*   deleting   its key copies are deleted and locked                      *)
(*   store      the recipient is a contact of the plan                     *)
(***************************************************************************)
RowLocking == {"reinviting", "declining", "declined", "revoking", "leaving"}
Ending == {"decline", "declining", "declined", "revoke", "revoking", "leave", "leaving",
           "delete", "deleting"}

Ops == {"idle", "create", "accept", "store"} \union RowLocking \union Ending

Request == [op : Ops, id : Ids \union {Null}, user : Users \union {Null},
            email : Emails \union {Null}]

Idle == [op |-> "idle", id |-> Null, user |-> Null, email |-> Null]

TypeOK ==
    /\ contact \in [Ids -> Contact \union {NoContact}]
    /\ invited \subseteq Ids
    /\ dek \subseteq Users
    /\ alive \subseteq Users
    /\ req \in [Requests -> Request]
    /\ outdated \subseteq Requests
    /\ raced \subseteq Users

Init ==
    /\ contact = [i \in Ids |-> NoContact]
    /\ invited = {}
    /\ dek = {}
    /\ alive = Users
    /\ req = [q \in Requests |-> Idle]
    /\ outdated = {}
    /\ raced = {}

\* Row locks held by transactions other than q's.
RowLocked(i, q) == \E p \in Requests \ {q} : req[p].op \in RowLocking /\ req[p].id = i
KeyLocked(u, q) ==
    /\ u # Null
    /\ \E p \in Requests \ {q} : req[p].op = "deleting" /\ req[p].user = u

Goto(q, op) == req' = [req EXCEPT ![q].op = op]
Finish(q) == req' = [req EXCEPT ![q] = Idle]

Begin(q, op, i, u, e) ==
    /\ req[q] = Idle
    /\ req' = [req EXCEPT ![q] = [op |-> op, id |-> i, user |-> u, email |-> e]]
    /\ outdated' = outdated \ {q}
    /\ UNCHANGED <<contact, invited, dek, alive, raced>>

\* UPDATE ... SET access_status WHERE id: no row is no error.
SetStatus(i, status) ==
    contact' = IF contact[i] = NoContact THEN contact ELSE [contact EXCEPT ![i].status = status]

\* Observation: the other requests that read record i are outdated when its
\* status is written, and u races with the requests under way that end one of
\* its records.
Outdates(i, q) == outdated' = outdated \union {p \in Requests \ {q} : req[p].id = i}
Races(u) == \E p \in Requests : req[p].op \in Ending /\ contact[req[p].id].user = u

(***************************************************************************)
(* The owner invites: TrustedContactsService.create                        *)
(***************************************************************************)
\* Bound: ids left for the inserts under way and for one more.
SpareId == Cardinality({p \in Requests : req[p].op = "create" /\ req[p].id = Null})
               < Cardinality(Ids \ invited)

\* Whatever the record's status.
CreateSelectAny(q, e, k) ==
    \/ /\ SpareId
       /\ \A i \in Ids : contact[i].email # e
       /\ Begin(q, "create", Null, k, e)
    \/ \E i \in Ids : contact[i].email = e /\ Begin(q, "create", i, k, e)

\* Rejected when the address is a pending or accepted contact already.  k is
\* the recipient of key copies shared in advance, Null without.
CreateSelect(q, e, k) ==
    \/ /\ SpareId
       /\ \A i \in Ids : contact[i].email # e
       /\ Begin(q, "create", Null, k, e)
    \/ \E i \in Ids :
          /\ contact[i].email = e
          /\ contact[i].status \in Ended
          /\ Begin(q, "create", i, k, e)

\* A copy whether or not one was provided.
ShareUnprovided(k, q) ==
    /\ k # Null => k \in alive /\ ~KeyLocked(k, q)
    /\ dek' = dek \union {k}
    /\ raced' = raced \union {u \in {k} \ {Null} : Races(u)}

\* storeContactDekCopies; the recipient must exist.
ShareAhead(k, q) ==
    /\ k # Null => k \in alive /\ ~KeyLocked(k, q)
    /\ dek' = dek \union ({k} \ {Null})
    /\ raced' = raced \union {u \in {k} \ {Null} : Races(u)}

\* The unique index on (plan, email) makes the second of two inserts fail.
CreateInsert(q) ==
    /\ req[q].op = "create"
    /\ req[q].id = Null
    /\ \A i \in Ids : contact[i].email # req[q].email
    /\ \E i \in Ids \ invited :
          /\ contact' = [contact EXCEPT ![i] =
                            [email |-> req[q].email, status |-> "pending", user |-> Null]]
          /\ invited' = invited \union {i}
          /\ ShareAhead(req[q].user, q)
    /\ Finish(q)
    /\ UNCHANGED <<alive, outdated>>

\* The re-invitation's UPDATE by id.
ReinviteUpdate(q) ==
    /\ req[q].op = "create"
    /\ req[q].id # Null
    /\ contact[req[q].id] # NoContact
    /\ ~RowLocked(req[q].id, q)
    /\ Goto(q, "reinviting")
    /\ UNCHANGED <<contact, invited, dek, alive, outdated, raced>>

\* The linked account is kept.
ReinviteCommit(q) ==
    /\ req[q].op = "reinviting"
    /\ contact' = [contact EXCEPT ![req[q].id].status = "pending"]
    /\ ShareAhead(req[q].user, q)
    /\ Outdates(req[q].id, q)
    /\ Finish(q)
    /\ UNCHANGED <<invited, alive>>

(***************************************************************************)
(* A contact accepts or declines: InvitationActionsService                 *)
(***************************************************************************)
\* Any account that holds the link may accept, or (SharedPlansService) the
\* one registered with the invited address.
AcceptUnchecked(q, i, u) ==
    /\ i \in invited
    /\ u \in alive
    /\ contact[i] # NoContact
    /\ Begin(q, "accept", i, u, Null)

\* findAndValidatePendingContact, findPendingInvitation
AcceptSelect(q, i, u) ==
    /\ i \in invited
    /\ u \in alive
    /\ contact[i].status = "pending"
    /\ Begin(q, "accept", i, u, Null)

\* performAccept: UPDATE by id, whatever the status is by now.
AcceptCommit(q) ==
    LET i == req[q].id
        u == req[q].user
    IN  /\ req[q].op = "accept"
        /\ contact[i] # NoContact
        /\ u \in alive
        /\ ~RowLocked(i, q)
        /\ contact' = [contact EXCEPT ![i].status = "accepted", ![i].user = u]
        /\ raced' = raced \union {v \in {u} : \E p \in Requests : req[p].op \in Ending /\ req[p].id = i}
        /\ Outdates(i, q)
        /\ Finish(q)
        /\ UNCHANGED <<invited, dek, alive>>

DeclineSelect(q, i) ==
    /\ i \in invited
    /\ contact[i].status = "pending"
    /\ Begin(q, "decline", i, contact[i].user, contact[i].email)

\* performDecline's UPDATE by id.
DeclineUpdate(q) ==
    /\ req[q].op = "decline"
    /\ ~RowLocked(req[q].id, q)
    /\ Goto(q, "declining")
    /\ UNCHANGED <<contact, invited, dek, alive, outdated, raced>>

\* The linked account, else the one registered with the address.
DeclineRecipient(q) ==
    IF req[q].user # Null THEN req[q].user ELSE AccountOf[req[q].email]

\* deleteContactDekCopy without a transaction: another connection, which
\* commits on its own while the first one waits, holding its row lock.
DeclineDropKey(q) ==
    /\ req[q].op = "declining"
    /\ ~KeyLocked(DeclineRecipient(q), q)
    /\ dek' = dek \ {DeclineRecipient(q)}
    /\ raced' = raced \intersect dek'
    /\ Goto(q, "declined")
    /\ UNCHANGED <<contact, invited, alive, outdated>>

DeclineCommit(q) ==
    /\ req[q].op = "declined"
    /\ SetStatus(req[q].id, "declined")
    /\ Outdates(req[q].id, q)
    /\ Finish(q)
    /\ UNCHANGED <<invited, dek, alive, raced>>

(***************************************************************************)
(* Access ends: TrustedContactsService.revoke, revokeOwnAccess, delete     *)
(***************************************************************************)
RevokeSelect(q, i) ==
    /\ contact[i] # NoContact
    /\ Begin(q, "revoke", i, contact[i].user, Null)

\* revokeOwnAccess reads one of the user's records; only an accepted one may go.
LeaveSelect(q, i) ==
    /\ contact[i].user # Null
    /\ contact[i].status = "accepted"
    /\ Begin(q, "leave", i, contact[i].user, Null)

RevokeUpdate(q) ==
    /\ req[q].op \in {"revoke", "leave"}
    /\ ~RowLocked(req[q].id, q)
    /\ Goto(q, IF req[q].op = "revoke" THEN "revoking" ELSE "leaving")
    /\ UNCHANGED <<contact, invited, dek, alive, outdated, raced>>

\* The status without the copy.
RevokeKeepingKey(q) ==
    /\ req[q].op \in {"revoking", "leaving"}
    /\ ~KeyLocked(req[q].user, q)
    /\ SetStatus(req[q].id, IF req[q].op = "revoking" THEN "revoked_by_owner"
                            ELSE "revoked_by_contact")
    /\ Outdates(req[q].id, q)
    /\ Finish(q)
    /\ UNCHANGED <<invited, dek, alive, raced>>

\* Deletes the copies of the account the SELECT saw linked, and commits.
RevokeCommit(q) ==
    /\ req[q].op \in {"revoking", "leaving"}
    /\ ~KeyLocked(req[q].user, q)
    /\ SetStatus(req[q].id, IF req[q].op = "revoking" THEN "revoked_by_owner"
                            ELSE "revoked_by_contact")
    /\ dek' = dek \ {req[q].user}
    /\ raced' = raced \intersect dek'
    /\ Outdates(req[q].id, q)
    /\ Finish(q)
    /\ UNCHANGED <<invited, alive>>

DeleteSelect(q, i) ==
    /\ contact[i] # NoContact
    /\ Begin(q, "delete", i, contact[i].user, Null)

\* The copies go first, in the transaction, and stay locked; the record names
\* their recipient if there are any.
DeleteKey(q) ==
    /\ req[q].op = "delete"
    /\ ~KeyLocked(req[q].user, q)
    /\ req' = [req EXCEPT ![q].op = "deleting",
                          ![q].user = IF @ \in dek THEN @ ELSE Null]
    /\ UNCHANGED <<contact, invited, dek, alive, outdated, raced>>

DeleteCommit(q) ==
    /\ req[q].op = "deleting"
    /\ ~RowLocked(req[q].id, q)
    /\ contact' = [contact EXCEPT ![req[q].id] = NoContact]
    /\ dek' = dek \ {req[q].user}
    /\ raced' = raced \intersect dek'
    /\ Outdates(req[q].id, q)
    /\ Finish(q)
    /\ UNCHANGED <<invited, alive>>

(***************************************************************************)
(* Key copies: EncryptionService                                           *)
(***************************************************************************)
\* storeEncryptedDek: the recipient is linked to some record of the plan; its
\* status is not looked at.
StoreSelect(q, u) ==
    /\ \E i \in Ids : contact[i].user = u
    /\ Begin(q, "store", Null, u, Null)

StoreCommit(q) ==
    LET u == req[q].user
    IN  /\ req[q].op = "store"
        /\ u \in alive
        /\ ~KeyLocked(u, q)
        /\ dek' = dek \union {u}
        /\ raced' = raced \union {v \in {u} : Races(v)}
        /\ Finish(q)
        /\ UNCHANGED <<contact, invited, alive, outdated>>

\* deleteDeks by the owner, one statement.
DeleteDeks(u) ==
    /\ u \in dek
    /\ ~\E p \in Requests : req[p].op = "deleting" /\ req[p].user = u
    /\ dek' = dek \ {u}
    /\ raced' = raced \ {u}
    /\ UNCHANGED <<contact, invited, alive, req, outdated>>

-----------------------------------------------------------------------------
\* The violation of the unique index is retried, not answered.
RefusedUnlessTaken(q) ==
    /\ \/ req[q].op \in {"create", "accept"} /\ req[q].id # Null /\ contact[req[q].id] = NoContact
       \/ req[q].op \in {"create", "reinviting", "accept", "store"} /\ req[q].user \notin alive \union {Null}
    /\ Finish(q)
    /\ UNCHANGED <<contact, invited, dek, alive, outdated, raced>>

\* A statement that must find a row or an account finds none, or violates the
\* unique index: the request is answered with an error.
Refused(q) ==
    /\ \/ /\ req[q].op = "create" /\ req[q].id = Null
          /\ \E i \in Ids : contact[i].email = req[q].email
       \/ req[q].op \in {"create", "accept"} /\ req[q].id # Null /\ contact[req[q].id] = NoContact
       \/ req[q].op \in {"create", "reinviting", "accept", "store"} /\ req[q].user \notin alive \union {Null}
    /\ Finish(q)
    /\ UNCHANGED <<contact, invited, dek, alive, outdated, raced>>

\* The transaction fails or the process dies: its writes are undone and its
\* locks released, but what another connection committed stays.
RequestFails(q) ==
    /\ req[q] # Idle
    /\ Finish(q)
    /\ UNCHANGED <<contact, invited, dek, alive, outdated, raced>>

\* The account is deleted (Clerk webhook): its key copies go by cascade and
\* its records stay, unlinked.
DeleteUser(u) ==
    /\ u \in alive
    /\ \A i \in Ids : contact[i].user = u => ~\E p \in Requests : req[p].op \in RowLocking /\ req[p].id = i
    /\ ~\E p \in Requests : req[p].op = "deleting" /\ req[p].user = u
    /\ alive' = alive \ {u}
    /\ contact' = [i \in Ids |-> IF contact[i].user = u THEN [contact[i] EXCEPT !.user = Null]
                                 ELSE contact[i]]
    /\ dek' = dek \ {u}
    /\ raced' = raced \ {u}
    /\ UNCHANGED <<invited, req, outdated>>

Start(q) ==
    \/ \E e \in Emails, k \in Users \union {Null} : CreateSelect(q, e, k)
    \/ \E i \in Ids : DeclineSelect(q, i) \/ RevokeSelect(q, i) \/ LeaveSelect(q, i) \/ DeleteSelect(q, i)
    \/ \E i \in Ids, u \in Users : AcceptSelect(q, i, u)
    \/ \E u \in Users : StoreSelect(q, u)

Proceed(q) ==
    \/ CreateInsert(q) \/ ReinviteUpdate(q) \/ ReinviteCommit(q)
    \/ AcceptCommit(q)
    \/ DeclineUpdate(q) \/ DeclineDropKey(q) \/ DeclineCommit(q)
    \/ RevokeUpdate(q) \/ RevokeCommit(q)
    \/ DeleteKey(q) \/ DeleteCommit(q)
    \/ StoreCommit(q)
    \/ Refused(q)

Next ==
    \/ \E q \in Requests : Start(q) \/ Proceed(q) \/ RequestFails(q)
    \/ \E u \in Users : DeleteDeks(u) \/ DeleteUser(u)

Spec == Init /\ [][Next]_vars

\* PostgreSQL fails one of two transactions that wait for each other's locks.
DeadlockDetected(q) ==
    /\ req[q].op = "deleting"
    /\ \E p \in Requests \ {q} :
          /\ req[p].op \in {"reinviting", "revoking", "leaving"}
          /\ req[p].id = req[q].id
          /\ KeyLocked(req[p].user, p)
    /\ RequestFails(q)

\* A statement that is not blocked runs, and one that waits for a row's lock
\* gets it in turn: the waiters queue.
FairSpec ==
    Spec /\ \A q \in Requests : SF_vars(Proceed(q)) /\ WF_vars(DeadlockDetected(q))

(***************************************************************************)
(* Safety                                                                  *)
(***************************************************************************)

\* Access, once ended, comes back by a new invitation, or by an acceptance
\* that had read the invitation before access ended; never by one that starts
\* later, however many links are in the mail.
EndedStaysEnded ==
    [][\A i \in Ids :
        contact[i].status # "pending" /\ contact[i].status # "accepted"
            /\ contact'[i].status = "accepted" =>
        \E q \in outdated : req[q].op = "accept" /\ req[q].id = i]_vars

\* The step that ends a linked contact's access leaves no copy of the plan's
\* key behind, unless the contact was linked or given the copy while that
\* request was already under way.
EndingDropsKey ==
    [][\A i \in Ids :
        LET u == contact[i].user
        IN  contact[i].status \in Active /\ u # Null /\ contact'[i].status \notin Active
                => u \notin dek' \/ u \in raced]_vars

\* A record as AccessLedger sees it: a deleted one is known by its id, which is
\* used once.
Life == [i \in Ids |-> IF contact[i] # NoContact THEN contact[i].status
                       ELSE IF i \in invited THEN "deleted" ELSE "none"]
Linked == [i \in Ids |-> contact[i].user]
Overlapped == {req[q].id : q \in outdated} \ {Null}

Ledger == INSTANCE AccessLedger WITH
    status <- Life, linked <- Linked, copies <- dek, overlaps <- Overlapped, contested <- raced

\* Statement by statement as they run, the requests implement AccessLedger, where
\* each is one step: a record goes through its life in order, out of it only
\* while a request is under way that had read it before another one's write,
\* and its end takes the linked account's copy of the key and nobody else's.
KeepsLedger == Ledger!Spec

\* What the security documentation says of a revocation: the contact's copies
\* of the key are deleted.  An address that has an account is that contact.
RevokedHoldNoKey ==
    [][\A i \in Ids :
        LET e == contact[i].email
        IN  contact[i].status \in Active /\ contact'[i].status = "revoked_by_owner"
                => AccountOf[e] \notin dek']_vars

\* A decline waits for a key copy that a delete has locked, and the delete for
\* the decline's row.  The database does not see the cycle: between the
\* decline's two connections the program waits, not the database.
HiddenDeadlock ==
    \E p, q \in Requests :
        /\ req[p].op = "declining" /\ KeyLocked(DeclineRecipient(p), p)
        /\ req[q].op = "deleting" /\ req[q].user = DeclineRecipient(p) /\ req[q].id = req[p].id

\* Nothing else keeps a request waiting for ever.
RequestsFinish == \A q \in Requests : (req[q] # Idle) ~> (req[q] = Idle \/ HiddenDeadlock)

\* What InvitationActionsService says of declining: update, log, notify.  A
\* decline that has begun to write comes to an end.
DeclineFinishes ==
    \A q \in Requests : (req[q].op = "declining") ~> (req[q].op # "declining")
=============================================================================
