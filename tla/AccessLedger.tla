---------------------------- MODULE AccessLedger ----------------------------
(***************************************************************************)
(* What family access promises of one plan, as if each request were one    *)
(* step: the life of a contact record, the account it is linked to, and    *)
(* the accounts that have a copy of the plan's key.                        *)
(*                                                                         *)
(* A request that has read a record before another one wrote its status    *)
(* overlaps it; only while one does may the record leave the order of its  *)
(* life, and even then no record comes back that was deleted.              *)
(***************************************************************************)
CONSTANTS
    Users,
    Ids,        \* of records, each used once
    Null

VARIABLES
    status,     \* of each record
    linked,     \* the account that has accepted, Null if none
    copies,     \* accounts with a copy of the plan's key
    overlaps,   \* records that a request has read before their last change
    contested   \* accounts linked or given a copy while their access was ending

ledgerVars == <<status, linked, copies, overlaps, contested>>

Open == {"pending", "accepted"}
Closed == {"declined", "revoked_by_owner", "revoked_by_contact"}
There == Open \union Closed

Init ==
    /\ status = [i \in Ids |-> "none"]
    /\ linked = [i \in Ids |-> Null]
    /\ copies = {}
    /\ overlaps = {}
    /\ contested = {}

\* Record i goes from one of the states named, or any while it is overlapped, to
\* state s; who has read it before overlaps it now.
Moves(i, from, s) ==
    /\ status[i] \in from \/ (status[i] \in There /\ i \in overlaps)
    /\ status' = [status EXCEPT ![i] = s]
    /\ overlaps' \subseteq overlaps \union {i}

\* A copy for k, Null for none.
Shares(k) ==
    /\ copies' = copies \union ({k} \ {Null})
    /\ contested' \subseteq contested \union {k}

Invite(i, k) ==
    /\ status[i] = "none"
    /\ status' = [status EXCEPT ![i] = "pending"]
    /\ overlaps' \subseteq overlaps
    /\ Shares(k)
    /\ UNCHANGED linked

Reinvite(i, k) ==
    /\ Moves(i, Closed, "pending")
    /\ Shares(k)
    /\ UNCHANGED linked

Accept(i, u) ==
    /\ Moves(i, {"pending"}, "accepted")
    /\ linked' = [linked EXCEPT ![i] = u]
    /\ contested' \subseteq contested \union {u}
    /\ UNCHANGED copies

\* The copy of the linked account goes, and no other one; it may stay only for
\* a contested account.
TakesCopy(i) ==
    /\ \E u \in {linked[i], Null} \union (IF i \in overlaps THEN Users ELSE {}) :
          copies' = copies \ {u}
    /\ status[i] \in Open /\ linked[i] # Null => linked[i] \notin copies' \/ linked[i] \in contested
    /\ contested' \subseteq contested

Decline(i) == Moves(i, {"pending"}, "declined") /\ TakesCopy(i) /\ UNCHANGED linked
Leave(i) == Moves(i, {"accepted"}, "revoked_by_contact") /\ TakesCopy(i) /\ UNCHANGED linked
Revoke(i) == Moves(i, There, "revoked_by_owner") /\ TakesCopy(i) /\ UNCHANGED linked

Delete(i) ==
    /\ Moves(i, There, "deleted")
    /\ TakesCopy(i)
    /\ linked' = [linked EXCEPT ![i] = Null]

Share(k) == Shares(k) /\ overlaps' \subseteq overlaps /\ UNCHANGED <<status, linked>>

\* The owner takes a copy, or a decline does before it says so.
Drop(u) ==
    /\ copies' = copies \ {u}
    /\ contested' \subseteq contested
    /\ overlaps' \subseteq overlaps
    /\ UNCHANGED <<status, linked>>

\* An account is deleted: its copy goes, its records stay.
Close(u) ==
    /\ linked' = [i \in Ids |-> IF linked[i] = u THEN Null ELSE linked[i]]
    /\ copies' = copies \ {u}
    /\ contested' \subseteq contested
    /\ UNCHANGED <<status, overlaps>>

\* Requests come and go.
Forget ==
    /\ overlaps' \subseteq overlaps
    /\ contested' \subseteq contested
    /\ UNCHANGED <<status, linked, copies>>

Next ==
    \/ \E i \in Ids :
        \/ \E k \in Users \union {Null} : Invite(i, k) \/ Reinvite(i, k)
        \/ \E u \in Users : Accept(i, u)
        \/ Decline(i) \/ Leave(i) \/ Revoke(i) \/ Delete(i)
    \/ \E u \in Users : Share(u) \/ Drop(u) \/ Close(u)
    \/ Forget

Spec == Init /\ [][Next]_ledgerVars
=============================================================================
