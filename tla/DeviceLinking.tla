--------------------------- MODULE DeviceLinking ---------------------------
(***************************************************************************)
(* Device linking sessions: one device of a user deposits a payload in a   *)
(* session, another one claims it.  A deposit and a claim each read the    *)
(* session and then update it by its id, whatever has become of it.        *)
(*                                                                         *)
(* The payload is named by the request that deposits it.  The sessions are *)
(* of one user: the others' are hidden by the row-level policy.            *)
(***************************************************************************)
EXTENDS FiniteSets, Naturals

CONSTANTS
    Sessions,       \* sessions, each created once
    LinkRequests,   \* deposits and claims, each made once
    Nothing         \* SQL NULL

ASSUME LinkAssumption == Nothing \notin LinkRequests \union Sessions

VARIABLES
    session,    \* the table
    lreq,       \* the requests
    given,      \* what each claim has returned
    \* Observation only
    outdated,   \* requests whose session has changed since they read it
    crossed     \* sessions that an outdated request has written

linkVars == <<session, lreq, given, outdated, crossed>>

Statuses == {"none", "pending", "claimed", "completed", "deleted"}
Session == [status : Statuses, payload : LinkRequests \union {Nothing}, expired : BOOLEAN]

LinkRequest == [step : {"new", "deposit", "claim", "over"}, session : Sessions \union {Nothing},
                payload : LinkRequests \union {Nothing}]

LinkTypeOK ==
    /\ session \in [Sessions -> Session]
    /\ \A s \in Sessions : session[s].status \in {"claimed", "completed"} => session[s].payload # Nothing
    /\ lreq \in [LinkRequests -> LinkRequest]
    /\ given \in [LinkRequests -> LinkRequests \union {Nothing}]
    /\ outdated \subseteq LinkRequests
    /\ crossed \subseteq Sessions

LinkInit ==
    /\ session = [s \in Sessions |-> [status |-> "none", payload |-> Nothing, expired |-> FALSE]]
    /\ lreq = [q \in LinkRequests |-> [step |-> "new", session |-> Nothing, payload |-> Nothing]]
    /\ given = [q \in LinkRequests |-> Nothing]
    /\ outdated = {}
    /\ crossed = {}

Put(s, status, payload, expired) ==
    [session EXCEPT ![s] = [status |-> status, payload |-> payload, expired |-> expired]]

Over(q) ==
    lreq' = [lreq EXCEPT ![q] = [step |-> "over", session |-> lreq[q].session,
                                 payload |-> lreq[q].payload]]

CreateSession(s) ==
    /\ session[s].status = "none"
    /\ session' = Put(s, "pending", Nothing, FALSE)
    /\ UNCHANGED <<lreq, given, outdated, crossed>>

\* A SELECT that finds the session in the status, and not expired.
Reads(q, s, step, status) ==
    /\ lreq[q].step = "new"
    /\ session[s].status = status
    /\ ~session[s].expired
    /\ lreq' = [lreq EXCEPT ![q] = [step |-> step, session |-> s, payload |-> session[s].payload]]
    /\ UNCHANGED <<session, given, outdated, crossed>>

\* An UPDATE by id; a session that was cleaned up is not found.
Writes(q, step, status, payload) ==
    LET s == lreq[q].session
        there == session[s].status # "deleted"
    IN  /\ lreq[q].step = step
        /\ session' = IF there THEN Put(s, status, payload, session[s].expired) ELSE session
        /\ Over(q)
        /\ outdated' = outdated \union {p \in LinkRequests \ {q} :
                           lreq[p].step \in {"deposit", "claim"} /\ lreq[p].session = s}
        /\ crossed' = IF q \in outdated THEN crossed \union {s} ELSE crossed

(***************************************************************************)
(* depositPayload, claimSession                                            *)
(***************************************************************************)
\* Mutation: a deposit into any session.
DepositSelectAny(q, s) ==
    \E t \in {"pending", "claimed", "completed"} : Reads(q, s, "deposit", t)

DepositSelect(q, s) == Reads(q, s, "deposit", "pending")

DepositCommit(q) ==
    /\ Writes(q, "deposit", "claimed", q)
    /\ UNCHANGED given

\* Mutation: a completed session can be claimed again.
ClaimSelectAgain(q, s) == \E t \in {"claimed", "completed"} : Reads(q, s, "claim", t)

\* Mutation: a session can be claimed before there is a payload.
ClaimSelectEarly(q, s) == \E t \in {"pending", "claimed"} : Reads(q, s, "claim", t)

ClaimSelect(q, s) == Reads(q, s, "claim", "claimed")

\* The payload returned is the one that was read.
ClaimCommit(q) ==
    /\ Writes(q, "claim", "completed", session[lreq[q].session].payload)
    /\ given' = [given EXCEPT ![q] = lreq[q].payload]

LinkFails(q) ==
    /\ lreq[q].step \in {"deposit", "claim"}
    /\ Over(q)
    /\ UNCHANGED <<session, given, outdated, crossed>>

(***************************************************************************)
(* Time                                                                    *)
(***************************************************************************)
\* Five minutes have passed.
SessionExpires(s) ==
    /\ session[s].status \notin {"none", "deleted"}
    /\ ~session[s].expired
    /\ session' = Put(s, session[s].status, session[s].payload, TRUE)
    /\ UNCHANGED <<lreq, given, outdated, crossed>>

Stale == {s \in Sessions : session[s].expired /\ session[s].status # "deleted"}

Removed(S) ==
    session' = [s \in Sessions |->
        IF s \in S THEN [status |-> "deleted", payload |-> session[s].payload, expired |-> TRUE]
        ELSE session[s]]

\* Mutation: completed sessions are kept.
CleanupUnused ==
    /\ \E s \in Stale : session[s].status # "completed"
    /\ Removed({s \in Stale : session[s].status # "completed"})
    /\ UNCHANGED <<lreq, given, outdated, crossed>>

\* cleanupExpiredSessions; a run that fails changes nothing, and the next one
\* comes an hour later.
Cleanup ==
    /\ Stale # {}
    /\ Removed(Stale)
    /\ UNCHANGED <<lreq, given, outdated, crossed>>

LinkNext ==
    \/ \E s \in Sessions : CreateSession(s) \/ SessionExpires(s)
    \/ \E q \in LinkRequests, s \in Sessions : DepositSelect(q, s) \/ ClaimSelect(q, s)
    \/ \E q \in LinkRequests : DepositCommit(q) \/ ClaimCommit(q) \/ LinkFails(q)
    \/ Cleanup

\* Time passes, and the hourly job succeeds now and then.
LinkFairness ==
    /\ \A s \in Sessions : WF_linkVars(SessionExpires(s))
    /\ WF_linkVars(Cleanup)

LinkSpec == LinkInit /\ [][LinkNext]_linkVars

(***************************************************************************)
(* Properties                                                              *)
(***************************************************************************)
TakenFrom(s) == {q \in LinkRequests : given[q] # Nothing /\ lreq[q].session = s}

\* One device gets the payload, and the one that was deposited.  Only requests
\* that overlap, each having read the session before another's write, hand it
\* out twice or exchange it.
OneHandover ==
    \A s \in Sessions \ crossed :
        /\ \A p, q \in TakenFrom(s) : p = q
        /\ \A q \in TakenFrom(s) : given[q] = session[s].payload

Rank == [none |-> 0, pending |-> 1, claimed |-> 2, completed |-> 3, deleted |-> 4]

\* A session goes from pending to claimed to completed and never back, but for
\* a deposit that overlaps another one and the claim that follows it: it opens
\* the completed session again.
NeverReopened ==
    [][\A s \in Sessions : Rank[session'[s].status] < Rank[session[s].status] =>
        \E q \in outdated : lreq[q].step = "deposit" /\ lreq[q].session = s]_linkVars

\* Every session is gone in the end, whatever was done with it.
SessionsEnd ==
    \A s \in Sessions : session[s].status # "none" ~> session[s].status = "deleted"
=============================================================================
