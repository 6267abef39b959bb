---------------------------- MODULE KeyRecovery ----------------------------
(***************************************************************************)
(* Escrow of one plan's data key with KMS, recovery of the key, and the    *)
(* audit trail of both.  A recovery is two transactions with a call to KMS *)
(* between them, and a third that logs a failure; each of the four can     *)
(* fail, a commit can succeed unseen, and the process can die in between.  *)
(*                                                                         *)
(* The plan's data key is a number that grows with every rotation; a       *)
(* rotation is one step here (module EncryptionKeys has its steps).        *)
(*                                                                         *)
(* Left out: the e-mails, which nobody waits for, and the deletion of the  *)
(* account, which takes all these rows along.                              *)
(***************************************************************************)
EXTENDS Naturals

CONSTANTS
    EscrowRequests, \* requests, each made once
    MaxDataKey      \* bound: data keys of the plan

ASSUME EscrowAssumption == MaxDataKey \in Nat \ {0}

VARIABLES
    dataKey,    \* the data key the plan's content is encrypted with
    escrow,     \* the data key in the escrow copy
    trail,      \* key_recovery_events: the events of each request
    ereq,       \* the requests
    \* Observation only
    opened,     \* recoveries for which KMS has decrypted the copy
    closed,     \* escrow was revoked, and not enabled since
    ahead,      \* recoveries that had read the copy when it was revoked
    late,       \* requests that a rotation has come after
    behind      \* the copy was last written by a late request, or a rotation came then

escrowVars == <<dataKey, escrow, trail, ereq, opened, closed, ahead, late, behind>>

NoKey == 0                  \* no escrow copy
Garbage == MaxDataKey + 1   \* a ciphertext KMS cannot decrypt
DataKeys == 1..MaxDataKey

Events == {"escrow_revoked", "initiated", "completed", "failed"}

(***************************************************************************)
(* sent       an enabling with the ciphertext of key, or of garbage        *)
(* owned      the plan is there                                            *)
(* tried      KMS has decrypted the ciphertext                             *)
(* asked      a recovery                                                   *)
(* fetched    "initiated" is logged, and the copy read                     *)
(* decrypted  the key is in memory                                         *)
(* logged     "completed" is logged                                        *)
(* failing    in the handler of an error                                   *)
(* released   the client has the key                                       *)
(* over       answered without a key, or dead                              *)
(***************************************************************************)
EscrowSteps == {"new", "sent", "owned", "tried", "asked", "fetched", "decrypted", "logged",
                "failing", "released", "over"}
EscrowRequest == [step : EscrowSteps, key : NoKey..Garbage]

EscrowTypeOK ==
    /\ dataKey \in DataKeys
    /\ escrow \in DataKeys \union {NoKey}
    /\ trail \in [EscrowRequests -> SUBSET Events]
    /\ ereq \in [EscrowRequests -> EscrowRequest]
    /\ opened \subseteq EscrowRequests /\ ahead \subseteq EscrowRequests
    /\ late \subseteq EscrowRequests
    /\ closed \in BOOLEAN /\ behind \in BOOLEAN

EscrowInit ==
    /\ dataKey = 1
    /\ escrow = NoKey
    /\ trail = [q \in EscrowRequests |-> {}]
    /\ ereq = [q \in EscrowRequests |-> [step |-> "new", key |-> NoKey]]
    /\ opened = {} /\ ahead = {} /\ late = {}
    /\ closed = FALSE /\ behind = FALSE

Takes(q, from, to, key) ==
    /\ ereq[q].step = from
    /\ ereq' = [ereq EXCEPT ![q] = [step |-> to, key |-> key]]

Becomes(q, from, to) == Takes(q, from, to, ereq[q].key)

Log(q, event) == trail' = [trail EXCEPT ![q] = @ \union {event}]

TablesStay == UNCHANGED <<dataKey, escrow, opened, closed, ahead, late, behind>>

(***************************************************************************)
(* enableEscrow, revokeEscrow                                              *)
(***************************************************************************)
\* A client encrypts the data key, or sends something else.
EnableSent(q) ==
    /\ \E k \in {dataKey, Garbage} : Takes(q, "new", "sent", k)
    /\ TablesStay /\ UNCHANGED trail

EnableCheck(q) == Becomes(q, "sent", "owned") /\ TablesStay /\ UNCHANGED trail

\* The trial decryption; its plaintext is discarded.
EnableTrial(q) ==
    /\ ereq[q].key # Garbage
    /\ Becomes(q, "owned", "tried")
    /\ TablesStay /\ UNCHANGED trail

\* Mutation: ON CONFLICT DO NOTHING.
EnableFirst(q) ==
    /\ Becomes(q, "tried", "over")
    /\ escrow' = IF escrow = NoKey THEN ereq[q].key ELSE escrow
    /\ closed' = FALSE
    /\ behind' = (q \in late)
    /\ UNCHANGED <<dataKey, trail, opened, ahead, late>>

\* INSERT ... ON CONFLICT DO UPDATE.
EnableCommit(q) ==
    /\ Becomes(q, "tried", "over")
    /\ escrow' = ereq[q].key
    /\ closed' = FALSE
    /\ behind' = (q \in late)
    /\ UNCHANGED <<dataKey, trail, opened, ahead, late>>

\* Mutation: the event without the deletion.
RevokeLogged(q) ==
    /\ escrow # NoKey
    /\ Becomes(q, "new", "over")
    /\ Log(q, "escrow_revoked")
    /\ closed' = TRUE
    /\ ahead' = {p \in EscrowRequests : ereq[p].step = "fetched"}
    /\ UNCHANGED <<dataKey, escrow, opened, late, behind>>

\* DELETE and the event, in one transaction; NotFound without a copy.
Revoke(q) ==
    /\ escrow # NoKey
    /\ Becomes(q, "new", "over")
    /\ escrow' = NoKey
    /\ Log(q, "escrow_revoked")
    /\ closed' = TRUE
    /\ ahead' = {p \in EscrowRequests : ereq[p].step = "fetched"}
    /\ UNCHANGED <<dataKey, opened, late, behind>>

(***************************************************************************)
(* initiateRecovery                                                        *)
(***************************************************************************)
RecoveryAsked(q) == Becomes(q, "new", "asked") /\ TablesStay /\ UNCHANGED trail

\* The first transaction.
Fetch(q) ==
    /\ escrow # NoKey
    /\ Takes(q, "asked", "fetched", escrow)
    /\ Log(q, "initiated")
    /\ TablesStay

\* It commits, but the connection is lost before the answer.
FetchLost(q) ==
    /\ escrow # NoKey
    /\ Becomes(q, "asked", "failing")
    /\ Log(q, "initiated")
    /\ TablesStay

\* NotFound: the transaction, with its event, is rolled back, and the handler
\* logs nothing.
Missing(q) ==
    /\ escrow = NoKey
    /\ Becomes(q, "asked", "over")
    /\ TablesStay /\ UNCHANGED trail

\* KmsService.decryptDek
Decrypt(q) ==
    /\ Becomes(q, "fetched", "decrypted")
    /\ opened' = opened \union {q}
    /\ UNCHANGED <<dataKey, escrow, trail, closed, ahead, late, behind>>

\* Mutation: the answer does not wait for the log.
CompleteUnlogged(q) == Becomes(q, "decrypted", "logged") /\ TablesStay /\ UNCHANGED trail

\* The second transaction, and the same with its answer lost.
Complete(q) ==
    /\ Becomes(q, "decrypted", "logged")
    /\ Log(q, "completed")
    /\ TablesStay

CompleteLost(q) ==
    /\ Becomes(q, "decrypted", "failing")
    /\ Log(q, "completed")
    /\ TablesStay

Release(q) == Becomes(q, "logged", "released") /\ TablesStay /\ UNCHANGED trail

\* A transaction or KMS fails.
Fails(q) ==
    /\ \E s \in {"asked", "fetched", "decrypted"} : Becomes(q, s, "failing")
    /\ TablesStay /\ UNCHANGED trail

\* The third transaction.
LogFailed(q) ==
    /\ Becomes(q, "failing", "over")
    /\ Log(q, "failed")
    /\ TablesStay

\* The third transaction fails too, an enabling is refused, the process dies.
Ends(q) ==
    /\ \E s \in EscrowSteps \ {"new", "released", "over"} : Becomes(q, s, "over")
    /\ TablesStay /\ UNCHANGED trail

\* rotateDeks leaves the escrow copy alone.
Rotate ==
    /\ dataKey < MaxDataKey
    /\ dataKey' = dataKey + 1
    /\ late' = late \union {q \in EscrowRequests : ereq[q].step # "new"}
    /\ behind' = TRUE
    /\ UNCHANGED <<escrow, trail, ereq, opened, closed, ahead>>

EscrowStep(q) ==
    \/ EnableSent(q) \/ EnableCheck(q) \/ EnableTrial(q) \/ EnableCommit(q)
    \/ Revoke(q)
    \/ RecoveryAsked(q) \/ Fetch(q) \/ FetchLost(q) \/ Missing(q) \/ Decrypt(q)
    \/ Complete(q) \/ CompleteLost(q) \/ Release(q)
    \/ Fails(q) \/ LogFailed(q) \/ Ends(q)

EscrowNext ==
    \/ \E q \in EscrowRequests : EscrowStep(q)
    \/ Rotate

EscrowSpec == EscrowInit /\ [][EscrowNext]_escrowVars

(***************************************************************************)
(* Safety                                                                  *)
(***************************************************************************)
\* Whatever fails: KMS decrypts only for a recovery that is in the trail, a
\* key leaves the server only when its completion is, and a recovery that is
\* logged as failed has given no key away.  (That one is completed does not
\* say that the client has the key, and a request that found no escrow is not
\* in the trail at all.)
TrailIsTrue ==
    \A q \in EscrowRequests :
        /\ q \in opened => "initiated" \in trail[q]
        /\ ereq[q].step = "released" => "completed" \in trail[q]
        /\ "failed" \in trail[q] => ereq[q].step # "released"

\* Once escrow is revoked no recovery has the key decrypted until escrow is
\* enabled again, but for those that had read the copy before.
RevokedStaysClosed ==
    [][\A q \in opened' \ opened : closed => q \in ahead]_escrowVars

\* The escrow copy is of the plan's data key, which KMS can decrypt, unless a
\* rotation came after the enabling that wrote it had begun.  An enabling that
\* begins after the rotation mends that, whatever copy it finds, and however
\* long its request takes; one that began before may still undo it.
EscrowKeepsUp ==
    escrow # NoKey => escrow = dataKey \/ behind
=============================================================================
