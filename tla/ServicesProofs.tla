--------------------------- MODULE ServicesProofs ---------------------------
(***************************************************************************)
(* Theorems about the two ways a key comes to a device that has lost it or *)
(* never had it: KeyRecovery, for any requests and number of data keys,    *)
(* and DeviceLinking, for any sessions and requests.  And about the        *)
(* services side by side, as MCServices has them: each is as it is alone.  *)
(***************************************************************************)
EXTENDS MCServices, CacheCoalescingProofs, RemindersProofs, TLAPS

(***************************************************************************)
(* What a request at each step has behind it.                              *)
(***************************************************************************)
\* The trail of a request and its step fit together.
TrailFits(r, t) ==
    /\ r.step \in {"fetched", "decrypted", "logged", "released"} => "initiated" \in t
    /\ r.step \in {"logged", "released"} => "completed" \in t
    /\ "failed" \in t => r.step = "over"

\* The key that an enabling carries.
KeyFits(r) ==
    /\ r.step \in {"sent", "owned"} => r.key # NoKey
    /\ r.step = "tried" => r.key \in DataKeys

TrailInv == \A q \in EscrowRequests :
    /\ TrailFits(ereq[q], trail[q])
    /\ KeyFits(ereq[q])
    /\ q \in opened => "initiated" \in trail[q]

\* Once escrow is revoked there is no copy, and who has one had it before.
ClosedInv == closed =>
    /\ escrow = NoKey
    /\ \A q \in EscrowRequests : ereq[q].step = "fetched" => q \in ahead

EscrowInv == EscrowTypeOK /\ TrailInv /\ ClosedInv

\* Data keys are neither garbage nor missing.
LEMMA Keys ==
    /\ DataKeys \subseteq NoKey..Garbage
    /\ NoKey \in NoKey..Garbage /\ Garbage \in NoKey..Garbage
    /\ NoKey \notin DataKeys /\ Garbage \notin DataKeys /\ NoKey # Garbage
    /\ NoKey..Garbage = DataKeys \union {NoKey, Garbage}
  BY EscrowAssumption DEF DataKeys, NoKey, Garbage

\* The request moves on, and the others stay where they are.
LEMMA Moved ==
    ASSUME EscrowTypeOK, NEW q \in EscrowRequests, NEW from, NEW to \in EscrowSteps,
           NEW k \in NoKey..Garbage, Takes(q, from, to, k)
    PROVE  /\ ereq' \in [EscrowRequests -> EscrowRequest]
           /\ ereq[q].step = from
           /\ ereq'[q].step = to /\ ereq'[q].key = k
           /\ \A p \in EscrowRequests : p # q => ereq'[p] = ereq[p]
  <1>1. [step |-> to, key |-> k] \in EscrowRequest
    BY DEF EscrowRequest
  <1> QED  BY <1>1 DEF EscrowTypeOK, Takes

\* The key a request has is one.
LEMMA HasKey ==
    ASSUME EscrowTypeOK, NEW q \in EscrowRequests
    PROVE  ereq[q].key \in NoKey..Garbage
  BY DEF EscrowTypeOK, EscrowRequest

\* An event is logged for the request, and for no other.
LEMMA TrailLogged ==
    ASSUME EscrowTypeOK, NEW q \in EscrowRequests, NEW event \in Events, Log(q, event)
    PROVE  /\ trail' \in [EscrowRequests -> SUBSET Events]
           /\ trail'[q] = trail[q] \union {event}
           /\ \A p \in EscrowRequests : p # q => trail'[p] = trail[p]
  BY DEF EscrowTypeOK, Log

\* A step of one request keeps TrailInv when it does for this request.
LEMMA TrailKept ==
    ASSUME TrailInv, NEW q \in EscrowRequests,
           \A p \in EscrowRequests : p # q => /\ ereq'[p] = ereq[p]
                                              /\ trail'[p] = trail[p]
                                              /\ (p \in opened' => p \in opened),
           TrailFits(ereq'[q], trail'[q]), KeyFits(ereq'[q]),
           q \in opened' => "initiated" \in trail'[q]
    PROVE  TrailInv'
  <1> SUFFICES ASSUME NEW p \in EscrowRequests
               PROVE  /\ TrailFits(ereq'[p], trail'[p])
                      /\ KeyFits(ereq'[p])
                      /\ p \in opened' => "initiated" \in trail'[p]
    BY DEF TrailInv, TrailFits, KeyFits
  <1>1. CASE p = q
    BY <1>1
  <1>2. CASE p # q
    BY <1>2 DEF TrailInv
  <1> QED  BY <1>1, <1>2

LEMMA EscrowInitInv == EscrowInit => EscrowInv
  <1> SUFFICES ASSUME EscrowInit PROVE EscrowInv
    OBVIOUS
  <1>1. 1 \in DataKeys
    BY EscrowAssumption DEF DataKeys
  <1>2. EscrowTypeOK
    BY <1>1, Keys DEF EscrowInit, EscrowTypeOK, EscrowRequest, EscrowSteps
  <1>3. TrailInv
    BY DEF EscrowInit, TrailInv, TrailFits, KeyFits
  <1>4. ClosedInv
    BY DEF EscrowInit, ClosedInv
  <1> QED  BY <1>2, <1>3, <1>4 DEF EscrowInv

(***************************************************************************)
(* The steps that touch neither the tables nor the trail.                  *)
(***************************************************************************)
LEMMA QuietStep ==
    ASSUME EscrowInv, NEW q \in EscrowRequests, NEW from, NEW to \in EscrowSteps,
           NEW k \in NoKey..Garbage, Takes(q, from, to, k), TablesStay, UNCHANGED trail,
           to # "fetched",
           KeyFits([step |-> to, key |-> k]),
           TrailFits([step |-> to, key |-> k], trail[q])
    PROVE  EscrowInv'
  <1>1. /\ ereq' \in [EscrowRequests -> EscrowRequest]
        /\ ereq'[q].step = to /\ ereq'[q].key = k
        /\ \A p \in EscrowRequests : p # q => ereq'[p] = ereq[p]
    BY Moved DEF EscrowInv
  <1>2. EscrowTypeOK'
    BY <1>1 DEF EscrowInv, EscrowTypeOK, TablesStay
  <1>3. TrailInv'
    <2>1. TrailFits(ereq'[q], trail'[q]) /\ KeyFits(ereq'[q])
      BY <1>1 DEF TrailFits, KeyFits
    <2>2. q \in opened' => "initiated" \in trail'[q]
      BY DEF EscrowInv, TrailInv, TablesStay
    <2> QED  BY <1>1, <2>1, <2>2, TrailKept DEF EscrowInv, TablesStay
  <1>4. ClosedInv'
    BY <1>1 DEF EscrowInv, ClosedInv, TablesStay
  <1> QED  BY <1>2, <1>3, <1>4 DEF EscrowInv

\* The steps that log an event and do nothing else.
LEMMA LoggingStep ==
    ASSUME EscrowInv, NEW q \in EscrowRequests, NEW from, NEW to \in EscrowSteps,
           NEW k \in NoKey..Garbage, NEW event \in Events,
           Takes(q, from, to, k), Log(q, event), TablesStay,
           to = "fetched" => escrow # NoKey,
           KeyFits([step |-> to, key |-> k]),
           TrailFits([step |-> to, key |-> k], trail[q] \union {event})
    PROVE  EscrowInv'
  <1>1. /\ ereq' \in [EscrowRequests -> EscrowRequest]
        /\ ereq'[q].step = to /\ ereq'[q].key = k
        /\ \A p \in EscrowRequests : p # q => ereq'[p] = ereq[p]
    BY Moved DEF EscrowInv
  <1>2. /\ trail' \in [EscrowRequests -> SUBSET Events]
        /\ trail'[q] = trail[q] \union {event}
        /\ \A p \in EscrowRequests : p # q => trail'[p] = trail[p]
    BY TrailLogged DEF EscrowInv
  <1>3. EscrowTypeOK'
    BY <1>1, <1>2 DEF EscrowInv, EscrowTypeOK, TablesStay
  <1>4. TrailInv'
    <2>1. TrailFits(ereq'[q], trail'[q]) /\ KeyFits(ereq'[q])
      BY <1>1, <1>2 DEF TrailFits, KeyFits
    <2>2. q \in opened' => "initiated" \in trail'[q]
      BY <1>2 DEF EscrowInv, TrailInv, TablesStay
    <2> QED  BY <1>1, <1>2, <2>1, <2>2, TrailKept DEF EscrowInv, TablesStay
  <1>5. ClosedInv'
    BY <1>1 DEF EscrowInv, ClosedInv, TablesStay
  <1> QED  BY <1>3, <1>4, <1>5 DEF EscrowInv

LEMMA EscrowStepInv ==
    ASSUME EscrowInv, NEW q \in EscrowRequests, EscrowStep(q)
    PROVE  EscrowInv'
  <1> DEFINE key == ereq[q].key
  <1>1. /\ key \in NoKey..Garbage
        /\ TrailFits(ereq[q], trail[q]) /\ KeyFits(ereq[q])
        /\ q \in opened => "initiated" \in trail[q]
    BY HasKey DEF EscrowInv, TrailInv
  <1>2. EscrowSteps = {"new", "sent", "owned", "tried", "asked", "fetched", "decrypted",
                       "logged", "failing", "released", "over"}
    BY DEF EscrowSteps
  <1>3. dataKey \in NoKey..Garbage /\ dataKey # NoKey /\ escrow \in NoKey..Garbage
    BY Keys DEF EscrowInv, EscrowTypeOK
  <1> HIDE DEF key
  <1> USE <1>1, <1>2
  <1>4. CASE EnableSent(q)
    <2>1. PICK k \in {dataKey, Garbage} : Takes(q, "new", "sent", k)
      BY <1>4 DEF EnableSent
    <2>2. k \in NoKey..Garbage /\ k # NoKey
      BY <1>3, Keys
    <2>3. KeyFits([step |-> "sent", key |-> k]) /\ TrailFits([step |-> "sent", key |-> k], trail[q])
      BY <2>1, <2>2 DEF KeyFits, TrailFits, Takes
    <2> QED  BY <1>4, <2>1, <2>2, <2>3, QuietStep DEF EnableSent
  <1>5. CASE EnableCheck(q)
    <2>1. Takes(q, "sent", "owned", key)
      BY <1>5 DEF EnableCheck, Becomes, key
    <2>2. KeyFits([step |-> "owned", key |-> key]) /\ TrailFits([step |-> "owned", key |-> key], trail[q])
      BY <2>1 DEF KeyFits, TrailFits, Takes, key
    <2> QED  BY <1>5, <2>1, <2>2, QuietStep DEF EnableCheck
  <1>6. CASE RecoveryAsked(q)
    <2>1. Takes(q, "new", "asked", key)
      BY <1>6 DEF RecoveryAsked, Becomes, key
    <2>2. KeyFits([step |-> "asked", key |-> key]) /\ TrailFits([step |-> "asked", key |-> key], trail[q])
      BY <2>1 DEF KeyFits, TrailFits, Takes, key
    <2> QED  BY <1>6, <2>1, <2>2, QuietStep DEF RecoveryAsked
  <1>7. CASE Missing(q)
    <2>1. Takes(q, "asked", "over", key)
      BY <1>7 DEF Missing, Becomes, key
    <2>2. KeyFits([step |-> "over", key |-> key]) /\ TrailFits([step |-> "over", key |-> key], trail[q])
      BY <2>1 DEF KeyFits, TrailFits, Takes, key
    <2> QED  BY <1>7, <2>1, <2>2, QuietStep DEF Missing
  <1>8. CASE Release(q)
    <2>1. Takes(q, "logged", "released", key)
      BY <1>8 DEF Release, Becomes, key
    <2>2. KeyFits([step |-> "released", key |-> key]) /\ TrailFits([step |-> "released", key |-> key], trail[q])
      BY <2>1 DEF KeyFits, TrailFits, Takes, key
    <2> QED  BY <1>8, <2>1, <2>2, QuietStep DEF Release
  <1>9. CASE EnableTrial(q)
    <2>1. Takes(q, "owned", "tried", key) /\ key # Garbage
      BY <1>9 DEF EnableTrial, Becomes, key
    <2>2. key \in DataKeys
      BY <2>1, Keys DEF KeyFits, Takes, key
    <2>3. KeyFits([step |-> "tried", key |-> key]) /\ TrailFits([step |-> "tried", key |-> key], trail[q])
      BY <2>1, <2>2 DEF KeyFits, TrailFits, Takes, key
    <2> QED  BY <1>9, <2>1, <2>3, QuietStep DEF EnableTrial
  <1>10. CASE Fails(q)
    <2>1. PICK s \in {"asked", "fetched", "decrypted"} : Takes(q, s, "failing", key)
      BY <1>10 DEF Fails, Becomes, key
    <2>2. KeyFits([step |-> "failing", key |-> key]) /\ TrailFits([step |-> "failing", key |-> key], trail[q])
      BY <2>1 DEF KeyFits, TrailFits, Takes, key
    <2> QED  BY <1>10, <2>1, <2>2, QuietStep DEF Fails
  <1>11. CASE Ends(q)
    <2>1. PICK s \in EscrowSteps \ {"new", "released", "over"} : Takes(q, s, "over", key)
      BY <1>11 DEF Ends, Becomes, key
    <2>2. KeyFits([step |-> "over", key |-> key]) /\ TrailFits([step |-> "over", key |-> key], trail[q])
      BY <2>1 DEF KeyFits, TrailFits, Takes, key
    <2> QED  BY <1>11, <2>1, <2>2, QuietStep DEF Ends
  <1>12. CASE FetchLost(q)
    <2>1. Takes(q, "asked", "failing", key) /\ "initiated" \in Events
      BY <1>12 DEF FetchLost, Becomes, Events, key
    <2>2. /\ KeyFits([step |-> "failing", key |-> key])
          /\ TrailFits([step |-> "failing", key |-> key], trail[q] \union {"initiated"})
      BY <2>1 DEF KeyFits, TrailFits, Takes, key
    <2> QED  BY <1>12, <2>1, <2>2, LoggingStep DEF FetchLost
  <1>13. CASE Complete(q)
    <2>1. Takes(q, "decrypted", "logged", key) /\ "completed" \in Events
      BY <1>13 DEF Complete, Becomes, Events, key
    <2>2. /\ KeyFits([step |-> "logged", key |-> key])
          /\ TrailFits([step |-> "logged", key |-> key], trail[q] \union {"completed"})
      BY <2>1 DEF KeyFits, TrailFits, Takes, key
    <2> QED  BY <1>13, <2>1, <2>2, LoggingStep DEF Complete
  <1>14. CASE CompleteLost(q)
    <2>1. Takes(q, "decrypted", "failing", key) /\ "completed" \in Events
      BY <1>14 DEF CompleteLost, Becomes, Events, key
    <2>2. /\ KeyFits([step |-> "failing", key |-> key])
          /\ TrailFits([step |-> "failing", key |-> key], trail[q] \union {"completed"})
      BY <2>1 DEF KeyFits, TrailFits, Takes, key
    <2> QED  BY <1>14, <2>1, <2>2, LoggingStep DEF CompleteLost
  <1>15. CASE LogFailed(q)
    <2>1. Takes(q, "failing", "over", key) /\ "failed" \in Events
      BY <1>15 DEF LogFailed, Becomes, Events, key
    <2>2. /\ KeyFits([step |-> "over", key |-> key])
          /\ TrailFits([step |-> "over", key |-> key], trail[q] \union {"failed"})
      BY <2>1 DEF KeyFits, TrailFits, Takes, key
    <2> QED  BY <1>15, <2>1, <2>2, LoggingStep DEF LogFailed
  <1>16. CASE Fetch(q)
    <2>1. Takes(q, "asked", "fetched", escrow) /\ "initiated" \in Events
      BY <1>16 DEF Fetch, Events
    <2>2. /\ KeyFits([step |-> "fetched", key |-> escrow])
          /\ TrailFits([step |-> "fetched", key |-> escrow], trail[q] \union {"initiated"})
      BY <2>1 DEF KeyFits, TrailFits, Takes
    <2> QED  BY <1>16, <1>3, <2>1, <2>2, LoggingStep DEF Fetch
  <1>17. CASE EnableCommit(q)
    <2>1. Takes(q, "tried", "over", key)
      BY <1>17 DEF EnableCommit, Becomes, key
    <2>2. key \in DataKeys
      BY <2>1 DEF KeyFits, Takes, key
    <2>3. /\ ereq' \in [EscrowRequests -> EscrowRequest]
          /\ ereq'[q].step = "over"
          /\ \A p \in EscrowRequests : p # q => ereq'[p] = ereq[p]
      BY <2>1, Moved DEF EscrowInv
    <2>4. escrow' = key /\ closed' = FALSE /\ behind' \in BOOLEAN
      BY <1>17 DEF EnableCommit, key
    <2>5. EscrowTypeOK'
      BY <1>17, <2>2, <2>3, <2>4 DEF EscrowInv, EscrowTypeOK, EnableCommit
    <2>6. TrailInv'
      <3>1. TrailFits(ereq'[q], trail'[q]) /\ KeyFits(ereq'[q])
        BY <1>17, <2>1, <2>3 DEF TrailFits, KeyFits, EnableCommit
      <3>2. q \in opened' => "initiated" \in trail'[q]
        BY <1>17 DEF EnableCommit
      <3> QED  BY <1>17, <2>3, <3>1, <3>2, TrailKept DEF EscrowInv, EnableCommit
    <2>7. ClosedInv'
      BY <2>4 DEF ClosedInv
    <2> QED  BY <2>5, <2>6, <2>7 DEF EscrowInv
  <1>18. CASE Revoke(q)
    <2>1. Takes(q, "new", "over", key) /\ "escrow_revoked" \in Events
      BY <1>18 DEF Revoke, Becomes, Events, key
    <2>2. /\ ereq' \in [EscrowRequests -> EscrowRequest]
          /\ ereq'[q].step = "over"
          /\ \A p \in EscrowRequests : p # q => ereq'[p] = ereq[p]
      BY <2>1, Moved DEF EscrowInv
    <2>3. /\ trail' \in [EscrowRequests -> SUBSET Events]
          /\ trail'[q] = trail[q] \union {"escrow_revoked"}
          /\ \A p \in EscrowRequests : p # q => trail'[p] = trail[p]
      BY <1>18, <2>1, TrailLogged DEF EscrowInv, Revoke
    <2>4. EscrowTypeOK'
      BY <1>18, <2>2, <2>3 DEF EscrowInv, EscrowTypeOK, Revoke
    <2>5. TrailInv'
      <3>1. TrailFits(ereq'[q], trail'[q]) /\ KeyFits(ereq'[q])
        BY <2>1, <2>2, <2>3 DEF TrailFits, KeyFits
      <3>2. q \in opened' => "initiated" \in trail'[q]
        BY <1>18, <2>3 DEF Revoke
      <3> QED  BY <1>18, <2>2, <2>3, <3>1, <3>2, TrailKept DEF EscrowInv, Revoke
    <2>6. ClosedInv'
      BY <1>18, <2>2 DEF ClosedInv, Revoke
    <2> QED  BY <2>4, <2>5, <2>6 DEF EscrowInv
  <1>19. CASE Decrypt(q)
    <2>1. Takes(q, "fetched", "decrypted", key)
      BY <1>19 DEF Decrypt, Becomes, key
    <2>2. /\ ereq' \in [EscrowRequests -> EscrowRequest]
          /\ ereq'[q].step = "decrypted" /\ ereq'[q].key = key
          /\ \A p \in EscrowRequests : p # q => ereq'[p] = ereq[p]
      BY <2>1, Moved DEF EscrowInv
    <2>3. EscrowTypeOK'
      BY <1>19, <2>2 DEF EscrowInv, EscrowTypeOK, Decrypt
    <2>4. TrailInv'
      <3>1. "initiated" \in trail[q]
        BY <2>1 DEF TrailFits, Takes
      <3>2. TrailFits(ereq'[q], trail'[q]) /\ KeyFits(ereq'[q])
        BY <1>19, <2>1, <2>2, <3>1 DEF TrailFits, KeyFits, Decrypt, Takes
      <3>3. q \in opened' => "initiated" \in trail'[q]
        BY <1>19, <3>1 DEF Decrypt
      <3> QED  BY <1>19, <2>2, <3>2, <3>3, TrailKept DEF EscrowInv, Decrypt
    <2>5. ClosedInv'
      BY <1>19, <2>2 DEF EscrowInv, ClosedInv, Decrypt
    <2> QED  BY <2>3, <2>4, <2>5 DEF EscrowInv
  <1> QED  BY <1>4, <1>5, <1>6, <1>7, <1>8, <1>9, <1>10, <1>11, <1>12, <1>13, <1>14, <1>15, <1>16, <1>17, <1>18, <1>19 DEF EscrowStep

LEMMA RotateInv == EscrowInv /\ Rotate => EscrowInv'
  <1> SUFFICES ASSUME EscrowInv, Rotate PROVE EscrowInv'
    OBVIOUS
  <1>1. dataKey + 1 \in DataKeys
    BY EscrowAssumption DEF EscrowInv, EscrowTypeOK, Rotate, DataKeys
  <1>2. EscrowTypeOK'
    BY <1>1 DEF EscrowInv, EscrowTypeOK, Rotate
  <1>3. TrailInv' /\ ClosedInv'
    BY DEF EscrowInv, TrailInv, TrailFits, KeyFits, ClosedInv, Rotate
  <1> QED  BY <1>2, <1>3 DEF EscrowInv

LEMMA EscrowStutterInv == EscrowInv /\ UNCHANGED escrowVars => EscrowInv'
  BY DEF EscrowInv, EscrowTypeOK, TrailInv, TrailFits, KeyFits, ClosedInv, escrowVars

LEMMA EscrowNextInv == EscrowInv /\ [EscrowNext]_escrowVars => EscrowInv'
  BY EscrowStepInv, RotateInv, EscrowStutterInv DEF EscrowNext

\* EscrowInv holds for ever, in every interleaving of requests, rotations and deaths.
THEOREM EscrowInvariance == EscrowSpec => []EscrowInv
  BY EscrowInitInv, EscrowNextInv, PTL DEF EscrowSpec

\* The type invariant: an escrow copy there is, is one that KMS can decrypt.
THEOREM EscrowTypes == EscrowSpec => []EscrowTypeOK
  <1>1. EscrowInv => EscrowTypeOK
    BY DEF EscrowInv
  <1> QED  BY <1>1, EscrowInvariance, PTL

(***************************************************************************)
(* The trail                                                               *)
(***************************************************************************)
\* Every decryption by KMS, every released key and every logged failure are as
\* the trail says, wherever a recovery is cut off.
THEOREM TrailTruth == EscrowSpec => []TrailIsTrue
  <1>1. EscrowInv => TrailIsTrue
    BY DEF EscrowInv, TrailInv, TrailFits, TrailIsTrue
  <1> QED  BY <1>1, EscrowInvariance, PTL

(***************************************************************************)
(* The escrow copy's freshness.  An enabling on its way carries the data   *)
(* key of now, or a rotation has come after it.                            *)
(***************************************************************************)
EnablingInv == \A q \in EscrowRequests :
    ereq[q].step \in {"sent", "owned", "tried"} => ereq[q].key \in {dataKey, Garbage} \/ q \in late

FreshInv == EnablingInv /\ EscrowKeepsUp

\* One request moves: what it carries is what it carried, or the key of now.
LEMMA FreshMove ==
    ASSUME EscrowTypeOK, FreshInv, NEW q \in EscrowRequests, NEW from, NEW to \in EscrowSteps,
           NEW k \in NoKey..Garbage, Takes(q, from, to, k), UNCHANGED <<dataKey, late>>,
           \/ to \notin {"sent", "owned", "tried"}
           \/ k \in {dataKey, Garbage}
           \/ from \in {"sent", "owned"} /\ k = ereq[q].key
    PROVE  EnablingInv'
  <1>1. /\ ereq[q].step = from
        /\ ereq'[q].step = to /\ ereq'[q].key = k
        /\ \A p \in EscrowRequests : p # q => ereq'[p] = ereq[p]
    BY Moved
  <1> SUFFICES ASSUME NEW p \in EscrowRequests, ereq'[p].step \in {"sent", "owned", "tried"}
               PROVE  ereq'[p].key \in {dataKey, Garbage} \/ p \in late
    BY DEF EnablingInv
  <1>2. CASE p = q
    BY <1>1, <1>2 DEF FreshInv, EnablingInv
  <1>3. CASE p # q
    BY <1>1, <1>3 DEF FreshInv, EnablingInv
  <1> QED  BY <1>2, <1>3

LEMMA FreshStep ==
    ASSUME EscrowInv, FreshInv, NEW q \in EscrowRequests, EscrowStep(q)
    PROVE  FreshInv'
  <1> DEFINE key == ereq[q].key
  <1>1. /\ EscrowTypeOK /\ key \in NoKey..Garbage
        /\ dataKey \in NoKey..Garbage /\ escrow \in NoKey..Garbage
    BY HasKey, Keys DEF EscrowInv, EscrowTypeOK
  <1>2. EscrowSteps = {"new", "sent", "owned", "tried", "asked", "fetched", "decrypted",
                       "logged", "failing", "released", "over"}
    BY DEF EscrowSteps
  <1>3. CASE EnableSent(q)
    <2>1. PICK k \in {dataKey, Garbage} : Takes(q, "new", "sent", k)
      BY <1>3 DEF EnableSent
    <2>2. k \in NoKey..Garbage
      BY <1>1, Keys
    <2>3. EnablingInv'
      BY <1>1, <1>2, <1>3, <2>1, <2>2, FreshMove DEF EnableSent, TablesStay
    <2> QED  BY <1>3, <2>3 DEF FreshInv, EscrowKeepsUp, EnableSent, TablesStay
  <1>4. CASE EnableCheck(q)
    <2>1. EnablingInv'
      BY <1>1, <1>2, <1>4, FreshMove DEF EnableCheck, Becomes, TablesStay
    <2> QED  BY <1>4, <2>1 DEF FreshInv, EscrowKeepsUp, EnableCheck, TablesStay
  <1>5. CASE EnableTrial(q)
    <2>1. EnablingInv'
      BY <1>1, <1>2, <1>5, FreshMove DEF EnableTrial, Becomes, TablesStay
    <2> QED  BY <1>5, <2>1 DEF FreshInv, EscrowKeepsUp, EnableTrial, TablesStay
  <1>6. CASE EnableCommit(q)
    <2>1. Takes(q, "tried", "over", key)
      BY <1>6 DEF EnableCommit, Becomes
    <2>2. EnablingInv'
      BY <1>1, <1>2, <1>6, <2>1, FreshMove DEF EnableCommit
    <2>3. key \in DataKeys /\ (key \in {dataKey, Garbage} \/ q \in late)
      BY <2>1 DEF EscrowInv, TrailInv, KeyFits, FreshInv, EnablingInv, Takes
    <2>4. EscrowKeepsUp'
      BY <1>6, <2>3, Keys DEF EscrowKeepsUp, EnableCommit
    <2> QED  BY <2>2, <2>4 DEF FreshInv
  <1>7. CASE Revoke(q)
    <2>1. EnablingInv'
      BY <1>1, <1>2, <1>7, FreshMove DEF Revoke, Becomes
    <2> QED  BY <1>7, <2>1 DEF FreshInv, EscrowKeepsUp, Revoke
  <1>8. CASE Fetch(q)
    <2>1. EnablingInv'
      BY <1>1, <1>2, <1>8, FreshMove DEF Fetch, TablesStay
    <2> QED  BY <1>8, <2>1 DEF FreshInv, EscrowKeepsUp, Fetch, TablesStay
  <1>9. CASE Decrypt(q)
    <2>1. EnablingInv'
      BY <1>1, <1>2, <1>9, FreshMove DEF Decrypt, Becomes
    <2> QED  BY <1>9, <2>1 DEF FreshInv, EscrowKeepsUp, Decrypt
  <1>10. CASE \/ RecoveryAsked(q) \/ FetchLost(q) \/ Missing(q) \/ Complete(q) \/ CompleteLost(q)
              \/ Release(q) \/ Fails(q) \/ LogFailed(q) \/ Ends(q)
    <2>1. TablesStay
      BY <1>10 DEF RecoveryAsked, FetchLost, Missing, Complete, CompleteLost, Release, Fails,
                   LogFailed, Ends
    <2>2. PICK from \in EscrowSteps, to \in {"asked", "failing", "over", "logged", "released"} :
             Takes(q, from, to, key)
      <3>1. CASE Fails(q)
        <4>1. PICK s \in {"asked", "fetched", "decrypted"} : Takes(q, s, "failing", key)
          BY <3>1 DEF Fails, Becomes
        <4> QED  BY <1>2, <4>1
      <3>2. CASE Ends(q)
        <4>1. PICK s \in EscrowSteps \ {"new", "released", "over"} : Takes(q, s, "over", key)
          BY <3>2 DEF Ends, Becomes
        <4> QED  BY <4>1
      <3>3. CASE ~Fails(q) /\ ~Ends(q)
        <4>1. \/ Takes(q, "new", "asked", key) \/ Takes(q, "asked", "failing", key)
              \/ Takes(q, "asked", "over", key) \/ Takes(q, "decrypted", "logged", key)
              \/ Takes(q, "decrypted", "failing", key) \/ Takes(q, "logged", "released", key)
              \/ Takes(q, "failing", "over", key)
          BY <1>10, <3>3 DEF RecoveryAsked, FetchLost, Missing, Complete, CompleteLost, Release,
                             LogFailed, Becomes
        <4> QED  BY <1>2, <4>1
      <3> QED  BY <3>1, <3>2, <3>3
    <2>3. EnablingInv'
      BY <1>1, <1>2, <2>1, <2>2, FreshMove DEF TablesStay
    <2> QED  BY <2>1, <2>3 DEF FreshInv, EscrowKeepsUp, TablesStay
  <1> QED  BY <1>3, <1>4, <1>5, <1>6, <1>7, <1>8, <1>9, <1>10 DEF EscrowStep

LEMMA FreshRotate == EscrowTypeOK /\ FreshInv /\ Rotate => FreshInv'
  <1> SUFFICES ASSUME EscrowTypeOK, FreshInv, Rotate PROVE FreshInv'
    OBVIOUS
  <1>1. EnablingInv'
    BY DEF EnablingInv, Rotate
  <1>2. EscrowKeepsUp'
    BY DEF EscrowKeepsUp, Rotate
  <1> QED  BY <1>1, <1>2 DEF FreshInv

LEMMA FreshNext == EscrowInv /\ FreshInv /\ [EscrowNext]_escrowVars => FreshInv'
  <1>1. EscrowInv /\ FreshInv /\ UNCHANGED escrowVars => FreshInv'
    BY DEF FreshInv, EnablingInv, EscrowKeepsUp, escrowVars
  <1> QED  BY <1>1, FreshStep, FreshRotate DEF EscrowNext, EscrowInv

\* Only a rotation after its enabling began leaves the escrow copy behind the
\* plan's data key, in every interleaving of enablings, revocations and rotations.
THEOREM EscrowFreshness == EscrowSpec => []EscrowKeepsUp
  <1>1. EscrowInit => FreshInv
    BY DEF EscrowInit, FreshInv, EnablingInv, EscrowKeepsUp
  <1>2. FreshInv => EscrowKeepsUp
    BY DEF FreshInv
  <1> QED  BY <1>1, <1>2, EscrowInvariance, FreshNext, PTL DEF EscrowSpec

(***************************************************************************)
(* Revocation                                                              *)
(***************************************************************************)
\* A step that adds to opened is a decryption by the request it adds.
LEMMA OpensByDecrypt ==
    ASSUME EscrowNext, NEW p \in opened', p \notin opened
    PROVE  ereq[p].step = "fetched"
  <1>1. ASSUME NEW q \in EscrowRequests, EscrowStep(q) PROVE Decrypt(q)
    BY <1>1 DEF EscrowStep, EnableSent, EnableCheck, EnableTrial, EnableCommit, Revoke,
       RecoveryAsked, Fetch, FetchLost, Missing, Complete, CompleteLost, Release, Fails,
       LogFailed, Ends, TablesStay
  <1>2. ~Rotate
    BY DEF Rotate
  <1>3. PICK q \in EscrowRequests : Decrypt(q)
    BY <1>1, <1>2 DEF EscrowNext
  <1> QED  BY <1>3 DEF Decrypt, Becomes, Takes

\* What was revoked stays closed: KMS decrypts only for who had the copy.
THEOREM Revocation == EscrowSpec => RevokedStaysClosed
  <1>1. EscrowInv /\ [EscrowNext]_escrowVars =>
            [\A q \in opened' \ opened : closed => q \in ahead]_escrowVars
    <2> SUFFICES ASSUME EscrowInv, EscrowNext, NEW q \in opened', q \notin opened, closed
                 PROVE  q \in ahead
      OBVIOUS
    <2>1. ereq[q].step = "fetched"
      BY OpensByDecrypt
    <2>2. q \in EscrowRequests
      BY EscrowNextInv DEF EscrowInv, EscrowTypeOK
    <2> QED  BY <2>1, <2>2 DEF EscrowInv, ClosedInv
  <1> QED  BY <1>1, EscrowInvariance, PTL DEF EscrowSpec, RevokedStaysClosed

-----------------------------------------------------------------------------
Open(q) == lreq[q].step \in {"deposit", "claim"}
Took(q, s) == given[q] # Nothing /\ lreq[q].session = s

\* A request in progress has a session that was created; what a claim will
\* return is a payload, and its session has one.
RequestsFit == \A q \in LinkRequests :
    /\ Open(q) => lreq[q].session \in Sessions /\ session[lreq[q].session].status # "none"
    /\ lreq[q].step = "claim" =>
          lreq[q].payload # Nothing /\ session[lreq[q].session].payload # Nothing
    /\ given[q] # Nothing => lreq[q].step = "over" /\ lreq[q].session \in Sessions

\* A request that is not outdated knows its session as it is.
UpToDate == \A q \in LinkRequests : \A s \in Sessions :
    (Open(q) /\ q \notin outdated /\ lreq[q].session = s) =>
        /\ lreq[q].step = "deposit" => session[s].status \in {"pending", "deleted"}
        /\ lreq[q].step = "claim" => /\ session[s].status \in {"claimed", "deleted"}
                                     /\ lreq[q].payload = session[s].payload
        /\ s \notin crossed => \A p \in LinkRequests : ~Took(p, s)

\* While a session can be claimed nobody has its payload, then one has.
Handed == \A s \in Sessions \ crossed : \A p \in LinkRequests :
    Took(p, s) => /\ session[s].status \in {"completed", "deleted"}
                  /\ given[p] = session[s].payload
                  /\ \A q \in LinkRequests : Took(q, s) => p = q

LinkInv == LinkTypeOK /\ RequestsFit /\ UpToDate /\ Handed

LEMMA LinkInitInv == LinkInit => LinkInv
  <1> SUFFICES ASSUME LinkInit PROVE LinkInv
    OBVIOUS
  <1>1. LinkTypeOK
    BY DEF LinkInit, LinkTypeOK, Session, Statuses, LinkRequest
  <1>2. RequestsFit /\ UpToDate /\ Handed
    BY DEF LinkInit, RequestsFit, UpToDate, Handed, Open, Took
  <1> QED  BY <1>1, <1>2 DEF LinkInv

LEMMA LinkStutterInv == LinkInv /\ UNCHANGED linkVars => LinkInv'
  BY DEF LinkInv, LinkTypeOK, RequestsFit, UpToDate, Handed, Open, Took, linkVars

(***************************************************************************)
(* Steps of the sessions                                                   *)
(***************************************************************************)
\* The session's row is written.
LEMMA RowPut ==
    ASSUME LinkInv, NEW s \in Sessions, NEW t \in Statuses, NEW x \in BOOLEAN,
           NEW p \in LinkRequests \union {Nothing}, session' = Put(s, t, p, x)
    PROVE  /\ session' \in [Sessions -> Session]
           /\ session'[s].status = t /\ session'[s].payload = p
           /\ \A r \in Sessions : r # s => session'[r] = session[r]
  <1>1. [status |-> t, payload |-> p, expired |-> x] \in Session
    BY DEF Session
  <1> QED  BY <1>1 DEF LinkInv, LinkTypeOK, Put

LEMMA CreateInv == ASSUME LinkInv, NEW s \in Sessions, CreateSession(s) PROVE LinkInv'
  <1>1. /\ session' \in [Sessions -> Session]
        /\ session'[s].status = "pending"
        /\ \A r \in Sessions : r # s => session'[r] = session[r]
    BY RowPut DEF CreateSession, Statuses
  <1>2. session[s].status = "none"
    BY DEF CreateSession
  <1>3. LinkTypeOK'
    BY <1>1 DEF LinkInv, LinkTypeOK, CreateSession
  <1>4. \A q \in LinkRequests : Open(q) => lreq[q].session # s
    BY <1>2 DEF LinkInv, RequestsFit
  <1>5. /\ lreq' = lreq /\ given' = given /\ outdated' = outdated /\ crossed' = crossed
        /\ \A q \in LinkRequests : \A r \in Sessions : Took(q, r)' <=> Took(q, r)
    BY DEF CreateSession, Took
  <1>6. RequestsFit'
    BY <1>1, <1>4, <1>5 DEF LinkInv, RequestsFit, Open
  <1>7. UpToDate'
    BY <1>1, <1>4, <1>5 DEF LinkInv, UpToDate, Open
  <1>8. Handed'
    <2>1. s \notin crossed => \A q \in LinkRequests : ~Took(q, s)
      BY <1>2 DEF LinkInv, Handed
    <2> QED  BY <1>1, <1>5, <2>1 DEF LinkInv, Handed
  <1> QED  BY <1>3, <1>6, <1>7, <1>8 DEF LinkInv

LEMMA ExpireInv == ASSUME LinkInv, NEW s \in Sessions, SessionExpires(s) PROVE LinkInv'
  <1>1. session[s] \in Session
    BY DEF LinkInv, LinkTypeOK
  <1>2. /\ session' \in [Sessions -> Session]
        /\ \A r \in Sessions : /\ session'[r].status = session[r].status
                               /\ session'[r].payload = session[r].payload
    <2>1. /\ session[s].status \in Statuses
          /\ session[s].payload \in LinkRequests \union {Nothing}
          /\ session' = Put(s, session[s].status, session[s].payload, TRUE)
      BY <1>1 DEF SessionExpires, Session
    <2>2. /\ session' \in [Sessions -> Session]
          /\ session'[s].status = session[s].status /\ session'[s].payload = session[s].payload
          /\ \A r \in Sessions : r # s => session'[r] = session[r]
      BY <2>1, RowPut, Zenon
    <2> QED  BY <2>2
  <1>3. LinkTypeOK'
    BY <1>2 DEF LinkInv, LinkTypeOK, SessionExpires
  <1>4. /\ lreq' = lreq /\ given' = given /\ outdated' = outdated /\ crossed' = crossed
        /\ \A q \in LinkRequests : \A r \in Sessions : Took(q, r)' <=> Took(q, r)
    BY DEF SessionExpires, Took
  <1>5. RequestsFit'
    BY <1>2, <1>4 DEF LinkInv, RequestsFit, Open
  <1>6. UpToDate'
    BY <1>2, <1>4 DEF LinkInv, UpToDate, Open
  <1>7. Handed'
    BY <1>2, <1>4 DEF LinkInv, Handed
  <1> QED  BY <1>3, <1>5, <1>6, <1>7 DEF LinkInv

LEMMA CleanupInv == LinkInv /\ Cleanup => LinkInv'
  <1> SUFFICES ASSUME LinkInv, Cleanup PROVE LinkInv'
    OBVIOUS
  <1>1. \A r \in Sessions : session[r] \in Session
    BY DEF LinkInv, LinkTypeOK
  <1>2. /\ session' \in [Sessions -> Session]
        /\ \A r \in Sessions : /\ session'[r].status \in {session[r].status, "deleted"}
                               /\ session'[r].payload = session[r].payload
    BY <1>1 DEF Cleanup, Removed, Session, Statuses
  <1>3. LinkTypeOK'
    BY <1>2 DEF LinkInv, LinkTypeOK, Cleanup
  <1>4. RequestsFit'
    BY <1>2 DEF LinkInv, RequestsFit, Open, Cleanup
  <1>5. UpToDate'
    BY <1>2 DEF LinkInv, UpToDate, Open, Took, Cleanup
  <1>6. Handed'
    BY <1>2 DEF LinkInv, Handed, Took, Cleanup
  <1> QED  BY <1>3, <1>4, <1>5, <1>6 DEF LinkInv

(***************************************************************************)
(* Steps of the requests                                                   *)
(***************************************************************************)
\* A request reads a session that can be deposited into, or claimed.
LEMMA ReadInv ==
    ASSUME LinkInv, NEW q \in LinkRequests, NEW s \in Sessions,
           NEW step, NEW status, Reads(q, s, step, status),
           <<step, status>> \in {<<"deposit", "pending">>, <<"claim", "claimed">>}
    PROVE  LinkInv'
  <1>1. /\ session[s] \in Session /\ session[s].status = status
        /\ lreq[q].step = "new"
        /\ status = "claimed" => session[s].payload # Nothing
    BY DEF LinkInv, LinkTypeOK, Reads
  <1>2. [step |-> step, session |-> s, payload |-> session[s].payload] \in LinkRequest
    BY <1>1 DEF LinkRequest, Session
  <1>3. /\ lreq' \in [LinkRequests -> LinkRequest]
        /\ lreq'[q] = [step |-> step, session |-> s, payload |-> session[s].payload]
        /\ \A p \in LinkRequests : p # q => lreq'[p] = lreq[p]
    BY <1>2 DEF LinkInv, LinkTypeOK, Reads
  <1>4. LinkTypeOK'
    BY <1>3 DEF LinkInv, LinkTypeOK, Reads
  <1>5. given[q] = Nothing
    BY <1>1 DEF LinkInv, RequestsFit
  <1>6. RequestsFit'
    BY <1>1, <1>3, <1>5 DEF LinkInv, RequestsFit, Open, Reads
  <1>7. \A p \in LinkRequests : \A r \in Sessions : Took(p, r)' <=> Took(p, r)
    BY <1>3, <1>5 DEF Took, Reads
  <1>8. Handed'
    BY <1>7 DEF LinkInv, Handed, Took, Reads
  <1>9. UpToDate'
    <2> SUFFICES ASSUME NEW p \in LinkRequests, NEW r \in Sessions, Open(p)', p \notin outdated',
                        lreq'[p].session = r
                 PROVE  /\ lreq'[p].step = "deposit" => session'[r].status \in {"pending", "deleted"}
                        /\ lreq'[p].step = "claim" => /\ session'[r].status \in {"claimed", "deleted"}
                                                      /\ lreq'[p].payload = session'[r].payload
                        /\ r \notin crossed' => \A o \in LinkRequests : ~Took(o, r)'
      BY DEF UpToDate, Open
    <2>1. CASE p = q
      <3>1. r = s /\ lreq'[p].step = step /\ lreq'[p].payload = session[s].payload
        BY <1>3, <2>1
      <3>2. s \notin crossed => \A o \in LinkRequests : ~Took(o, s)
        BY <1>1 DEF LinkInv, Handed
      <3> QED  BY <1>1, <1>7, <3>1, <3>2 DEF Reads
    <2>2. CASE p # q
      <3>1. lreq'[p] = lreq[p]
        BY <1>3, <2>2
      <3> QED  BY <3>1, <1>7 DEF LinkInv, UpToDate, Open, Reads
    <2> QED  BY <2>1, <2>2
  <1> QED  BY <1>4, <1>6, <1>8, <1>9 DEF LinkInv

\* The request is over; what it had is kept.
LEMMA RequestOver ==
    ASSUME LinkInv, NEW q \in LinkRequests, Over(q)
    PROVE  /\ lreq' \in [LinkRequests -> LinkRequest]
           /\ lreq'[q].step = "over" /\ lreq'[q].session = lreq[q].session
           /\ \A p \in LinkRequests : p # q => lreq'[p] = lreq[p]
  <1>1. lreq[q] \in LinkRequest
    BY DEF LinkInv, LinkTypeOK
  <1>2. [step |-> "over", session |-> lreq[q].session, payload |-> lreq[q].payload] \in LinkRequest
    BY <1>1 DEF LinkRequest
  <1> QED  BY <1>2 DEF LinkInv, LinkTypeOK, Over

LEMMA FailInv == ASSUME LinkInv, NEW q \in LinkRequests, LinkFails(q) PROVE LinkInv'
  <1>1. /\ lreq' \in [LinkRequests -> LinkRequest]
        /\ lreq'[q].step = "over" /\ lreq'[q].session = lreq[q].session
        /\ \A p \in LinkRequests : p # q => lreq'[p] = lreq[p]
    BY RequestOver DEF LinkFails
  <1>2. LinkTypeOK'
    BY <1>1 DEF LinkInv, LinkTypeOK, LinkFails
  <1>3. given[q] = Nothing
    BY DEF LinkInv, RequestsFit, LinkFails
  <1>4. RequestsFit'
    BY <1>1, <1>3 DEF LinkInv, RequestsFit, Open, LinkFails
  <1>5. \A p \in LinkRequests : \A r \in Sessions : Took(p, r)' <=> Took(p, r)
    BY <1>1, <1>3 DEF Took, LinkFails
  <1>6. Handed'
    BY <1>5 DEF LinkInv, Handed, LinkFails
  <1>7. UpToDate'
    BY <1>1, <1>5 DEF LinkInv, UpToDate, Open, LinkFails
  <1> QED  BY <1>2, <1>4, <1>6, <1>7 DEF LinkInv

\* A deposit or a claim writes the session it has read, whatever it has become:
\* for the other sessions nothing changes, and who had read it is outdated.
LEMMA Written ==
    ASSUME LinkInv, NEW q \in LinkRequests, NEW step \in {"deposit", "claim"},
           NEW status \in {"claimed", "completed"}, NEW p \in LinkRequests,
           Writes(q, step, status, p)
    PROVE  LET s == lreq[q].session
           IN  /\ s \in Sessions
               /\ session' \in [Sessions -> Session]
               /\ \A r \in Sessions : r # s => session'[r] = session[r]
               /\ session[s].status = "deleted" => session' = session
               /\ session[s].status # "deleted" =>
                      session'[s].status = status /\ session'[s].payload = p
               /\ lreq' \in [LinkRequests -> LinkRequest]
               /\ lreq'[q].step = "over" /\ lreq'[q].session = s
               /\ \A o \in LinkRequests : o # q => lreq'[o] = lreq[o]
               /\ \A o \in LinkRequests : (Open(o)' /\ lreq'[o].session = s) => o \in outdated'
               /\ \A o \in LinkRequests : o \notin outdated' => o \notin outdated
               /\ \A r \in Sessions : r \notin crossed' => r \notin crossed
               /\ s \notin crossed' => q \notin outdated
               /\ crossed' \subseteq Sessions /\ outdated' \subseteq LinkRequests
  <1> DEFINE s == lreq[q].session
  <1>1. s \in Sessions
    BY DEF LinkInv, RequestsFit, Open, Writes
  <1>2. /\ lreq' \in [LinkRequests -> LinkRequest]
        /\ lreq'[q].step = "over" /\ lreq'[q].session = s
        /\ \A o \in LinkRequests : o # q => lreq'[o] = lreq[o]
    BY RequestOver DEF Writes
  <1>3. /\ session' \in [Sessions -> Session]
        /\ \A r \in Sessions : r # s => session'[r] = session[r]
        /\ session[s].status = "deleted" => session' = session
        /\ session[s].status # "deleted" => session'[s].status = status /\ session'[s].payload = p
    <2>1. CASE session[s].status = "deleted"
      BY <2>1 DEF Writes, LinkInv, LinkTypeOK
    <2>2. CASE session[s].status # "deleted"
      <3>1. session[s].expired \in BOOLEAN /\ status \in Statuses
        BY <1>1 DEF LinkInv, LinkTypeOK, Session, Statuses
      <3>2. session' = Put(s, status, p, session[s].expired)
        BY <2>2 DEF Writes
      <3> QED  BY <1>1, <2>2, <3>1, <3>2, RowPut
    <2> QED  BY <2>1, <2>2
  <1>4. \A o \in LinkRequests : (Open(o)' /\ lreq'[o].session = s) => o \in outdated'
    BY <1>2 DEF Open, Writes
  <1>5. /\ \A o \in LinkRequests : o \notin outdated' => o \notin outdated
        /\ \A r \in Sessions : r \notin crossed' => r \notin crossed
        /\ s \notin crossed' => q \notin outdated
        /\ crossed' \subseteq Sessions /\ outdated' \subseteq LinkRequests
    BY <1>1 DEF Writes, LinkInv, LinkTypeOK
  <1> QED  BY <1>1, <1>2, <1>3, <1>4, <1>5

LEMMA DepositInv == ASSUME LinkInv, NEW q \in LinkRequests, DepositCommit(q) PROVE LinkInv'
  <1> DEFINE s == lreq[q].session
  <1>1. /\ Writes(q, "deposit", "claimed", q) /\ given' = given
        /\ lreq[q].step = "deposit" /\ q # Nothing
    BY LinkAssumption DEF DepositCommit, Writes
  <1>2. /\ s \in Sessions
        /\ session' \in [Sessions -> Session]
        /\ \A r \in Sessions : r # s => session'[r] = session[r]
        /\ session[s].status = "deleted" => session' = session
        /\ session[s].status # "deleted" => session'[s].status = "claimed" /\ session'[s].payload = q
        /\ lreq' \in [LinkRequests -> LinkRequest]
        /\ lreq'[q].step = "over" /\ lreq'[q].session = s
        /\ \A o \in LinkRequests : o # q => lreq'[o] = lreq[o]
        /\ \A o \in LinkRequests : (Open(o)' /\ lreq'[o].session = s) => o \in outdated'
        /\ \A o \in LinkRequests : o \notin outdated' => o \notin outdated
        /\ \A r \in Sessions : r \notin crossed' => r \notin crossed
        /\ s \notin crossed' => q \notin outdated
        /\ crossed' \subseteq Sessions /\ outdated' \subseteq LinkRequests
    BY <1>1, Written
  <1> HIDE DEF s
  <1>3. LinkTypeOK'
    BY <1>1, <1>2 DEF LinkInv, LinkTypeOK
  <1>4. given[q] = Nothing
    BY <1>1 DEF LinkInv, RequestsFit
  <1>5. RequestsFit'
    <2> SUFFICES ASSUME NEW o \in LinkRequests
                 PROVE  /\ Open(o)' => /\ lreq'[o].session \in Sessions
                                       /\ session'[lreq'[o].session].status # "none"
                        /\ lreq'[o].step = "claim" => /\ lreq'[o].payload # Nothing
                                                      /\ session'[lreq'[o].session].payload # Nothing
                        /\ given'[o] # Nothing => /\ lreq'[o].step = "over"
                                                  /\ lreq'[o].session \in Sessions
      BY DEF RequestsFit, Open
    <2>1. CASE o = q
      BY <1>1, <1>2, <1>4, <2>1 DEF Open
    <2>2. CASE o # q
      <3>1. lreq'[o] = lreq[o]
        BY <1>2, <2>2
      <3>2. \A r \in Sessions :
               /\ session[r].status # "none" => session'[r].status # "none"
               /\ session[r].payload # Nothing => session'[r].payload # Nothing
        <4> TAKE r \in Sessions
        <4>1. CASE r = s
          BY <1>1, <1>2, <4>1
        <4>2. CASE r # s
          BY <1>2, <4>2
        <4> QED  BY <4>1, <4>2
      <3> QED  BY <1>1, <3>1, <3>2 DEF LinkInv, RequestsFit, Open
    <2> QED  BY <2>1, <2>2
  <1>6. \A p \in LinkRequests : \A r \in Sessions : Took(p, r)' <=> Took(p, r)
    BY <1>1, <1>2, <1>4 DEF Took
  <1>7. UpToDate'
    BY <1>2, <1>6 DEF LinkInv, UpToDate, Open
  <1>8. s \notin crossed' => \A p \in LinkRequests : ~Took(p, s)
    BY <1>1, <1>2 DEF LinkInv, UpToDate, Open, s
  <1>9. Handed'
    BY <1>1, <1>2, <1>6, <1>8 DEF LinkInv, Handed
  <1> QED  BY <1>3, <1>5, <1>7, <1>9 DEF LinkInv

LEMMA ClaimInv == ASSUME LinkInv, NEW q \in LinkRequests, ClaimCommit(q) PROVE LinkInv'
  <1> DEFINE s == lreq[q].session
             payload == session[s].payload
  <1>1. /\ Writes(q, "claim", "completed", payload)
        /\ given' = [given EXCEPT ![q] = lreq[q].payload]
        /\ lreq[q].step = "claim"
    BY DEF ClaimCommit, Writes
  <1>2. /\ s \in Sessions /\ payload \in LinkRequests
        /\ lreq[q].payload \in LinkRequests /\ Nothing \notin LinkRequests
    BY <1>1, LinkAssumption DEF LinkInv, RequestsFit, Open, LinkTypeOK, Session, LinkRequest
  <1>3. /\ session' \in [Sessions -> Session]
        /\ \A r \in Sessions : r # s => session'[r] = session[r]
        /\ session[s].status = "deleted" => session' = session
        /\ session[s].status # "deleted" =>
               session'[s].status = "completed" /\ session'[s].payload = payload
        /\ lreq' \in [LinkRequests -> LinkRequest]
        /\ lreq'[q].step = "over" /\ lreq'[q].session = s
        /\ \A o \in LinkRequests : o # q => lreq'[o] = lreq[o]
        /\ \A o \in LinkRequests : (Open(o)' /\ lreq'[o].session = s) => o \in outdated'
        /\ \A o \in LinkRequests : o \notin outdated' => o \notin outdated
        /\ \A r \in Sessions : r \notin crossed' => r \notin crossed
        /\ s \notin crossed' => q \notin outdated
        /\ crossed' \subseteq Sessions /\ outdated' \subseteq LinkRequests
    BY <1>1, <1>2, Written
  <1>4. \A r \in Sessions : session'[r].payload = session[r].payload
    <2> TAKE r \in Sessions
    <2>1. CASE r = s /\ session[s].status # "deleted"
      BY <1>3, <2>1
    <2>2. CASE r # s \/ session[s].status = "deleted"
      BY <1>3, <2>2
    <2> QED  BY <2>1, <2>2
  <1>5. /\ given' \in [LinkRequests -> LinkRequests \union {Nothing}]
        /\ given'[q] = lreq[q].payload
        /\ \A o \in LinkRequests : o # q => given'[o] = given[o]
        /\ given[q] = Nothing
    BY <1>1, <1>2 DEF LinkInv, LinkTypeOK, RequestsFit
  <1>6. \A r \in Sessions : session[r].status # "none" => session'[r].status # "none"
    <2> TAKE r \in Sessions
    <2>1. CASE r = s /\ session[s].status # "deleted"
      BY <1>3, <2>1
    <2>2. CASE r # s \/ session[s].status = "deleted"
      BY <1>3, <2>2
    <2> QED  BY <2>1, <2>2
  <1>7. \A p \in LinkRequests : \A r \in Sessions :
            p # q \/ r # s => (Took(p, r)' <=> Took(p, r))
    BY <1>3, <1>5 DEF Took
  <1> HIDE DEF payload
  <1>8. LinkTypeOK'
    <2>1. \A r \in Sessions : session'[r].status \in {"claimed", "completed"} =>
              session'[r].payload # Nothing
      <3> SUFFICES ASSUME NEW r \in Sessions, session'[r].status \in {"claimed", "completed"}
                   PROVE  session[r].payload # Nothing
        BY <1>4
      <3>1. CASE r = s
        BY <1>2, <3>1 DEF payload
      <3>2. CASE r # s
        BY <1>3, <3>2 DEF LinkInv, LinkTypeOK
      <3> QED  BY <3>1, <3>2
    <2> QED  BY <1>3, <1>5, <2>1 DEF LinkInv, LinkTypeOK
  <1> HIDE DEF s
  <1>9. RequestsFit'
    <2> SUFFICES ASSUME NEW o \in LinkRequests
                 PROVE  /\ Open(o)' => /\ lreq'[o].session \in Sessions
                                       /\ session'[lreq'[o].session].status # "none"
                        /\ lreq'[o].step = "claim" => /\ lreq'[o].payload # Nothing
                                                      /\ session'[lreq'[o].session].payload # Nothing
                        /\ given'[o] # Nothing => /\ lreq'[o].step = "over"
                                                  /\ lreq'[o].session \in Sessions
      BY DEF RequestsFit, Open
    <2>1. CASE o = q
      BY <1>2, <1>3, <2>1 DEF Open
    <2>2. CASE o # q
      <3>1. lreq'[o] = lreq[o] /\ given'[o] = given[o]
        BY <1>3, <1>5, <2>2
      <3> QED  BY <1>4, <1>6, <3>1 DEF LinkInv, RequestsFit, Open
    <2> QED  BY <2>1, <2>2
  <1>10. UpToDate'
    <2> SUFFICES ASSUME NEW p \in LinkRequests, NEW r \in Sessions, Open(p)', p \notin outdated',
                        lreq'[p].session = r
                 PROVE  /\ lreq'[p].step = "deposit" => session'[r].status \in {"pending", "deleted"}
                        /\ lreq'[p].step = "claim" => /\ session'[r].status \in {"claimed", "deleted"}
                                                      /\ lreq'[p].payload = session'[r].payload
                        /\ r \notin crossed' => \A o \in LinkRequests : ~Took(o, r)'
      BY DEF UpToDate, Open
    <2>1. r # s /\ p # q
      BY <1>3 DEF Open
    <2>2. lreq'[p] = lreq[p] /\ session'[r] = session[r] /\ Open(p) /\ p \notin outdated
      BY <1>3, <2>1 DEF Open
    <2> QED  BY <1>3, <1>7, <2>1, <2>2 DEF LinkInv, UpToDate
  <1>11. s \notin crossed' =>
            /\ \A p \in LinkRequests : ~Took(p, s)
            /\ session'[s].status \in {"completed", "deleted"}
            /\ lreq[q].payload = session[s].payload
    BY <1>1, <1>2, <1>3 DEF LinkInv, UpToDate, Open, s
  <1>12. Handed'
    <2> SUFFICES ASSUME NEW r \in Sessions, r \notin crossed', NEW p \in LinkRequests, Took(p, r)'
                 PROVE  /\ session'[r].status \in {"completed", "deleted"}
                        /\ given'[p] = session'[r].payload
                        /\ \A o \in LinkRequests : Took(o, r)' => p = o
      BY DEF Handed, Took
    <2>1. CASE r = s
      <3>1. p = q
        BY <1>7, <1>11, <2>1
      <3>2. \A o \in LinkRequests : Took(o, r)' => o = q
        BY <1>7, <1>11, <2>1
      <3> QED  BY <1>4, <1>5, <1>11, <2>1, <3>1, <3>2
    <2>2. CASE r # s
      <3>1. Took(p, r) /\ session'[r] = session[r] /\ r \notin crossed
        BY <1>3, <1>7, <2>2
      <3>2. given'[p] = given[p]
        BY <1>5, <3>1 DEF Took
      <3>3. \A o \in LinkRequests : Took(o, r)' => p = o
        BY <1>7, <2>2, <3>1 DEF LinkInv, Handed
      <3> QED  BY <3>1, <3>2, <3>3 DEF LinkInv, Handed
    <2> QED  BY <2>1, <2>2
  <1> QED  BY <1>8, <1>9, <1>10, <1>12 DEF LinkInv

LEMMA LinkNextInv == LinkInv /\ [LinkNext]_linkVars => LinkInv'
  <1> SUFFICES ASSUME LinkInv, [LinkNext]_linkVars PROVE LinkInv'
    OBVIOUS
  <1>1. ASSUME NEW s \in Sessions, CreateSession(s) \/ SessionExpires(s) PROVE LinkInv'
    BY <1>1, CreateInv, ExpireInv
  <1>2. ASSUME NEW q \in LinkRequests, NEW s \in Sessions, DepositSelect(q, s) PROVE LinkInv'
    BY <1>2, ReadInv DEF DepositSelect
  <1>3. ASSUME NEW q \in LinkRequests, NEW s \in Sessions, ClaimSelect(q, s) PROVE LinkInv'
    BY <1>3, ReadInv DEF ClaimSelect
  <1>4. ASSUME NEW q \in LinkRequests, DepositCommit(q) \/ ClaimCommit(q) \/ LinkFails(q)
        PROVE  LinkInv'
    BY <1>4, DepositInv, ClaimInv, FailInv
  <1> QED  BY <1>1, <1>2, <1>3, <1>4, CleanupInv, LinkStutterInv DEF LinkNext

THEOREM LinkInvariance == LinkSpec => []LinkInv
  BY LinkInitInv, LinkNextInv, PTL DEF LinkSpec

(***************************************************************************)
(* What follows                                                            *)
(***************************************************************************)
\* Sessions and requests keep their shape, and a session that can be claimed
\* has a payload.
THEOREM LinkTypes == LinkSpec => []LinkTypeOK
  <1>1. LinkInv => LinkTypeOK
    BY DEF LinkInv
  <1> QED  BY <1>1, LinkInvariance, PTL

\* One device gets the payload that was deposited, unless requests overlap.
THEOREM Handover == LinkSpec => []OneHandover
  <1>1. LinkInv => OneHandover
    BY DEF LinkInv, Handed, Took, OneHandover, TakenFrom
  <1> QED  BY <1>1, LinkInvariance, PTL

(***************************************************************************)
(* The order of the states of a session                                    *)
(***************************************************************************)
\* A deposit by a request that is not outdated does not go back, and nothing
\* else does either.
LEMMA StatusesRise ==
    ASSUME LinkInv, LinkNext, NEW s \in Sessions, Rank[session'[s].status] < Rank[session[s].status]
    PROVE  \E q \in outdated : lreq[q].step = "deposit" /\ lreq[q].session = s
  <1>1. session[s].status \in Statuses /\ session'[s].status \in Statuses
    BY LinkNextInv DEF LinkInv, LinkTypeOK, Session
  <1>2. /\ session'[s].status # session[s].status
        /\ session[s].status # "none" /\ session'[s].status # "deleted"
        /\ session'[s].status = "completed" => session[s].status = "deleted"
        /\ session'[s].status = "claimed" => session[s].status \in {"completed", "deleted"}
    BY <1>1 DEF Rank, Statuses
  <1>3. ASSUME NEW r \in Sessions, CreateSession(r) PROVE FALSE
    <2>1. session'[s] = session[s] \/ s = r
      BY <1>3, RowPut DEF CreateSession, Statuses
    <2> QED  BY <1>2, <1>3, <2>1 DEF CreateSession
  <1>4. ASSUME NEW r \in Sessions, SessionExpires(r) PROVE FALSE
    <2>1. session[r] \in Session
      BY DEF LinkInv, LinkTypeOK
    <2>2. session' = Put(r, session[r].status, session[r].payload, TRUE)
      BY <1>4 DEF SessionExpires
    <2>3. session'[s].status = session[s].status
      BY <2>1, <2>2 DEF Put, LinkInv, LinkTypeOK
    <2> QED  BY <1>2, <2>3
  <1>5. ~Cleanup
    BY <1>2 DEF Cleanup, Removed, LinkInv, LinkTypeOK
  <1>6. ASSUME NEW q \in LinkRequests, ClaimCommit(q) PROVE FALSE
    <2> DEFINE r == lreq[q].session
    <2>1. r \in Sessions /\ lreq[q].step = "claim"
      BY <1>6 DEF ClaimCommit, Writes, LinkInv, RequestsFit, Open
    <2>2. \/ session' = session
          \/ /\ session[r].status # "deleted"
             /\ session' = Put(r, "completed", session[r].payload, session[r].expired)
      BY <1>6 DEF ClaimCommit, Writes
    <2>3. \/ session'[s] = session[s]
          \/ session[s].status # "deleted" /\ session'[s].status = "completed"
      BY <2>1, <2>2 DEF Put, LinkInv, LinkTypeOK
    <2> QED  BY <1>2, <2>3
  <1>7. ~UNCHANGED session
    BY <1>2
  <1>8. PICK q \in LinkRequests : DepositCommit(q)
    BY <1>3, <1>4, <1>5, <1>6, <1>7
    DEF LinkNext, DepositSelect, ClaimSelect, Reads, LinkFails
  <1> DEFINE r == lreq[q].session
  <1>9. r \in Sessions /\ lreq[q].step = "deposit"
    BY <1>8 DEF DepositCommit, Writes, LinkInv, RequestsFit, Open
  <1>10. session[r].status # "deleted" /\ session' = Put(r, "claimed", q, session[r].expired)
    BY <1>7, <1>8 DEF DepositCommit, Writes
  <1>11. s = r /\ session'[s].status = "claimed"
    BY <1>2, <1>9, <1>10 DEF Put, LinkInv, LinkTypeOK
  <1>12. session[s].status \notin {"pending", "deleted"}
    BY <1>2, <1>10, <1>11
  <1>13. q \in outdated
    BY <1>9, <1>11, <1>12 DEF LinkInv, UpToDate, Open
  <1> QED  BY <1>9, <1>11, <1>13

\* Only a deposit that overlaps another request opens a session again.
THEOREM Reopening == LinkSpec => NeverReopened
  <1>1. LinkInv /\ [LinkNext]_linkVars =>
            [\A s \in Sessions : Rank[session'[s].status] < Rank[session[s].status] =>
                \E q \in outdated : lreq[q].step = "deposit" /\ lreq[q].session = s]_linkVars
    BY StatusesRise
  <1> QED  BY <1>1, LinkInvariance, PTL DEF LinkSpec, NeverReopened

(***************************************************************************)
(* The services side by side                                               *)
(***************************************************************************)
allVars == <<cacheVars, escrowVars, linkVars, reminderVars, scenario, requests>>

\* A step is one of the service that the scenario names, and leaves the others.
LEMMA CacheAlone ==
    ASSUME [MCNext]_allVars
    PROVE  [CacheNext]_cacheVars
  <1>1. ASSUME NEW c \in Callers,
               \/ Ask(c) \/ Get(c) \/ Hit(c) \/ Join(c) \/ Lead(c) \/ Recheck(c) \/ CallFactory(c)
               \/ (\E v \in Values : FactoryReturns(c, v))
               \/ Store(c) \/ Settle(c) \/ CallFails(c) \/ Reply(c)
        PROVE  CacheNext
    BY <1>1 DEF CacheNext, Resume
  <1>2. Expire => CacheNext
    BY DEF CacheNext
  <1>3. EscrowOnly \/ LinkStep \/ Free \/ Counted \/ ByUser \/ UNCHANGED allVars => UNCHANGED cacheVars
    BY DEF EscrowOnly, LinkStep, Free, Counted, ByUser, Others, allVars
  <1> QED  BY <1>1, <1>2, <1>3 DEF MCNext

LEMMA EscrowAlone ==
    ASSUME [MCNext]_allVars
    PROVE  [EscrowNext]_escrowVars
  <1>1. ASSUME NEW q \in EscrowRequests,
               \/ EnableSent(q) \/ EnableCheck(q) \/ EnableTrial(q) \/ EnableCommit(q)
               \/ Revoke(q) \/ RecoveryAsked(q) \/ Fetch(q) \/ FetchLost(q) \/ Missing(q)
               \/ Decrypt(q) \/ Complete(q) \/ CompleteLost(q) \/ Release(q)
               \/ Fails(q) \/ LogFailed(q) \/ Ends(q)
        PROVE  EscrowNext
    BY <1>1 DEF EscrowNext, EscrowStep
  <1>2. Rotate => EscrowNext
    BY DEF EscrowNext
  <1>3. CacheStep \/ LinkStep \/ Free \/ Counted \/ ByUser \/ UNCHANGED allVars => UNCHANGED escrowVars
    BY DEF CacheStep, LinkStep, Free, Counted, ByUser, Others, allVars
  <1> QED  BY <1>1, <1>2, <1>3 DEF MCNext

LEMMA LinkAlone ==
    ASSUME [MCNext]_allVars
    PROVE  [LinkNext]_linkVars
  <1>1. CacheStep \/ EscrowOnly \/ Free \/ Counted \/ ByUser \/ UNCHANGED allVars => UNCHANGED linkVars
    BY DEF CacheStep, EscrowOnly, Free, Counted, ByUser, Others, allVars
  <1> QED  BY <1>1 DEF MCNext, LinkNext

LEMMA RemindersAlone ==
    ASSUME [MCNext]_allVars
    PROVE  [RemindersNext]_reminderVars
  <1>1. CacheStep \/ EscrowOnly \/ LinkStep \/ UNCHANGED allVars => UNCHANGED reminderVars
    BY DEF CacheStep, EscrowOnly, LinkStep, allVars
  <1>2. ASSUME NEW q \in PatchRequests,
               (\E change \in ChangesSeen : PatchSelect(q, change)) \/ PatchCommit(q) \/ PatchFails(q)
        PROVE  RemindersNext
    BY <1>2 DEF RemindersNext, ChangesSeen
  <1>3. ASSUME NEW zone \in Zones, UpsertTimezone(zone)
        PROVE  RemindersNext
    BY <1>3 DEF RemindersNext
  <1>4. ASSUME NEW r \in Runs,
               Query(r) \/ Sent(r) \/ SentToNobody(r) \/ SendFails(r) \/ SentUnlogged(r)
        PROVE  RemindersNext
    BY <1>4 DEF RemindersNext, Job, Sends
  <1>5. Tick \/ RegisterToken \/ UnregisterToken => RemindersNext
    BY DEF RemindersNext
  <1> QED  BY <1>1, <1>2, <1>3, <1>4, <1>5 DEF MCNext

\* Side by side each service is as its own specification has it: what one does
\* is nothing to another, and what is checked and proved of each holds of all.
THEOREM RunsServices == MCSpec => CacheSpec /\ EscrowSpec /\ LinkSpec /\ RemindersSpec
  <1>1. MCInit => CacheInit /\ EscrowInit /\ LinkInit /\ RemindersInit
    BY DEF MCInit
  <1>2. [MCNext]_allVars => /\ [CacheNext]_cacheVars /\ [EscrowNext]_escrowVars
                            /\ [LinkNext]_linkVars /\ [RemindersNext]_reminderVars
    BY CacheAlone, EscrowAlone, LinkAlone, RemindersAlone
  <1> QED  BY <1>1, <1>2, PTL DEF MCSpec, allVars, CacheSpec, EscrowSpec, LinkSpec, RemindersSpec

\* All tables keep their shape together: no failure is cached, KMS can decrypt
\* the escrow copy, a session that can be claimed has a payload, and enabled_at is
\* set only while reminders are on.
THEOREM ServicesTypes == MCSpec => []ServicesTypeOK
  <1>1. CacheTypeOK /\ EscrowTypeOK /\ LinkTypeOK /\ RemindersTypeOK => ServicesTypeOK
    BY DEF ServicesTypeOK
  <1> QED  BY <1>1, RunsServices, CacheTypes, EscrowTypes, LinkTypes, ReminderTypes, PTL
=============================================================================
