----------------------------- MODULE MCServices -----------------------------
(* Instances of the services that share nothing but the process, for TLC:  *)
(* CacheCoalescing, KeyRecovery, DeviceLinking and Reminders.  In one      *)
(* behaviour only one of them is at work, the one the scenario names.      *)
EXTENDS CacheCoalescing, KeyRecovery, DeviceLinking, Reminders

CONSTANT MaxRequests    \* bound: changes of a user and failures (reminders)

VARIABLES scenario, requests

RunnerZones == {0, 20}

\* Bound: a PATCH ends in its slot, a run on its day.
InBounds ==
    frac = Moments - 1 =>
        /\ \A q \in PatchRequests : patch[q] = Idle
        /\ slot = SlotsPerDay - 1 => due = {}

\* The first device comes for nothing.
DayOne == slot = 0 /\ frac = 0 /\ lastSent = Never /\ requests = 0

\* Runs whose lists are as old as each other's take turns in a fixed order.
LastAlike(r) == \A o \in due : o > r => (o \in listed) # (r \in listed)
FirstFree(r) == \A o \in Runs : o < r => o \in due
FirstIdle(q) == \A p \in 1..q - 1 : patch[p] # Idle
\* Setting the default time changes little.
ChangesSeen == {change \in Changes : change.time # DefaultTime}

MCInit ==
    /\ CacheInit /\ EscrowInit /\ LinkInit /\ RemindersInit
    /\ scenario \in {"cache", "recovery", "linking", "reminders"}
    /\ requests = 0

\* A request of the other services, or a step of time or of the job.
CacheStep == scenario = "cache" /\ UNCHANGED <<scenario, requests, escrowVars, linkVars, reminderVars>>
EscrowOnly == scenario = "recovery" /\ UNCHANGED <<scenario, requests, cacheVars, linkVars, reminderVars>>
LinkStep == scenario = "linking" /\ UNCHANGED <<scenario, requests, cacheVars, escrowVars, reminderVars>>
Others == scenario = "reminders" /\ UNCHANGED <<scenario, cacheVars, escrowVars, linkVars>>
Free == Others /\ UNCHANGED requests
Counted == Others /\ requests < MaxRequests /\ requests' = requests + 1

\* Bound: users act in the first moment of a slot.
ByUser == frac = 0 /\ Counted

MCNext ==
    \/ \E c \in Callers :
        \/ answer[c] = None /\ Ask(c) /\ CacheStep
        \/ Get(c) /\ CacheStep
        \/ Hit(c) /\ CacheStep
        \/ Join(c) /\ CacheStep
        \/ Lead(c) /\ CacheStep
        \/ Recheck(c) /\ CacheStep
        \/ CallFactory(c) /\ CacheStep
        \/ (\E v \in Values : FactoryReturns(c, v)) /\ CacheStep
        \/ Store(c) /\ CacheStep
        \/ Settle(c) /\ CacheStep
        \/ CallFails(c) /\ CacheStep
        \/ Reply(c) /\ CacheStep
    \/ Expire /\ CacheStep
    \/ \E q \in EscrowRequests :
        \/ EnableSent(q) /\ EscrowOnly
        \/ EnableCheck(q) /\ EscrowOnly
        \/ EnableTrial(q) /\ EscrowOnly
        \/ EnableCommit(q) /\ EscrowOnly
        \/ Revoke(q) /\ EscrowOnly
        \/ RecoveryAsked(q) /\ EscrowOnly
        \/ Fetch(q) /\ EscrowOnly
        \/ FetchLost(q) /\ EscrowOnly
        \/ Missing(q) /\ EscrowOnly
        \/ Decrypt(q) /\ EscrowOnly
        \/ Complete(q) /\ EscrowOnly
        \/ CompleteLost(q) /\ EscrowOnly
        \/ Release(q) /\ EscrowOnly
        \/ Fails(q) /\ EscrowOnly
        \/ LogFailed(q) /\ EscrowOnly
        \/ Ends(q) /\ EscrowOnly
    \/ Rotate /\ EscrowOnly
    \/ \E s \in Sessions :
        \/ CreateSession(s) /\ LinkStep
        \/ SessionExpires(s) /\ LinkStep
    \/ \E q \in LinkRequests, s \in Sessions :
        \/ DepositSelect(q, s) /\ LinkStep
        \/ ClaimSelect(q, s) /\ LinkStep
    \/ \E q \in LinkRequests :
        \/ DepositCommit(q) /\ LinkStep
        \/ ClaimCommit(q) /\ LinkStep
        \/ LinkFails(q) /\ LinkStep
    \/ Cleanup /\ LinkStep
    \/ InBounds /\ Tick /\ Free
    \/ \E r \in Runs : FirstFree(r) /\ Query(r) /\ Free
    \/ \E r \in Runs :
        /\ LastAlike(r)
        /\ \/ Sent(r) /\ Free
           \/ SentToNobody(r) /\ ~token /\ Free
           \/ SentToNobody(r) /\ token /\ Counted
           \/ SendFails(r) /\ Counted
           \/ SentUnlogged(r) /\ Counted
    \/ \E q \in PatchRequests :
        \/ FirstIdle(q) /\ (\E change \in ChangesSeen : PatchSelect(q, change)) /\ ByUser
        \/ PatchCommit(q) /\ Free
        \/ PatchFails(q) /\ Free
    \/ (\E zone \in Zones \ {DefaultZone} : UpsertTimezone(zone)) /\ ByUser
    \/ RegisterToken /\ (IF DayOne THEN Free ELSE ByUser)
    \/ UnregisterToken /\ ByUser

\* Time passes.
Fairness ==
    /\ CacheFairness /\ LinkFairness /\ JobFairness
    /\ WF_reminderVars(scenario = "reminders" /\ Tick)

MCSpec ==
    /\ MCInit
    /\ [][MCNext]_<<cacheVars, escrowVars, linkVars, reminderVars, scenario, requests>>
    /\ Fairness

\* Each service keeps its tables in shape: no failure is cached, KMS can decrypt
\* the escrow copy, a session that can be claimed has a payload, and
\* enabled_at is set only while reminders are on.
ServicesTypeOK == CacheTypeOK /\ EscrowTypeOK /\ LinkTypeOK /\ RemindersTypeOK
=============================================================================
