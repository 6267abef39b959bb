----------------------------- MODULE Reminders -----------------------------
(***************************************************************************)
(* One user's reminders: the preferences row, the push token, the log, and *)
(* the job that runs every half hour, on every instance and without a lock *)
(* or a look at whether the run before it has ended.                       *)
(*                                                                         *)
(* Runs divide the day into slots.  Within a slot time has moments, closer *)
(* than a minute: the job's query, the sending and the next query a period *)
(* later are ordered by them.  Times of day are minutes; ages are moments  *)
(* and are not counted beyond what is compared with them.  A run may take  *)
(* as long as it likes.                                                    *)
(*                                                                         *)
(* Left out: reading the preferences; several devices and chunks (a user   *)
(* has a token or none); the other frequencies (FreqDays is one of them).  *)
(***************************************************************************)
EXTENDS Integers, FiniteSets

CONSTANTS
    Runs,           \* runs of the job in flight at once
    SlotsPerDay,    \* times a day the job is started (48)
    RunEvery,       \* minutes between them (30)
    Window,         \* minutes around the preferred time (15)
    Moments,        \* bound: moments in a slot
    FreqDays,       \* days between reminders (7, 14, 30)
    Times,          \* preferred times, in minutes
    DefaultTime,    \* evening
    Zones,          \* time zones, in minutes from the server's
    DefaultZone,    \* UTC
    PatchRequests   \* PATCH requests in flight at once

ASSUME ReminderAssumption ==
    /\ IsFiniteSet(Runs) /\ Runs # {}
    /\ SlotsPerDay \in Nat \ {0} /\ RunEvery \in Nat \ {0} /\ Moments \in Nat \ {0}
    /\ Window \in Nat /\ FreqDays \in Nat \ {0}
    /\ DefaultTime \in Times /\ DefaultZone \in Zones
    /\ Times \subseteq Nat /\ Zones \subseteq Int

VARIABLES
    slot, frac, \* the time of day
    ran,        \* a run has made its query in this slot
    due,        \* runs that have the user in their list, not dealt with
    prefs,      \* user_preferences
    token,      \* push_tokens: a device is registered
    lastSent,   \* notification_log: age of the latest reminder
    patch,      \* PATCH requests
    \* Observation only
    pushed,     \* age of the latest push the device got
    unlogged,   \* that push was not logged
    burst,      \* pushes up to that one, each within a period of the one before
    wish,       \* whether the user last asked to have reminders or not
    unsure,     \* a PATCH that had read before another's write has overwritten it
    listed,     \* those of due whose list is older than the preferences
    trouble     \* since the latest reminder: a missed or slow run, a failure, a change

clock == <<slot, frac, ran>>
tables == <<prefs, token, lastSent>>
seen == <<pushed, unlogged, burst, wish, unsure, listed, trouble>>
reminderVars == <<clock, due, tables, patch, seen>>

Never == -1
DayMoments == SlotsPerDay * Moments
FullPeriod == FreqDays * DayMoments
HalfPeriod == (FreqDays \div 2) * DayMoments
\* A reminder is never later than this (RemindersInTime).
Latest == FullPeriod + DayMoments + Moments

Older(age, cap) == IF age = Never \/ age = cap THEN age ELSE age + 1

(***************************************************************************)
(* reminders is "unset" in a row with empty notifications.  enabled and    *)
(* updated are the ages of enabled_at and updated_at.                      *)
(***************************************************************************)
NoRow == [there |-> FALSE, zone |-> DefaultZone, reminders |-> "unset", time |-> DefaultTime,
          enabled |-> Never, updated |-> Never]
PrefsRow == [there : BOOLEAN, zone : Zones, reminders : {"unset", "on", "off"}, time : Times,
             enabled : Never..HalfPeriod, updated : Never..HalfPeriod]

\* A PATCH turns reminders on or off, or sets their time.
Same == -1
Changes == [reminders : {"on", "off"}, time : {Same}] \union [reminders : {"same"}, time : Times]
NoChange == [reminders |-> "same", time |-> Same]

\* What a PATCH has read: it writes back neither time zone nor updated_at.
Read(row) == [row EXCEPT !.zone = DefaultZone, !.updated = Never]

Patch == [change : Changes \union {NoChange}, saw : PrefsRow, outdated : BOOLEAN]
Idle == [change |-> NoChange, saw |-> NoRow, outdated |-> FALSE]

RemindersTypeOK ==
    /\ slot \in 0..SlotsPerDay - 1 /\ frac \in 0..Moments - 1
    /\ prefs \in PrefsRow /\ (prefs.reminders # "on" => prefs.enabled = Never)
    /\ lastSent \in Never..Latest + 1 /\ pushed \in Never..FullPeriod
    /\ patch \in [PatchRequests -> Patch]
    /\ wish \in {"none", "on", "off"}
    /\ due \subseteq Runs /\ listed \subseteq due /\ burst \in Nat
    /\ {ran, token, unlogged, unsure, trouble} \subseteq BOOLEAN

RemindersInit ==
    /\ slot = 0 /\ frac = 0 /\ ran = FALSE
    /\ due = {}
    /\ prefs = NoRow /\ token = FALSE /\ lastSent = Never
    /\ patch = [q \in PatchRequests |-> Idle]
    /\ pushed = Never /\ unlogged = FALSE /\ burst = 0
    /\ wish = "none" /\ unsure = FALSE /\ listed = {} /\ trouble = FALSE

(***************************************************************************)
(* The query                                                               *)
(***************************************************************************)
Day == SlotsPerDay * RunEvery

\* LEAST(ABS(a - b), 1440 - ABS(a - b))
MinutesApart(a, b) ==
    LET d == IF a > b THEN a - b ELSE b - a
    IN  IF d < Day - d THEN d ELSE Day - d

\* Mutation: without the wraparound at midnight.
InWindowToday(zone, time) ==
    LET a == (slot * RunEvery + zone) % Day
    IN  (IF a > time THEN a - time ELSE time - a) < Window

InWindow(zone, time) == MinutesApart((slot * RunEvery + zone) % Day, time) < Window

\* COALESCE(enabled_at, updated_at)
EffectiveEnabled == IF prefs.enabled # Never THEN prefs.enabled ELSE prefs.updated

\* Mutation: half the period, also after the first reminder.
PeriodHalved == IF lastSent # Never THEN lastSent >= HalfPeriod ELSE EffectiveEnabled >= HalfPeriod

\* Mutation: a reminder must be older than a period and a day.
PeriodLong ==
    IF lastSent # Never THEN lastSent > FullPeriod + DayMoments ELSE EffectiveEnabled >= HalfPeriod

PeriodOver == IF lastSent # Never THEN lastSent >= FullPeriod ELSE EffectiveEnabled >= HalfPeriod

\* getEligibleReminderUsers: what other runs have in their lists is not logged.
Query(r) ==
    /\ r \notin due
    /\ ran' = TRUE
    /\ due' = IF prefs.reminders = "on" /\ InWindow(prefs.zone, prefs.time) /\ PeriodOver
              THEN due \union {r} ELSE due
    /\ UNCHANGED <<slot, frac, tables, patch, seen>>

(***************************************************************************)
(* sendReminderInTransaction, sendToUser: the log is not read again.       *)
(***************************************************************************)
Deal(r) == r \in due /\ due' = due \ {r} /\ listed' = listed \ {r}

Pushed ==
    /\ token
    /\ pushed' = 0
    /\ burst' = IF unlogged THEN 1 ELSE burst + 1

\* The push is accepted and the transaction commits.
Sent(r) ==
    /\ Deal(r) /\ Pushed
    /\ lastSent' = 0
    /\ unlogged' = FALSE /\ trouble' = FALSE
    /\ UNCHANGED <<clock, prefs, token, patch, wish, unsure>>

\* Without a token nothing is sent, and the reminder is logged all the same.
\* Expo may answer that the device is gone, upon which the token is removed,
\* or with another error; the reminder is logged.
SentToNobody(r) ==
    /\ Deal(r)
    /\ token' \in {token, FALSE}
    /\ lastSent' = 0
    /\ trouble' = FALSE
    /\ UNCHANGED <<clock, prefs, patch, pushed, unlogged, burst, wish, unsure>>

\* The push throws or the process dies before it: the log entry is rolled back.
SendFails(r) ==
    /\ Deal(r)
    /\ trouble' = TRUE
    /\ UNCHANGED <<clock, tables, patch, pushed, unlogged, burst, wish, unsure>>

\* The push is accepted and the transaction does not commit.
SentUnlogged(r) ==
    /\ Deal(r) /\ Pushed
    /\ unlogged' = TRUE /\ trouble' = TRUE
    /\ UNCHANGED <<clock, tables, patch, wish, unsure>>

(***************************************************************************)
(* Preferences and tokens                                                  *)
(***************************************************************************)
\* applyDefaults: reminders are on by default.
WithDefaults(row) == IF row.reminders = "unset" THEN [row EXCEPT !.reminders = "on"] ELSE row

\* updateNotifications, its SELECT.
PatchSelect(q, change) ==
    /\ patch[q] = Idle
    /\ patch' = [patch EXCEPT ![q] = [change |-> change, saw |-> Read(prefs), outdated |-> FALSE]]
    /\ UNCHANGED <<clock, due, tables, seen>>

\* What was read with the change merged into it; enabled_at is cleared by
\* turning reminders off and set when they are on without it.
Merged(q) ==
    LET base == WithDefaults(patch[q].saw)
        change == patch[q].change
        reminders == IF change.reminders = "same" THEN base.reminders ELSE change.reminders
    IN  [base EXCEPT !.reminders = reminders,
                     !.time = IF change.time = Same THEN @ ELSE change.time,
                     !.enabled = IF change.reminders = "off" THEN Never
                                 ELSE IF reminders = "on" /\ @ = Never THEN 0 ELSE @]

\* The UPDATE of the whole notifications, or the INSERT, which fails when
\* there is a row by now.
PatchCommit(q) ==
    /\ patch[q] # Idle
    /\ patch[q].saw.there \/ ~prefs.there
    /\ prefs' = [Merged(q) EXCEPT !.there = TRUE, !.zone = prefs.zone, !.updated = 0]
    /\ patch' = [p \in PatchRequests |->
                    IF p = q THEN Idle
                    ELSE [patch[p] EXCEPT !.outdated = patch[p] # Idle]]
    /\ wish' = IF patch[q].change.reminders = "same" THEN wish ELSE patch[q].change.reminders
    /\ unsure' = (patch[q].change.reminders = "same" /\ (unsure \/ patch[q].outdated))
    /\ listed' = listed \union due
    /\ trouble' = TRUE
    /\ UNCHANGED <<clock, due, token, lastSent, pushed, unlogged, burst>>

PatchFails(q) ==
    /\ patch[q] # Idle
    /\ patch' = [patch EXCEPT ![q] = Idle]
    /\ UNCHANGED <<clock, due, tables, seen>>

\* Mutation: the row is written anew.
UpsertTimezoneAnew(zone) ==
    /\ prefs' = [NoRow EXCEPT !.there = TRUE, !.zone = zone, !.updated = 0,
                              !.reminders = IF prefs.there THEN "on" ELSE "unset"]
    /\ trouble' = TRUE
    /\ UNCHANGED <<clock, due, token, lastSent, patch>>
    /\ UNCHANGED <<pushed, unlogged, burst, wish, unsure, listed>>

\* On every start of the app.  A new row has no reminders, and the query does
\* not find it.
UpsertTimezone(zone) ==
    /\ prefs' = [prefs EXCEPT !.there = TRUE, !.zone = zone, !.updated = 0]
    /\ trouble' = TRUE
    /\ UNCHANGED <<clock, due, token, lastSent, patch>>
    /\ UNCHANGED <<pushed, unlogged, burst, wish, unsure, listed>>

\* registerToken, and ensurePreferencesExist in a transaction of its own.
RegisterToken ==
    /\ ~token
    /\ token' = TRUE
    /\ prefs' \in {prefs, IF prefs.there THEN prefs
                          ELSE [NoRow EXCEPT !.there = TRUE, !.reminders = "on", !.updated = 0]}
    /\ trouble' = TRUE
    /\ UNCHANGED <<clock, due, lastSent, patch, pushed, unlogged, burst, wish, unsure, listed>>

UnregisterToken ==
    /\ token
    /\ token' = FALSE
    /\ UNCHANGED <<clock, due, prefs, lastSent, patch, seen>>

(***************************************************************************)
(* Time                                                                    *)
(***************************************************************************)
OlderRow(row) == [row EXCEPT !.enabled = Older(@, HalfPeriod), !.updated = Older(@, HalfPeriod)]

\* Time waits for nobody: a slot may pass without a run, or with one unfinished.
Tick ==
    /\ frac' = (frac + 1) % Moments
    /\ IF frac = Moments - 1
       THEN /\ slot' = (slot + 1) % SlotsPerDay
            /\ ran' = FALSE
            /\ trouble' = (trouble \/ ~ran \/ due # {})
       ELSE UNCHANGED <<slot, ran, trouble>>
    /\ prefs' = OlderRow(prefs)
    /\ lastSent' = Older(lastSent, Latest + 1)
    /\ pushed' = Older(pushed, FullPeriod)
    /\ burst' = IF pushed' = FullPeriod THEN 0 ELSE burst
    /\ patch' = [q \in PatchRequests |-> [patch[q] EXCEPT !.saw = OlderRow(@)]]
    /\ UNCHANGED <<due, token, unlogged, wish, unsure, listed>>

Sends(r) == Sent(r) \/ SentToNobody(r) \/ SendFails(r) \/ SentUnlogged(r)
Job == \E r \in Runs : Query(r) \/ Sends(r)

RemindersNext ==
    \/ Tick \/ Job
    \/ \E q \in PatchRequests : (\E change \in Changes : PatchSelect(q, change))
                                 \/ PatchCommit(q) \/ PatchFails(q)
    \/ \E zone \in Zones : UpsertTimezone(zone)
    \/ RegisterToken \/ UnregisterToken

\* Runs with a list work through it.  No run is guaranteed to happen, nor a push
\* to succeed, but both do again and again.
JobFairness ==
    /\ WF_reminderVars(\E r \in Runs : Sends(r))
    /\ SF_reminderVars(\E r \in Runs : Query(r) /\ r \in due')
    /\ SF_reminderVars(\E r \in Runs : Sent(r))

RemindersSpec == RemindersInit /\ [][RemindersNext]_reminderVars

(***************************************************************************)
(* Properties                                                              *)
(***************************************************************************)
\* Pushes that follow one another within a period are at most as many as runs
\* overlap, each having made its list before the first was logged; once a push
\* is logged no run lists the user until the period is over.  This is less than
\* one push in a period: nothing in the code keeps two runs apart.  After a push
\* that was not logged the count begins anew.
SpacedOut == burst <= Cardinality(Runs)

\* Who turned reminders off gets none, but from a run that had made its list,
\* and when another PATCH had read the preferences before: it writes back all
\* it read.
OffMeansOff ==
    [][\A r \in due \ due' : pushed' = 0 => wish # "off" \/ unsure \/ r \in listed]_reminderVars

\* Some run of the day is less than Window minutes from the preferred time.
\* With a window of half the runs' distance, a time just between two runs has
\* none: the user is never reminded.
Covered ==
    \E s \in 0..SlotsPerDay - 1 :
        LET ahead == (s * RunEvery + prefs.zone - prefs.time) % Day
        IN  ahead < Window \/ Day - ahead < Window

\* The next reminder is logged within a period and a day: the query of the
\* day on which the period ends comes just before the moment of the last
\* sending, so that the reminder waits for another day.  Only without trouble:
\* nothing makes up for a run that was missed or failed but the next day's.
RemindersInTime ==
    lastSent # Never /\ prefs.reminders = "on" /\ Covered /\ ~trouble => lastSent <= Latest

\* Who has asked for reminders, or has had one and has not objected, is reminded
\* again and again while there is a device.  Of whom has never asked, the code
\* promises it and does not keep it: the row with the defaults is not made when
\* the time zone was stored first, and every start of the app begins the first
\* half period anew.
Asked == wish = "on" \/ (wish = "none" /\ lastSent # Never)

RemindersGoOn == <>[](token /\ Covered /\ Asked /\ ~unsure) => []<>(pushed = 0)
=============================================================================
