-------------------------- MODULE RemindersProofs --------------------------
(***************************************************************************)
(* Theorems of Reminders, for every division of the day, period, window,   *)
(* time, zone, and any number of runs and PATCH requests at once.          *)
(***************************************************************************)
EXTENDS Reminders, FiniteSetTheorems, TLAPS

\* When the latest push was logged, the log has an entry at least as recent.
Logged == pushed # Never /\ ~unlogged => lastSent # Never /\ (lastSent <= pushed \/ pushed = FullPeriod)

\* Within a period of a push that was logged no run lists the user: those that
\* have listed it, and the pushes so far, are different runs.
Bursts ==
    /\ burst <= Cardinality(Runs)
    /\ pushed = Never \/ pushed = FullPeriod => burst = 0
    /\ ~unlogged => burst + Cardinality(due) <= Cardinality(Runs)

\* A PATCH that is not outdated has read the reminders as they are, or will
\* fail to insert a row that is there by now.
Current(q) ==
    patch[q] # Idle /\ ~patch[q].outdated =>
        \/ patch[q].saw.reminders = prefs.reminders
        \/ ~patch[q].saw.there /\ prefs.there

\* What a PATCH has read is a row as the table has them, and is still there.
SawFits(q) ==
    /\ patch[q].saw.reminders # "on" => patch[q].saw.enabled = Never
    /\ patch[q].saw.there => prefs.there

\* What the user asked for is in the table, unless a PATCH wrote over it.
Obeyed ==
    /\ wish # "none" => prefs.there /\ prefs.reminders # "unset"
    /\ wish = "off" /\ prefs.reminders = "on" => unsure

\* A run's list goes by what the user asked for.
Heeded == \A r \in due : wish # "off" \/ unsure \/ r \in listed

RemindersInv ==
    /\ RemindersTypeOK
    /\ Logged /\ Bursts
    /\ \A q \in PatchRequests : Current(q) /\ SawFits(q)
    /\ Obeyed /\ Heeded

(***************************************************************************)
(* Ages and rows                                                           *)
(***************************************************************************)
\* The periods are numbers, and the log is kept longer than the period.
LEMMA Periods ==
    /\ DayMoments \in Nat /\ FullPeriod \in Nat /\ HalfPeriod \in Nat /\ Latest \in Nat
    /\ Latest >= FullPeriod /\ FullPeriod > 0
<1>1. DayMoments \in Nat \ {0}
  <2>1. (SlotsPerDay - 1) * Moments >= 0
    BY ReminderAssumption
  <2>2. SlotsPerDay * Moments = (SlotsPerDay - 1) * Moments + Moments
    BY ReminderAssumption
  <2> QED BY <2>1, <2>2, ReminderAssumption DEF DayMoments
<1>2. FullPeriod \in Nat \ {0}
  <2>1. (FreqDays - 1) * DayMoments >= 0
    BY <1>1, ReminderAssumption
  <2>2. FreqDays * DayMoments = (FreqDays - 1) * DayMoments + DayMoments
    BY <1>1, ReminderAssumption
  <2> QED BY <1>1, <2>1, <2>2, ReminderAssumption DEF FullPeriod
<1>3. FreqDays \div 2 \in Nat
  BY ReminderAssumption
<1>4. HalfPeriod \in Nat
  BY <1>1, <1>3 DEF HalfPeriod
<1>5. Latest \in Nat /\ Latest >= FullPeriod
  BY <1>1, <1>2, ReminderAssumption DEF Latest
<1> QED BY <1>1, <1>2, <1>4, <1>5

\* Runs are finitely many, and at least one.
LEMMA Counts ==
    /\ Cardinality(Runs) \in Nat \ {0} /\ Cardinality({}) = 0
    /\ \A S \in SUBSET Runs :
          /\ Cardinality(S) \in Nat /\ Cardinality(S) <= Cardinality(Runs)
          /\ \A r \in S : Cardinality(S \ {r}) = Cardinality(S) - 1
<1>1. Cardinality(Runs) \in Nat \ {0} /\ Cardinality({}) = 0
  BY ReminderAssumption, FS_CardinalityType, FS_EmptySet
<1>2. ASSUME NEW S \in SUBSET Runs
      PROVE  /\ Cardinality(S) \in Nat /\ Cardinality(S) <= Cardinality(Runs)
             /\ \A r \in S : Cardinality(S \ {r}) = Cardinality(S) - 1
  <2>1. IsFiniteSet(S) /\ Cardinality(S) <= Cardinality(Runs)
    BY ReminderAssumption, FS_Subset
  <2>2. Cardinality(S) \in Nat
    BY <2>1, FS_CardinalityType
  <2>3. ASSUME NEW r \in S PROVE Cardinality(S \ {r}) = Cardinality(S) - 1
    BY <2>1, FS_RemoveElement
  <2> QED BY <2>1, <2>2, <2>3
<1> QED BY <1>1, <1>2

\* An age grows by one, up to its cap.
LEMMA Ages ==
    ASSUME NEW cap \in Nat, NEW age \in Never..cap
    PROVE  /\ Older(age, cap) \in Never..cap
           /\ Older(age, cap) = Never <=> age = Never
           /\ Older(age, cap) >= age
           /\ Older(age, cap) = age + 1 \/ age = cap \/ age = Never
  BY DEF Older, Never

\* A row that grows older stays a row with the same settings.
LEMMA OlderRows ==
    ASSUME NEW row \in PrefsRow
    PROVE  /\ OlderRow(row) \in PrefsRow
           /\ OlderRow(row).reminders = row.reminders /\ OlderRow(row).there = row.there
           /\ OlderRow(row).enabled = Never <=> row.enabled = Never
<1>1. /\ Older(row.enabled, HalfPeriod) \in Never..HalfPeriod
      /\ Older(row.enabled, HalfPeriod) = Never <=> row.enabled = Never
      /\ Older(row.updated, HalfPeriod) \in Never..HalfPeriod
  BY Periods, Ages DEF PrefsRow
<1> QED BY <1>1 DEF OlderRow, PrefsRow

\* The row there is before the first write, and what a PATCH makes of a row.
LEMMA Rows ==
    /\ NoRow \in PrefsRow /\ NoRow.reminders = "unset" /\ NoRow.enabled = Never /\ ~NoRow.there
    /\ \A row \in PrefsRow :
          /\ Read(row) \in PrefsRow
          /\ Read(row).reminders = row.reminders /\ Read(row).there = row.there
          /\ Read(row).enabled = row.enabled
    /\ 0 \in Never..HalfPeriod /\ Never \in Never..HalfPeriod
<1>1. 0 \in Never..HalfPeriod /\ Never \in Never..HalfPeriod
  BY Periods DEF Never
<1>2. DefaultZone \in Zones /\ DefaultTime \in Times
  BY ReminderAssumption
<1>3. NoRow \in PrefsRow /\ NoRow.reminders = "unset" /\ NoRow.enabled = Never /\ ~NoRow.there
  BY <1>1, <1>2 DEF NoRow, PrefsRow
<1>4. ASSUME NEW row \in PrefsRow
      PROVE  /\ Read(row) \in PrefsRow
             /\ Read(row).reminders = row.reminders /\ Read(row).there = row.there
             /\ Read(row).enabled = row.enabled
  BY <1>1, <1>2 DEF Read, PrefsRow
<1> QED BY <1>1, <1>3, <1>4

\* A PATCH that changes something is no idle one.
LEMMA Patches ==
    /\ Idle \in Patch /\ Idle.outdated = FALSE
    /\ \A change \in Changes, row \in PrefsRow :
          [change |-> change, saw |-> row, outdated |-> FALSE] \in Patch \ {Idle}
    /\ \A change \in Changes :
          /\ change.reminders \in {"on", "off", "same"}
          /\ change.time \in Times \union {Same}
    /\ \A p \in Patch \ {Idle} :
          p.change.reminders \in {"on", "off", "same"} /\ p.change.time \in Times \union {Same}
<1>1. Idle \in Patch /\ Idle.outdated = FALSE
  BY Rows DEF Idle, Patch
<1>2. ASSUME NEW change \in Changes
      PROVE  /\ change.reminders \in {"on", "off", "same"}
             /\ change.time \in Times \union {Same}
             /\ change # NoChange
  BY ReminderAssumption DEF Changes, NoChange, Same
<1>3. NoChange.reminders = "same" /\ NoChange.time = Same
  BY DEF NoChange
<1>4. ASSUME NEW p \in Patch
      PROVE  p.change.reminders \in {"on", "off", "same"} /\ p.change.time \in Times \union {Same}
  BY <1>2, <1>3 DEF Patch
<1>5. ASSUME NEW change \in Changes, NEW row \in PrefsRow
      PROVE  [change |-> change, saw |-> row, outdated |-> FALSE] \in Patch \ {Idle}
  BY <1>2 DEF Patch, Idle
<1> QED BY <1>1, <1>2, <1>4, <1>5

(***************************************************************************)
(* The invariant, action by action                                         *)
(***************************************************************************)
LEMMA InitHolds == RemindersInit => RemindersInv
<1> SUFFICES ASSUME RemindersInit PROVE RemindersInv
  OBVIOUS
<1>1. /\ slot \in 0..SlotsPerDay - 1 /\ frac \in 0..Moments - 1
      /\ Never \in Never..Latest + 1 /\ Never \in Never..FullPeriod
  BY Periods, ReminderAssumption DEF RemindersInit, Never
<1>2. RemindersTypeOK
  BY <1>1, Rows, Patches DEF RemindersInit, RemindersTypeOK
<1>3. Logged /\ Bursts /\ Obeyed /\ Heeded
  BY Counts DEF RemindersInit, Logged, Bursts, Obeyed, Heeded
<1>4. ASSUME NEW q \in PatchRequests PROVE Current(q) /\ SawFits(q)
  BY Rows DEF RemindersInit, Current, SawFits, Idle
<1> QED BY <1>2, <1>3, <1>4 DEF RemindersInv

\* The job's query puts into its list only whose period is over.
LEMMA QueryKeeps ==
    ASSUME RemindersInv, NEW r \in Runs, Query(r)
    PROVE  RemindersInv'
<1> USE DEF RemindersInv, Query, tables, seen
<1>1. due' = due \/ (due' = due \union {r} /\ PeriodOver /\ prefs.reminders = "on")
  OBVIOUS
<1>2. RemindersTypeOK'
  BY <1>1 DEF RemindersTypeOK
<1>3. Logged'
  BY DEF Logged
<1>4. Bursts'
  <2>1. /\ pushed \in Never..FullPeriod /\ due' \in SUBSET Runs /\ FullPeriod \in Nat
        /\ lastSent \in Never..Latest + 1
    BY <1>2, Periods DEF RemindersTypeOK
  <2>2. Cardinality(due') <= Cardinality(Runs) /\ Cardinality(due') \in Nat
    BY <2>1, Counts
  <2>3. CASE unlogged \/ pushed = Never \/ pushed = FullPeriod
    BY <2>2, <2>3, Counts DEF Bursts
  <2>4. CASE ~unlogged /\ pushed # Never /\ pushed # FullPeriod
    <3>1. due' = due
      BY <1>1, <2>1, <2>4 DEF Logged, PeriodOver, Never
    <3> QED BY <3>1 DEF Bursts
  <2> QED BY <2>3, <2>4
<1>5. Obeyed'
  BY DEF Obeyed
<1>6. Heeded'
  BY <1>1 DEF Obeyed, Heeded
<1>7. ASSUME NEW q \in PatchRequests PROVE Current(q)' /\ SawFits(q)'
  BY DEF Current, SawFits
<1> QED BY <1>2, <1>3, <1>4, <1>5, <1>6, <1>7

\* Each way to deal with the list empties it; a push that is not in the log
\* is known as unlogged.
LEMMA SendingKeeps ==
    ASSUME RemindersInv, NEW r \in Runs, Sends(r)
    PROVE  RemindersInv'
<1> USE DEF RemindersInv, clock, tables
<1>1. /\ r \in due /\ due' = due \ {r} /\ listed' = listed \ {r}
      /\ prefs' = prefs /\ patch' = patch /\ wish' = wish /\ unsure' = unsure
  BY DEF Sends, Sent, SentToNobody, SendFails, SentUnlogged, Deal
<1>2. Obeyed' /\ Heeded'
  BY <1>1 DEF Obeyed, Heeded
<1>3. ASSUME NEW q \in PatchRequests PROVE Current(q)' /\ SawFits(q)'
  BY <1>1 DEF Current, SawFits
<1>4. 0 \in Never..Latest + 1 /\ 0 \in Never..FullPeriod /\ 0 # Never /\ 0 # FullPeriod
  BY Periods DEF Never
<1>5. /\ due' \subseteq Runs /\ listed' \subseteq due'
      /\ Cardinality(due') = Cardinality(due) - 1 /\ Cardinality(due') \in Nat
      /\ Cardinality(due) \in Nat /\ Cardinality(due) <= Cardinality(Runs)
      /\ Cardinality(Runs) \in Nat \ {0} /\ burst \in Nat
  <2>1. due \in SUBSET Runs /\ listed \subseteq due /\ burst \in Nat
    BY DEF RemindersTypeOK
  <2>2. due' \in SUBSET Runs
    BY <1>1, <2>1
  <2> QED BY <1>1, <2>1, <2>2, Counts
<1>6. CASE Sent(r) \/ SentUnlogged(r)
  <2>1. /\ pushed' = 0 /\ burst' = IF unlogged THEN 1 ELSE burst + 1
        /\ lastSent' \in {0, lastSent} /\ unlogged' \in BOOLEAN /\ trouble' \in BOOLEAN
        /\ ~unlogged' => lastSent' = 0
        /\ UNCHANGED <<slot, frac, ran, token>>
    BY <1>6 DEF Sent, SentUnlogged, Pushed
  <2>2. RemindersTypeOK'
    BY <1>1, <1>4, <1>5, <2>1 DEF RemindersTypeOK
  <2>3. Logged'
    BY <2>1 DEF Logged, Never
  <2>4. Bursts'
    <3>1. CASE unlogged
      BY <1>4, <1>5, <2>1, <3>1 DEF Bursts
    <3>2. CASE ~unlogged
      BY <1>4, <1>5, <2>1, <3>2 DEF Bursts
    <3> QED BY <3>1, <3>2
  <2> QED BY <1>2, <1>3, <2>2, <2>3, <2>4
<1>7. CASE SentToNobody(r) \/ SendFails(r)
  <2>1. /\ UNCHANGED <<slot, frac, ran, pushed, unlogged, burst>>
        /\ lastSent' \in {0, lastSent} /\ trouble' \in BOOLEAN
    BY <1>7 DEF SentToNobody, SendFails
  <2>2. token' \in BOOLEAN
    BY <1>7 DEF SentToNobody, SendFails, RemindersTypeOK
  <2>3. RemindersTypeOK'
    BY <1>1, <1>4, <1>5, <2>1, <2>2 DEF RemindersTypeOK
  <2>4. Logged'
    BY <2>1, Periods DEF Logged, RemindersTypeOK, Never
  <2>5. Bursts'
    BY <1>5, <2>1 DEF Bursts
  <2> QED BY <1>2, <1>3, <2>3, <2>4, <2>5
<1> QED BY <1>6, <1>7 DEF Sends

LEMMA PatchSelectKeeps ==
    ASSUME RemindersInv, NEW q \in PatchRequests, NEW change \in Changes, PatchSelect(q, change)
    PROVE  RemindersInv'
<1> USE DEF RemindersInv, clock, tables, seen, PatchSelect
<1>1. /\ Read(prefs) \in PrefsRow /\ Read(prefs).reminders = prefs.reminders
      /\ Read(prefs).there = prefs.there
  BY Rows DEF RemindersTypeOK
<1>2. patch' \in [PatchRequests -> Patch]
  BY <1>1, Patches DEF RemindersTypeOK
<1>3. RemindersTypeOK'
  BY <1>2 DEF RemindersTypeOK
<1>4. Logged' /\ Bursts' /\ Obeyed' /\ Heeded'
  BY DEF Logged, Bursts, Obeyed, Heeded
<1>5. ASSUME NEW p \in PatchRequests PROVE Current(p)'
  BY <1>1 DEF Current, RemindersTypeOK
<1>6. /\ Read(prefs).enabled = prefs.enabled
      /\ prefs.reminders # "on" => prefs.enabled = Never
  BY Rows DEF RemindersTypeOK
<1>7. ASSUME NEW p \in PatchRequests PROVE SawFits(p)'
  BY <1>1, <1>6 DEF SawFits, RemindersTypeOK
<1> QED BY <1>3, <1>4, <1>5, <1>7

\* What a PATCH writes: a row whose reminders are set, as it asked for or as
\* it had read them.
LEMMA MergedRows ==
    ASSUME RemindersTypeOK, NEW q \in PatchRequests, patch[q] # Idle, SawFits(q)
    PROVE  /\ Merged(q) \in PrefsRow
           /\ Merged(q).reminders \in {"on", "off"}
           /\ Merged(q).reminders # "on" => Merged(q).enabled = Never
           /\ patch[q].change.reminders # "same" => Merged(q).reminders = patch[q].change.reminders
           /\ patch[q].change.reminders = "same" /\ patch[q].saw.reminders # "unset"
                => Merged(q).reminders = patch[q].saw.reminders
<1> DEFINE base == WithDefaults(patch[q].saw)
           change == patch[q].change
           reminders == IF change.reminders = "same" THEN base.reminders ELSE change.reminders
           time == IF change.time = Same THEN base.time ELSE change.time
           enabled == IF change.reminders = "off" THEN Never
                      ELSE IF reminders = "on" /\ base.enabled = Never THEN 0 ELSE base.enabled
<1>1. patch[q] \in Patch \ {Idle}
  BY DEF RemindersTypeOK
<1>2. patch[q].saw \in PrefsRow
  BY <1>1 DEF Patch
<1>3. base.reminders = "off" => base.enabled = Never
  BY <1>2 DEF WithDefaults, PrefsRow, SawFits
<1>4. /\ base \in PrefsRow /\ base.reminders \in {"on", "off"}
      /\ patch[q].saw.reminders # "unset" => base.reminders = patch[q].saw.reminders
  BY <1>2 DEF WithDefaults, PrefsRow
<1>5. change.reminders \in {"on", "off", "same"} /\ change.time \in Times \union {Same}
  BY <1>1, Patches
<1>6. Merged(q) = [base EXCEPT !.reminders = reminders, !.time = time, !.enabled = enabled]
  BY DEF Merged
<1> HIDE DEF base, change
<1>7. reminders \in {"on", "off"} /\ time \in Times /\ enabled \in Never..HalfPeriod
  BY <1>4, <1>5, Rows DEF PrefsRow
<1> HIDE DEF reminders, time, enabled
<1>8. /\ Merged(q) \in PrefsRow
      /\ Merged(q).reminders = reminders /\ Merged(q).enabled = enabled
  BY <1>4, <1>6, <1>7 DEF PrefsRow
<1> QED
  BY <1>4, <1>5, <1>7, <1>8, <1>3 DEF reminders, change, enabled

LEMMA PatchCommitKeeps ==
    ASSUME RemindersInv, NEW q \in PatchRequests, PatchCommit(q)
    PROVE  RemindersInv'
<1> USE DEF RemindersInv, clock
<1>1. /\ Merged(q) \in PrefsRow
      /\ Merged(q).reminders \in {"on", "off"}
      /\ Merged(q).reminders # "on" => Merged(q).enabled = Never
      /\ patch[q].change.reminders # "same" => Merged(q).reminders = patch[q].change.reminders
      /\ patch[q].change.reminders = "same" /\ patch[q].saw.reminders # "unset"
           => Merged(q).reminders = patch[q].saw.reminders
  BY MergedRows DEF PatchCommit
<1>2. /\ prefs' \in PrefsRow /\ prefs'.there /\ prefs'.reminders = Merged(q).reminders
      /\ prefs'.enabled = Merged(q).enabled
  BY <1>1, Rows DEF PatchCommit, PrefsRow, RemindersTypeOK
<1>3. ASSUME NEW p \in PatchRequests
      PROVE  /\ patch'[p] \in Patch
             /\ patch'[p] # Idle => patch'[p].outdated
             /\ patch'[p].saw \in {patch[p].saw, NoRow}
  <2>1. CASE p = q
    BY <2>1, Patches DEF PatchCommit, Idle
  <2>2. CASE p # q
    <3>1. patch'[p] = [patch[p] EXCEPT !.outdated = patch[p] # Idle]
      BY <2>2 DEF PatchCommit
    <3>2. patch[p] \in Patch
      BY DEF RemindersTypeOK
    <3>3. CASE patch[p] = Idle
      <4>1. patch'[p] = [Idle EXCEPT !.outdated = FALSE]
        BY <3>1, <3>3
      <4>2. patch'[p] = Idle
        BY <4>1 DEF Idle
      <4> QED BY <3>3, <4>2, Patches
    <3>4. CASE patch[p] # Idle
      <4>1. patch'[p] = [patch[p] EXCEPT !.outdated = TRUE]
        BY <3>1, <3>4
      <4> QED BY <3>2, <4>1 DEF Patch
    <3> QED BY <3>3, <3>4
  <2> QED BY <2>1, <2>2
<1>4. patch' = [p \in PatchRequests |-> patch'[p]]
  BY DEF PatchCommit
<1>5. patch' \in [PatchRequests -> Patch]
  <2> DEFINE f == patch'
  <2>1. f = [p \in PatchRequests |-> f[p]] /\ \A p \in PatchRequests : f[p] \in Patch
    BY <1>3, <1>4
  <2> HIDE DEF f
  <2>2. f \in [PatchRequests -> Patch]
    BY <2>1
  <2> QED BY <2>2 DEF f
<1>6. patch[q].change.reminders \in {"on", "off", "same"}
  BY Patches DEF RemindersTypeOK, PatchCommit
<1>7. wish' \in {"none", "on", "off"} /\ unsure' \in BOOLEAN /\ listed' \subseteq due
  BY <1>6 DEF PatchCommit, RemindersTypeOK
<1>8. RemindersTypeOK'
  BY <1>1, <1>2, <1>5, <1>7 DEF PatchCommit, RemindersTypeOK
<1>9. Logged' /\ Bursts'
  BY DEF PatchCommit, Logged, Bursts
<1>10. Obeyed'
  <2>1. CASE patch[q].change.reminders # "same"
    BY <1>1, <1>2, <2>1 DEF PatchCommit, Obeyed
  <2>2. CASE patch[q].change.reminders = "same"
    BY <1>1, <1>2, <2>2 DEF PatchCommit, Obeyed, Current
  <2> QED BY <2>1, <2>2
<1>11. Heeded'
  BY DEF PatchCommit, Heeded
<1>12. ASSUME NEW p \in PatchRequests PROVE Current(p)' /\ SawFits(p)'
  BY <1>2, <1>3, Rows DEF Current, SawFits
<1> QED BY <1>8, <1>9, <1>10, <1>11, <1>12

LEMMA PatchFailsKeeps ==
    ASSUME RemindersInv, NEW q \in PatchRequests, PatchFails(q)
    PROVE  RemindersInv'
<1> USE DEF RemindersInv, clock, tables, seen, PatchFails
<1>1. RemindersTypeOK'
  BY Patches DEF RemindersTypeOK
<1>2. Logged' /\ Bursts' /\ Obeyed' /\ Heeded'
  BY DEF Logged, Bursts, Obeyed, Heeded
<1>3. ASSUME NEW p \in PatchRequests PROVE Current(p)' /\ SawFits(p)'
  BY Rows DEF Current, SawFits, RemindersTypeOK, Idle
<1> QED BY <1>1, <1>2, <1>3

\* The other requests leave the reminders of a row that is there as they are.
LEMMA OthersKeep ==
    RemindersInv /\ ((\E zone \in Zones : UpsertTimezone(zone)) \/ RegisterToken \/ UnregisterToken)
        => RemindersInv'
<1> SUFFICES ASSUME RemindersInv,
                    (\E zone \in Zones : UpsertTimezone(zone)) \/ RegisterToken \/ UnregisterToken
             PROVE  RemindersInv'
  OBVIOUS
<1> USE DEF RemindersInv, clock
<1>1. /\ UNCHANGED <<clock, due, lastSent, patch, pushed, unlogged, burst, wish, unsure, listed>>
      /\ token' \in BOOLEAN /\ trouble' \in BOOLEAN
  BY DEF UpsertTimezone, RegisterToken, UnregisterToken, RemindersTypeOK, seen
<1>2. /\ prefs' \in PrefsRow
      /\ prefs'.reminders # "on" => prefs'.enabled = Never
      /\ prefs.there => prefs'.there /\ prefs'.reminders = prefs.reminders
      /\ ~prefs.there => prefs'.there \/ prefs' = prefs
  <2>1. CASE \E zone \in Zones : UpsertTimezone(zone)
    BY <2>1, Rows DEF UpsertTimezone, RemindersTypeOK, PrefsRow
  <2>2. CASE RegisterToken
    <3>1. [NoRow EXCEPT !.there = TRUE, !.reminders = "on", !.updated = 0] \in PrefsRow
      BY Rows DEF PrefsRow
    <3>2. /\ [NoRow EXCEPT !.there = TRUE, !.reminders = "on", !.updated = 0].there
          /\ [NoRow EXCEPT !.there = TRUE, !.reminders = "on", !.updated = 0].reminders = "on"
      BY DEF NoRow
    <3> QED BY <2>2, <3>1, <3>2 DEF RegisterToken, RemindersTypeOK
  <2>3. CASE UnregisterToken
    BY <2>3 DEF UnregisterToken, RemindersTypeOK
  <2> QED BY <2>1, <2>2, <2>3
<1>3. RemindersTypeOK'
  BY <1>1, <1>2 DEF RemindersTypeOK
<1>4. Logged' /\ Bursts' /\ Heeded'
  BY <1>1 DEF Logged, Bursts, Heeded
<1>5. Obeyed'
  BY <1>1, <1>2 DEF Obeyed, RemindersTypeOK
<1>6. ASSUME NEW q \in PatchRequests PROVE SawFits(q)'
  BY <1>1, <1>2 DEF SawFits
<1>7. ASSUME NEW q \in PatchRequests PROVE Current(q)'
  <2>1. patch'[q] = patch[q]
    BY <1>1
  <2> QED BY <1>2, <2>1 DEF Current, SawFits
<1> QED BY <1>3, <1>4, <1>5, <1>6, <1>7

\* Ages grow together, up to their caps; that of the log is the larger.
LEMMA TickKeeps == RemindersInv /\ Tick => RemindersInv'
<1> SUFFICES ASSUME RemindersInv, Tick PROVE RemindersInv'
  OBVIOUS
<1> USE DEF RemindersInv, Tick
<1>1. /\ prefs' \in PrefsRow
      /\ prefs'.reminders = prefs.reminders /\ prefs'.there = prefs.there
      /\ prefs'.enabled = Never <=> prefs.enabled = Never
  BY OlderRows DEF RemindersTypeOK
<1>2. /\ lastSent \in Never..Latest + 1 /\ pushed \in Never..FullPeriod
      /\ Latest + 1 \in Nat /\ FullPeriod \in Nat
  BY Periods DEF RemindersTypeOK
<1>3. /\ lastSent' \in Never..Latest + 1
      /\ lastSent' = Never <=> lastSent = Never
      /\ lastSent' >= lastSent
      /\ lastSent' = lastSent + 1 \/ lastSent = Latest + 1 \/ lastSent = Never
  BY <1>2, Ages
<1>4. /\ pushed' \in Never..FullPeriod
      /\ pushed' = Never <=> pushed = Never
      /\ pushed' >= pushed
      /\ pushed' = pushed + 1 \/ pushed = FullPeriod \/ pushed = Never
  BY <1>2, Ages
<1>5. ASSUME NEW q \in PatchRequests
      PROVE  /\ patch[q] \in Patch /\ patch'[q] \in Patch
             /\ patch'[q].change = patch[q].change /\ patch'[q].outdated = patch[q].outdated
             /\ patch'[q].saw.reminders = patch[q].saw.reminders
             /\ patch'[q].saw.there = patch[q].saw.there
             /\ patch'[q].saw.enabled = Never <=> patch[q].saw.enabled = Never
  <2>1. patch[q] \in Patch
    BY DEF RemindersTypeOK
  <2>2. patch[q].saw \in PrefsRow
    BY <2>1 DEF Patch
  <2>3. patch'[q] = [patch[q] EXCEPT !.saw = OlderRow(patch[q].saw)]
    OBVIOUS
  <2> QED BY <2>1, <2>2, <2>3, OlderRows DEF Patch
<1>6. patch' \in [PatchRequests -> Patch]
  <2>1. \A q \in PatchRequests : [patch[q] EXCEPT !.saw = OlderRow(@)] \in Patch
    BY <1>5
  <2> QED BY <2>1
<1>7. slot' \in 0..SlotsPerDay - 1 /\ frac' \in 0..Moments - 1
  <2>1. slot \in 0..SlotsPerDay - 1 /\ frac \in 0..Moments - 1
    BY DEF RemindersTypeOK
  <2>2. (slot + 1) % SlotsPerDay \in 0..SlotsPerDay - 1 /\ (frac + 1) % Moments \in 0..Moments - 1
    BY <2>1, ReminderAssumption
  <2> QED BY <2>1, <2>2
<1>8. RemindersTypeOK'
  BY <1>1, <1>3, <1>4, <1>6, <1>7 DEF RemindersTypeOK
<1>9. Logged'
  <2>1. unlogged' = unlogged
    OBVIOUS
  <2> QED BY <1>2, <1>3, <1>4, <2>1, Periods DEF Logged, Never
<1>10. Bursts'
  <2>1. burst \in Nat /\ burst' = IF pushed' = FullPeriod THEN 0 ELSE burst
    BY DEF RemindersTypeOK
  <2>2. Cardinality(due) \in Nat /\ Cardinality(due) <= Cardinality(Runs) /\ Cardinality(Runs) \in Nat
    <3>1. due \in SUBSET Runs
      BY DEF RemindersTypeOK
    <3> QED BY <3>1, Counts
  <2>3. UNCHANGED <<due, unlogged>>
    OBVIOUS
  <2> QED BY <1>4, <2>1, <2>2, <2>3 DEF Bursts
<1>11. Obeyed' /\ Heeded'
  BY <1>1 DEF Obeyed, Heeded
<1>12. ASSUME NEW q \in PatchRequests PROVE SawFits(q)'
  BY <1>1, <1>5 DEF SawFits
<1>13. ASSUME NEW q \in PatchRequests PROVE Current(q)'
  <2> SUFFICES ASSUME patch'[q] # Idle, ~patch'[q].outdated
               PROVE  patch'[q].saw.reminders = prefs'.reminders \/ (~patch'[q].saw.there /\ prefs'.there)
    BY DEF Current
  <2>1. CASE patch[q] # Idle
    BY <1>1, <1>5, <2>1 DEF Current
  <2>2. CASE patch[q] = Idle
    <3>1. OlderRow(NoRow) = NoRow
      BY DEF OlderRow, NoRow, Older
    <3>2. patch'[q] = [Idle EXCEPT !.saw = NoRow]
      BY <2>2, <3>1 DEF Idle
    <3>3. patch'[q] = Idle
      BY <3>2 DEF Idle
    <3> QED BY <3>3
  <2> QED BY <2>1, <2>2
<1> QED BY <1>8, <1>9, <1>10, <1>11, <1>12, <1>13

LEMMA StepHolds == RemindersInv /\ [RemindersNext]_reminderVars => RemindersInv'
<1> SUFFICES ASSUME RemindersInv, [RemindersNext]_reminderVars PROVE RemindersInv'
  OBVIOUS
<1>1. CASE Tick
  BY <1>1, TickKeeps
<1>2. CASE Job
  BY <1>2, QueryKeeps, SendingKeeps DEF Job
<1>3. ASSUME NEW q \in PatchRequests,
             (\E change \in Changes : PatchSelect(q, change)) \/ PatchCommit(q) \/ PatchFails(q)
      PROVE  RemindersInv'
  BY <1>3, PatchSelectKeeps, PatchCommitKeeps, PatchFailsKeeps
<1>4. CASE (\E zone \in Zones : UpsertTimezone(zone)) \/ RegisterToken \/ UnregisterToken
  BY <1>4, OthersKeep
<1>5. CASE UNCHANGED reminderVars
  BY <1>5 DEF reminderVars, clock, tables, seen, RemindersInv, RemindersTypeOK, Logged, Bursts,
              Current, SawFits, Obeyed, Heeded
<1> QED BY <1>1, <1>2, <1>3, <1>4, <1>5 DEF RemindersNext

\* RemindersInv holds for ever, in every interleaving of the job, its failures,
\* PATCHes, the app's starts and time.
THEOREM RemindersInvariance == RemindersSpec => []RemindersInv
<1> QED BY InitHolds, StepHolds, PTL DEF RemindersSpec

(***************************************************************************)
(* Theorems                                                                *)
(***************************************************************************)
\* The type invariant: what a PATCH holds is a row, and reminders are enabled
\* since some time only when they are on.
THEOREM ReminderTypes == RemindersSpec => []RemindersTypeOK
<1> QED BY RemindersInvariance, PTL DEF RemindersInv

\* However many runs overlap: pushes within a period of each other are at most
\* as many as these runs, until one is not logged (SpacedOut).  The log is at
\* least as recent as the latest push, so that who pushes had listed the user
\* before the first of them.
THEOREM Spacing == RemindersSpec => []SpacedOut
<1>1. RemindersInv => SpacedOut
  BY DEF RemindersInv, Bursts, SpacedOut
<1> QED BY <1>1, RemindersInvariance, PTL

\* Who turned reminders off is not reminded, but from a list made before, or
\* after a PATCH wrote back what it had read before (OffMeansOff).
THEOREM OffIsOff == RemindersSpec => OffMeansOff
<1>1. RemindersInv /\ [RemindersNext]_reminderVars
        => [\A r \in due \ due' : pushed' = 0 => wish # "off" \/ unsure \/ r \in listed]_reminderVars
  BY DEF RemindersInv, Heeded
<1> QED BY <1>1, RemindersInvariance, PTL DEF RemindersSpec, OffMeansOff

(***************************************************************************)
(* Arithmetic of the clock                                                 *)
(***************************************************************************)
\* What div and mod are.
LEMMA Division ==
    ASSUME NEW D \in Nat \ {0}, NEW k \in Int
    PROVE  k \div D \in Int /\ k % D \in 0..D - 1 /\ k = D * (k \div D) + (k % D)
OBVIOUS

\* No multiple of D but 0 is nearer to 0 than D.
LEMMA Multiples ==
    ASSUME NEW D \in Nat \ {0}, NEW n \in Int, NEW x \in Int, x = D * n, x < D, -D < x
    PROVE  n = 0
<1>1. CASE n >= 1
  <2>1. D * (n - 1) >= 0
    BY <1>1
  <2>2. D * n = D * (n - 1) + D
    OBVIOUS
  <2> QED BY <2>1, <2>2
<1>2. CASE n <= -1
  <2>1. D * (-1 - n) >= 0
    BY <1>2
  <2>2. D * (-1 - n) = -D - D * n
    OBVIOUS
  <2> QED BY <2>1, <2>2
<1> QED BY <1>1, <1>2

\* A remainder is the one number below D that leaves a multiple.
LEMMA SameRemainder ==
    ASSUME NEW D \in Nat \ {0}, NEW k \in Int, NEW n \in Int, NEW r \in 0..D - 1, k = D * n + r
    PROVE  k % D = r
<1> DEFINE m == k \div D
           s == k % D
<1>1. m \in Int /\ s \in 0..D - 1 /\ k = D * m + s
  BY Division
<1> HIDE DEF m, s
<1>2. r - s = D * (m - n)
  <2>1. D * (m - n) = D * m - D * n
    BY <1>1
  <2> QED BY <1>1, <2>1
<1>3. m - n = 0
  BY <1>1, <1>2, Multiples
<1>4. D * (m - n) = 0
  BY <1>3
<1>5. s = r
  BY <1>1, <1>2, <1>4
<1> QED BY <1>5 DEF s

\* Times that are less than W apart on a clock of D minutes, in either
\* direction, are so by the query's distance too.
LEMMA NearOnTheClock ==
    ASSUME NEW D \in Nat \ {0}, NEW k \in Int, NEW t \in Int, NEW W \in Nat,
           (k - t) % D < W \/ D - ((k - t) % D) < W
    PROVE  LET a == k % D
               d == IF a > t THEN a - t ELSE t - a
           IN  (IF d < D - d THEN d ELSE D - d) < W
<1>1. PICK m \in Int, a \in 0..D - 1 : a = k % D /\ k = D * m + a
  BY Division
<1>2. PICK n \in Int, ahead \in 0..D - 1 : ahead = (k - t) % D /\ k - t = D * n + ahead
  <2>1. k - t \in Int
    OBVIOUS
  <2> QED BY <2>1, Division
<1>3. ahead < W \/ D - ahead < W
  BY <1>2
<1>4. SUFFICES LET d == IF a > t THEN a - t ELSE t - a
               IN  (IF d < D - d THEN d ELSE D - d) < W
  BY <1>1
<1>5. a - t = D * (n - m) + ahead
  <2>1. D * (n - m) = D * n - D * m
    OBVIOUS
  <2>2. k = D * m + a /\ k - t = D * n + ahead
    BY <1>1, <1>2
  <2>3. D * m \in Int /\ D * n \in Int
    OBVIOUS
  <2> QED BY <2>1, <2>2, <2>3
<1>6. PICK p \in Int : p = n - m
  OBVIOUS
<1>7. CASE p = 0
  <2>1. a - t = ahead
    BY <1>5, <1>6, <1>7
  <2> QED BY <1>3, <2>1
<1>8. CASE p = -1
  <2>1. a - t = ahead - D
    BY <1>5, <1>6, <1>8
  <2> QED BY <1>3, <2>1
<1>9. CASE p >= 1
  <2>1. D * (p - 1) >= 0 /\ D * p = D * (p - 1) + D
    BY <1>9
  <2>2. a - t >= D
    BY <1>5, <1>6, <2>1
  <2> QED BY <1>3, <2>2
<1>10. CASE p <= -2
  <2>1. D * (-2 - p) >= 0 /\ D * (-2 - p) = -2 * D - D * p
    BY <1>10
  <2>2. t - a >= D
    BY <1>5, <1>6, <2>1
  <2> QED BY <1>3, <2>2
<1> QED BY <1>7, <1>8, <1>9, <1>10

\* Counting up to N and from 0 again.
LEMMA NextInTurn ==
    ASSUME NEW N \in Nat \ {0}, NEW k \in 0..N - 1
    PROVE  (k + 1) % N = IF k = N - 1 THEN 0 ELSE k + 1
<1>1. CASE k = N - 1
  <2>1. k + 1 = N * 1 + 0
    BY <1>1
  <2> QED BY <1>1, <2>1, SameRemainder
<1>2. CASE k # N - 1
  <2>1. k + 1 = N * 0 + (k + 1) /\ k + 1 \in 0..N - 1
    BY <1>2
  <2> QED BY <1>2, <2>1, SameRemainder
<1> QED BY <1>1, <1>2

(***************************************************************************)
(* Reminders in time.  While nothing troubles the reminders, every run     *)
(* since the latest one made its query; one in a slot that covers the      *)
(* preferred time finds the user as soon as the period is over.            *)
(***************************************************************************)
Near(s) == MinutesApart((s * RunEvery + prefs.zone) % Day, prefs.time) < Window

\* Slots that ended since slot s last ended.
SlotsSince(s) == IF slot > s THEN slot - s - 1 ELSE slot - s - 1 + SlotsPerDay

MomentsSince(s) == SlotsSince(s) * Moments + frac

Calm == lastSent # Never /\ prefs.reminders = "on" /\ ~trouble

\* When a covered slot last began, the period was not over, or a reminder has
\* been logged since.
Punctual(s) == Calm /\ Near(s) => lastSent <= FullPeriod + Moments + MomentsSince(s)

\* A run that made its query and has nobody to send to came before the period
\* was over.
NothingDue == Calm /\ Near(slot) /\ ran /\ due = {} => lastSent <= FullPeriod + frac

InTimeInv == NothingDue /\ \A s \in 0..SlotsPerDay - 1 : Punctual(s)

\* The types of what is counted here.
LEMMA CountTypes ==
    ASSUME RemindersTypeOK, NEW s \in 0..SlotsPerDay - 1
    PROVE  /\ slot \in 0..SlotsPerDay - 1 /\ frac \in 0..Moments - 1
           /\ lastSent \in Never..Latest + 1
           /\ SlotsSince(s) \in 0..SlotsPerDay - 1
           /\ SlotsSince(s) * Moments \in Nat /\ MomentsSince(s) \in Nat
           /\ MomentsSince(s) <= DayMoments - 1
<1>1. slot \in 0..SlotsPerDay - 1 /\ frac \in 0..Moments - 1 /\ lastSent \in Never..Latest + 1
  BY DEF RemindersTypeOK
<1>2. SlotsSince(s) \in 0..SlotsPerDay - 1
  BY <1>1, ReminderAssumption DEF SlotsSince
<1>3. PICK n \in 0..SlotsPerDay - 1 : n = SlotsSince(s)
  BY <1>2
<1>4. n * Moments \in Nat /\ n * Moments + Moments <= DayMoments
  <2>1. (SlotsPerDay - 1 - n) * Moments >= 0
    BY ReminderAssumption
  <2>2. (SlotsPerDay - 1 - n) * Moments = SlotsPerDay * Moments - Moments - n * Moments
    BY ReminderAssumption
  <2>3. n * Moments \in Nat
    BY ReminderAssumption
  <2> QED BY <2>1, <2>2, <2>3, ReminderAssumption DEF DayMoments
<1>5. MomentsSince(s) = n * Moments + frac
  BY <1>3 DEF MomentsSince
<1>6. PICK x \in Nat : x = n * Moments
  BY <1>4
<1>7. x + Moments <= DayMoments /\ DayMoments \in Nat /\ MomentsSince(s) = x + frac
  BY <1>4, <1>5, <1>6, Periods
<1>8. MomentsSince(s) \in Nat /\ MomentsSince(s) <= DayMoments - 1
  BY <1>1, <1>7, ReminderAssumption
<1>9. SlotsSince(s) * Moments \in Nat
  BY <1>3, <1>4
<1> QED BY <1>1, <1>2, <1>8, <1>9

\* A moment counts for each slot but the one that ends with it.
LEMMA MomentsPass ==
    ASSUME RemindersTypeOK, Tick, NEW s \in 0..SlotsPerDay - 1
    PROVE  MomentsSince(s)' = IF frac = Moments - 1 /\ slot = s THEN 0 ELSE MomentsSince(s) + 1
<1>1. /\ slot \in 0..SlotsPerDay - 1 /\ frac \in 0..Moments - 1
      /\ SlotsSince(s) \in 0..SlotsPerDay - 1 /\ SlotsSince(s) * Moments \in Nat
  BY CountTypes
<1>2. CASE frac # Moments - 1
  <2>1. slot' = slot /\ frac' = frac + 1
    BY <1>1, <1>2, NextInTurn, ReminderAssumption DEF Tick
  <2> QED BY <1>1, <1>2, <2>1 DEF MomentsSince, SlotsSince
<1>3. CASE frac = Moments - 1
  <2>1. frac' = 0 /\ slot' = IF slot = SlotsPerDay - 1 THEN 0 ELSE slot + 1
    BY <1>1, <1>3, NextInTurn, ReminderAssumption DEF Tick
  <2>2. CASE slot = s
    <3>1. SlotsSince(s)' = 0
      BY <1>1, <2>1, <2>2, ReminderAssumption DEF SlotsSince
    <3> QED BY <1>3, <2>1, <2>2, <3>1, ReminderAssumption DEF MomentsSince
  <2>3. CASE slot # s
    <3>1. SlotsSince(s)' = SlotsSince(s) + 1
      BY <1>1, <2>1, <2>3, ReminderAssumption DEF SlotsSince
    <3>2. (SlotsSince(s) + 1) * Moments = SlotsSince(s) * Moments + Moments
      BY <1>1, ReminderAssumption
    <3> QED BY <1>1, <1>3, <2>1, <2>3, <3>1, <3>2, ReminderAssumption DEF MomentsSince
  <2> QED BY <2>2, <2>3
<1> QED BY <1>2, <1>3

LEMMA InTimeTick ==
    ASSUME RemindersInv, InTimeInv, Tick
    PROVE  InTimeInv'
<1>1. RemindersTypeOK
  BY DEF RemindersInv
<1>2. /\ slot \in 0..SlotsPerDay - 1 /\ frac \in 0..Moments - 1 /\ lastSent \in Never..Latest + 1
      /\ FullPeriod \in Nat /\ Latest \in Nat /\ Moments \in Nat \ {0}
  BY <1>1, Periods, ReminderAssumption DEF RemindersTypeOK
<1>3. /\ prefs'.reminders = prefs.reminders /\ prefs'.zone = prefs.zone
      /\ prefs'.time = prefs.time
  BY <1>1 DEF Tick, OlderRow, PrefsRow, RemindersTypeOK
<1>4. /\ lastSent' \in Never..Latest + 1 /\ lastSent' <= lastSent + 1
      /\ lastSent' = Never <=> lastSent = Never
  <2>1. Latest + 1 \in Nat /\ lastSent' = Older(lastSent, Latest + 1)
    BY <1>2 DEF Tick
  <2>2. /\ lastSent' \in Never..Latest + 1
        /\ lastSent' = Never <=> lastSent = Never
        /\ lastSent' = lastSent + 1 \/ lastSent' = lastSent
    BY <1>2, <2>1 DEF Older, Never
  <2> QED BY <1>2, <2>2 DEF Never
<1>5. trouble' = FALSE => trouble = FALSE
  BY <1>1 DEF Tick, RemindersTypeOK
<1>6. trouble' \in BOOLEAN /\ trouble \in BOOLEAN
  BY <1>1 DEF Tick, RemindersTypeOK
<1>7. (Calm' => Calm) /\ \A s : Near(s)' <=> Near(s)
  BY <1>3, <1>4, <1>5, <1>6 DEF Calm, Near
<1>8. NothingDue'
  <2>1. SUFFICES ASSUME Calm', Near(slot)', ran', due' = {}
                 PROVE  lastSent' <= FullPeriod + frac'
    BY DEF NothingDue
  <2>2. frac # Moments - 1
    BY <2>1 DEF Tick
  <2>3. slot' = slot /\ frac' = frac + 1 /\ ran' = ran /\ due' = due
    BY <1>2, <2>2, NextInTurn DEF Tick
  <2>4. Near(slot)
    BY <1>3, <2>1, <2>3 DEF Near
  <2>5. lastSent <= FullPeriod + frac
    BY <1>7, <2>1, <2>3, <2>4 DEF InTimeInv, NothingDue
  <2> QED BY <1>2, <1>4, <2>3, <2>5 DEF Never
<1>9. ASSUME NEW s \in 0..SlotsPerDay - 1
      PROVE  Punctual(s)'
  <2>1. SUFFICES ASSUME Calm', Near(s)'
                 PROVE  lastSent' <= FullPeriod + Moments + MomentsSince(s)'
    BY DEF Punctual
  <2>2. Calm /\ Near(s)
    BY <1>7, <2>1
  <2>3. MomentsSince(s) \in Nat
    BY <1>1, CountTypes
  \* The slot ends, its query made and its list dealt with.
  <2>4. CASE frac = Moments - 1 /\ slot = s
    <3>1. ran /\ due = {}
      BY <1>6, <2>1, <2>4 DEF Tick, Calm
    <3>2. lastSent <= FullPeriod + frac
      BY <2>2, <2>4, <3>1 DEF InTimeInv, NothingDue
    <3>3. MomentsSince(s)' = 0
      BY <1>1, <2>4, MomentsPass
    <3> QED BY <1>2, <1>4, <2>4, <3>2, <3>3 DEF Never
  <2>5. CASE ~(frac = Moments - 1 /\ slot = s)
    <3>1. MomentsSince(s)' = MomentsSince(s) + 1
      BY <1>1, <2>5, MomentsPass
    <3>2. lastSent <= FullPeriod + Moments + MomentsSince(s)
      BY <2>2 DEF InTimeInv, Punctual
    <3> QED BY <1>2, <1>4, <2>3, <3>1, <3>2 DEF Never
  <2> QED BY <2>4, <2>5
<1> QED BY <1>8, <1>9 DEF InTimeInv

\* The query, and whatever becomes of the list.
LEMMA InTimeJob ==
    ASSUME RemindersInv, InTimeInv, Job
    PROVE  InTimeInv'
<1>1. RemindersTypeOK
  BY DEF RemindersInv
<1>2. /\ slot \in 0..SlotsPerDay - 1 /\ frac \in 0..Moments - 1 /\ lastSent \in Never..Latest + 1
      /\ FullPeriod \in Nat /\ Moments \in Nat \ {0}
      /\ \A s \in 0..SlotsPerDay - 1 : MomentsSince(s) \in Nat
  BY <1>1, CountTypes, Periods, ReminderAssumption DEF RemindersTypeOK
<1>3. UNCHANGED <<slot, frac, prefs>>
  BY DEF Job, Sends, Query, Sent, SentToNobody, SendFails, SentUnlogged, clock, tables
<1>4. \A s : Near(s)' <=> Near(s)
  BY <1>3 DEF Near
<1>5. \A s \in 0..SlotsPerDay - 1 : MomentsSince(s)' = MomentsSince(s)
  BY <1>3 DEF MomentsSince, SlotsSince
<1>6. ASSUME NEW r \in Runs, Query(r) PROVE InTimeInv'
  <2>1. lastSent' = lastSent /\ trouble' = trouble
    BY <1>6 DEF Query, tables, seen
  <2>2. NothingDue'
    <3>1. SUFFICES ASSUME Calm, Near(slot), due' = {}
                   PROVE  lastSent <= FullPeriod + frac
      BY <1>3, <1>4, <2>1 DEF NothingDue, Calm
    <3>2. InWindow(prefs.zone, prefs.time)
      BY <3>1 DEF Near, InWindow
    <3>3. ~PeriodOver
      BY <1>6, <3>1, <3>2 DEF Query, Calm
    <3> QED BY <1>2, <3>1, <3>3 DEF PeriodOver, Calm, Never
  <2>3. \A s \in 0..SlotsPerDay - 1 : Punctual(s)'
    BY <1>3, <1>4, <1>5, <2>1 DEF InTimeInv, Punctual, Calm
  <2> QED BY <2>2, <2>3 DEF InTimeInv
<1>7. ASSUME NEW r \in Runs, Sent(r) \/ SentToNobody(r) PROVE InTimeInv'
  <2>1. lastSent' = 0
    BY <1>7 DEF Sent, SentToNobody
  <2> QED BY <1>2, <1>3, <1>5, <2>1 DEF InTimeInv, NothingDue, Punctual
<1>8. ASSUME NEW r \in Runs, SendFails(r) \/ SentUnlogged(r) PROVE InTimeInv'
  <2>1. trouble' = TRUE
    BY <1>8 DEF SendFails, SentUnlogged
  <2> QED BY <2>1 DEF InTimeInv, NothingDue, Punctual, Calm
<1> QED BY <1>6, <1>7, <1>8 DEF Job, Sends

LEMMA InTimeStep ==
    ASSUME RemindersInv, InTimeInv, [RemindersNext]_reminderVars
    PROVE  InTimeInv'
<1> USE DEF clock, tables, seen
<1>1. CASE Tick
  BY <1>1, InTimeTick
<1>2. CASE Job
  BY <1>2, InTimeJob
\* A change of the preferences is a trouble.
<1>3. CASE \/ \E q \in PatchRequests : PatchCommit(q)
           \/ \E zone \in Zones : UpsertTimezone(zone)
           \/ RegisterToken
  <2>1. trouble' = TRUE
    BY <1>3 DEF PatchCommit, UpsertTimezone, RegisterToken
  <2> QED BY <2>1 DEF InTimeInv, NothingDue, Punctual, Calm
<1>4. CASE \/ \E q \in PatchRequests : (\E change \in Changes : PatchSelect(q, change)) \/ PatchFails(q)
           \/ UnregisterToken
           \/ UNCHANGED reminderVars
  <2>1. UNCHANGED <<slot, frac, ran, due, prefs, lastSent, trouble>>
    BY <1>4 DEF PatchSelect, PatchFails, UnregisterToken, reminderVars
  <2> QED BY <2>1 DEF InTimeInv, NothingDue, Punctual, Calm, Near, MomentsSince, SlotsSince
<1> QED BY <1>1, <1>2, <1>3, <1>4 DEF RemindersNext

LEMMA InTimeInit == RemindersInit => InTimeInv
BY DEF RemindersInit, InTimeInv, NothingDue, Punctual, Calm

\* A covered slot is one whose query finds the user.
LEMMA CoveredSlot ==
    ASSUME RemindersTypeOK, Covered
    PROVE  \E s \in 0..SlotsPerDay - 1 : Near(s)
<1>1. PICK s \in 0..SlotsPerDay - 1 :
        \/ (s * RunEvery + prefs.zone - prefs.time) % Day < Window
        \/ Day - ((s * RunEvery + prefs.zone - prefs.time) % Day) < Window
  BY DEF Covered
<1>2. Day \in Nat \ {0} /\ prefs.zone \in Int /\ prefs.time \in Int /\ Window \in Nat
  <2>1. Day \in Nat \ {0}
    <3>1. (SlotsPerDay - 1) * RunEvery >= 0
      BY ReminderAssumption
    <3>2. SlotsPerDay * RunEvery = (SlotsPerDay - 1) * RunEvery + RunEvery
      BY ReminderAssumption
    <3> QED BY <3>1, <3>2, ReminderAssumption DEF Day
  <2>2. prefs.zone \in Zones /\ prefs.time \in Times
    BY DEF RemindersTypeOK, PrefsRow
  <2>3. prefs.zone \in Int
    BY <2>2, ReminderAssumption
  <2>4. prefs.time \in Int
    <3>1. Times \subseteq Nat
      BY ReminderAssumption
    <3>2. prefs.time \in Nat
      BY <2>2, <3>1
    <3> QED BY <3>2
  <2> QED BY <2>1, <2>3, <2>4, ReminderAssumption
<1>3. s * RunEvery + prefs.zone \in Int
  <2>1. s * RunEvery \in Int
    BY ReminderAssumption
  <2> QED BY <1>2, <2>1
<1>4. MinutesApart((s * RunEvery + prefs.zone) % Day, prefs.time) < Window
  <2>1. \A k \in Int : \/ (k - prefs.time) % Day < Window
                       \/ Day - ((k - prefs.time) % Day) < Window
                       => MinutesApart(k % Day, prefs.time) < Window
    BY <1>2, NearOnTheClock DEF MinutesApart
  <2>2. \A a, b, c \in Int : a + b - c = (a + b) - c
    OBVIOUS
  <2>3. s * RunEvery + prefs.zone - prefs.time = (s * RunEvery + prefs.zone) - prefs.time
    <3>1. s * RunEvery \in Int
      BY ReminderAssumption
    <3> QED BY <1>2, <2>2, <3>1, Zenon
  <2>4. \/ ((s * RunEvery + prefs.zone) - prefs.time) % Day < Window
        \/ Day - (((s * RunEvery + prefs.zone) - prefs.time) % Day) < Window
    BY <1>1, <2>3, Zenon
  <2> QED BY <1>3, <2>1, <2>4, Zenon
<1> QED BY <1>4 DEF Near

\* Once reminded, and with no missed run, failure or change since, the user is
\* reminded again within a period, a day and a slot, in every zone and at every
\* preferred time that some run covers.
THEOREM InTime == RemindersSpec => []RemindersInTime
<1>1. ASSUME RemindersInv, InTimeInv PROVE RemindersInTime
  <2>1. SUFFICES ASSUME Calm, Covered PROVE lastSent <= Latest
    BY DEF RemindersInTime, Calm
  <2>2. PICK s \in 0..SlotsPerDay - 1 : Near(s)
    BY <1>1, <2>1, CoveredSlot DEF RemindersInv
  <2>3. lastSent <= FullPeriod + Moments + MomentsSince(s)
    BY <1>1, <2>1, <2>2 DEF InTimeInv, Punctual
  <2>4. /\ MomentsSince(s) \in Nat /\ MomentsSince(s) <= DayMoments - 1
        /\ lastSent \in Never..Latest + 1
    BY <1>1, CountTypes DEF RemindersInv
  <2> QED BY <2>3, <2>4, Periods, ReminderAssumption DEF Latest, Never
<1>2. InTimeInv /\ RemindersInv /\ [RemindersNext]_reminderVars => InTimeInv'
  BY InTimeStep
<1> QED BY <1>1, <1>2, InTimeInit, RemindersInvariance, PTL DEF RemindersSpec

=============================================================================
