----------------------- MODULE CacheCoalescingProofs -----------------------
(* CacheCoalescing implements SingleFlight, for any callers and values. *)
EXTENDS CacheCoalescing, TLAPS

(***************************************************************************)
(* The inductive invariant                                                 *)
(***************************************************************************)
\* What a request at a step has in hand, and may be answered with.
Fits(r, m) ==
    /\ r.step = "idle" <=> m = NotAsking
    /\ r.step \in {"idle", "getting", "joined", "rechecking", "calling"} => r.value = None
    /\ r.step \in {"got", "rechecked"} => r.value \in Values \union {None}
    /\ r.step \in {"storing", "stored"} => r.value \in Values
    /\ r.step = "got" /\ r.value # None => r.value \in m
    /\ r.step = "told" => r.value \in m

AllFit == \A c \in Callers : Fits(caller[c], may[c])

\* The map names the one request that leads.
OneLeader == \A c \in Callers : caller[c].step \in Leading <=> inFlight = c

\* A leader that found no value has none beside it.
Lacks(r) == r.step \in {"calling", "storing"} \/ (r.step = "rechecked" /\ r.value = None)
NothingYet == \A c \in Callers : Lacks(caller[c]) => store = None

\* Who waits may be answered with what there is, and with what a leader brings.
Offered == \A d \in Callers : may[d] # NotAsking =>
    /\ store # None => store \in may[d]
    /\ \A c \in Callers : Carries(caller[c]) => caller[c].value \in may[d]

CacheInv == CacheTypeOK /\ AllFit /\ OneLeader /\ NothingYet /\ Offered

LEMMA CacheInitInv == CacheInit => CacheInv
  <1> SUFFICES ASSUME CacheInit PROVE CacheInv
    OBVIOUS
  <1>1. CacheTypeOK
    BY DEF CacheInit, CacheTypeOK, Resting, At, Caller, CallerSteps
  <1>2. AllFit
    BY DEF CacheInit, AllFit, Fits, Resting, At
  <1>3. OneLeader
    BY CacheAssumption DEF CacheInit, OneLeader, Leading, Resting, At
  <1>4. NothingYet /\ Offered
    BY DEF CacheInit, NothingYet, Lacks, Offered, Carries, Resting, At
  <1> QED  BY <1>1, <1>2, <1>3, <1>4 DEF CacheInv

LEMMA CacheStutterInv == CacheInv /\ UNCHANGED cacheVars => CacheInv'
  BY DEF CacheInv, CacheTypeOK, AllFit, Fits, OneLeader, NothingYet, Lacks, Offered, Carries, cacheVars

\* One request moves on, the others stay.
LEMMA Moves ==
    ASSUME CacheInv, NEW c \in Callers, NEW step \in CallerSteps,
           NEW v \in Values \union {None, Failure},
           caller' = [caller EXCEPT ![c] = At(step, v)]
    PROVE  /\ caller' \in [Callers -> Caller]
           /\ caller'[c] = At(step, v) /\ caller'[c].step = step /\ caller'[c].value = v
           /\ \A d \in Callers : d # c => caller'[d] = caller[d]
  <1>1. At(step, v) \in Caller
    BY DEF At, Caller
  <1> QED  BY <1>1 DEF CacheInv, CacheTypeOK, At

\* Steps in which one request moves on and nothing else changes.  It carries
\* only what is there, and lacks a value only where there is none.
LEMMA QuietMove ==
    ASSUME CacheInv, NEW c \in Callers, NEW step \in CallerSteps,
           NEW v \in Values \union {None, Failure},
           caller' = [caller EXCEPT ![c] = At(step, v)],
           UNCHANGED <<store, inFlight, may, answer>>,
           Fits(At(step, v), may[c]),
           step \in Leading <=> caller[c].step \in Leading,
           Lacks(At(step, v)) => store = None,
           Carries(At(step, v)) => v = store /\ store # None
    PROVE  CacheInv'
  <1>1. /\ caller' \in [Callers -> Caller]
        /\ caller'[c] = At(step, v) /\ caller'[c].step = step /\ caller'[c].value = v
        /\ \A d \in Callers : d # c => caller'[d] = caller[d]
    BY Moves
  <1>2. CacheTypeOK'
    BY <1>1 DEF CacheInv, CacheTypeOK
  <1>3. AllFit'
    <2> SUFFICES ASSUME NEW d \in Callers PROVE Fits(caller'[d], may'[d])
      BY DEF AllFit, Fits
    <2> QED  BY <1>1 DEF CacheInv, AllFit
  <1>4. OneLeader'
    BY <1>1 DEF CacheInv, OneLeader
  <1>5. NothingYet'
    <2> SUFFICES ASSUME NEW d \in Callers, Lacks(caller'[d]) PROVE store = None
      BY DEF NothingYet, Lacks
    <2> QED  BY <1>1 DEF CacheInv, NothingYet
  <1>6. Offered'
    <2> SUFFICES ASSUME NEW d \in Callers, may[d] # NotAsking
                 PROVE  /\ store # None => store \in may[d]
                        /\ \A e \in Callers : Carries(caller'[e]) => caller'[e].value \in may[d]
      BY DEF Offered, Carries
    <2>1. store # None => store \in may[d]
      BY DEF CacheInv, Offered
    <2>2. \A e \in Callers : Carries(caller'[e]) => caller'[e].value \in may[d]
      <3> SUFFICES ASSUME NEW e \in Callers, Carries(caller'[e]) PROVE caller'[e].value \in may[d]
        OBVIOUS
      <3>1. CASE e = c
        BY <1>1, <2>1, <3>1
      <3>2. CASE e # c
        BY <1>1, <3>2 DEF CacheInv, Offered
      <3> QED  BY <3>1, <3>2
    <2> QED  BY <2>1, <2>2
  <1> QED  BY <1>2, <1>3, <1>4, <1>5, <1>6 DEF CacheInv

\* Every request has a step, with what fits it.
LEMMA HasStep ==
    ASSUME CacheInv, NEW c \in Callers
    PROVE  /\ caller[c] \in Caller /\ caller[c].step \in CallerSteps
           /\ caller[c].value \in Values \union {None, Failure}
           /\ caller[c] = At(caller[c].step, caller[c].value)
           /\ Fits(caller[c], may[c])
           /\ store \in Values \union {None}
  BY DEF CacheInv, CacheTypeOK, AllFit, Caller, At

LEMMA GetInv == ASSUME CacheInv, NEW c \in Callers, Get(c) PROVE CacheInv'
  <1>1. /\ caller[c].step = "getting" /\ caller' = [caller EXCEPT ![c] = At("got", store)]
        /\ UNCHANGED <<store, inFlight, may, answer>>
        /\ "got" \in CallerSteps /\ store \in Values \union {None, Failure}
    BY HasStep DEF Get, CallerSteps
  <1>2. Fits(At("got", store), may[c])
    BY <1>1, HasStep DEF Fits, At, CacheInv, Offered
  <1>3. /\ "got" \in Leading <=> caller[c].step \in Leading
        /\ ~Lacks(At("got", store)) /\ ~Carries(At("got", store))
    BY <1>1 DEF Leading, Lacks, Carries, At
  <1> QED  BY <1>1, <1>2, <1>3, QuietMove

LEMMA JoinInv == ASSUME CacheInv, NEW c \in Callers, Join(c) PROVE CacheInv'
  <1>1. /\ caller[c].step = "got" /\ caller' = [caller EXCEPT ![c] = At("joined", None)]
        /\ UNCHANGED <<store, inFlight, may, answer>> /\ "joined" \in CallerSteps
    BY DEF Join, CallerSteps, At
  <1>2. Fits(At("joined", None), may[c])
    BY <1>1, HasStep DEF Fits, At
  <1>3. /\ "joined" \in Leading <=> caller[c].step \in Leading
        /\ ~Lacks(At("joined", None)) /\ ~Carries(At("joined", None))
    BY <1>1 DEF Leading, Lacks, Carries, At
  <1> QED  BY <1>1, <1>2, <1>3, QuietMove

LEMMA RecheckInv == ASSUME CacheInv, NEW c \in Callers, Recheck(c) PROVE CacheInv'
  <1>1. /\ caller[c].step = "rechecking" /\ caller' = [caller EXCEPT ![c] = At("rechecked", store)]
        /\ UNCHANGED <<store, inFlight, may, answer>>
        /\ "rechecked" \in CallerSteps /\ store \in Values \union {None, Failure}
    BY HasStep DEF Recheck, CallerSteps, Leading
  <1>2. Fits(At("rechecked", store), may[c])
    BY <1>1, HasStep DEF Fits, At
  <1>3. /\ "rechecked" \in Leading <=> caller[c].step \in Leading
        /\ Lacks(At("rechecked", store)) => store = None
        /\ Carries(At("rechecked", store)) => store # None
    BY <1>1 DEF Leading, Lacks, Carries, At
  <1> QED  BY <1>1, <1>2, <1>3, QuietMove

LEMMA CallFactoryInv == ASSUME CacheInv, NEW c \in Callers, CallFactory(c) PROVE CacheInv'
  <1>1. /\ caller[c].step = "rechecked" /\ caller[c].value = None
        /\ caller' = [caller EXCEPT ![c] = At("calling", None)]
        /\ UNCHANGED <<store, inFlight, may, answer>> /\ "calling" \in CallerSteps
    BY DEF CallFactory, CallerSteps, Leading, At
  <1>2. Fits(At("calling", None), may[c])
    BY <1>1, HasStep DEF Fits, At
  <1>3. store = None
    BY <1>1 DEF CacheInv, NothingYet, Lacks
  <1>4. /\ "calling" \in Leading <=> caller[c].step \in Leading
        /\ ~Carries(At("calling", None))
    BY <1>1 DEF Leading, Carries, At
  <1> QED  BY <1>1, <1>2, <1>3, <1>4, QuietMove

LEMMA FactoryReturnsInv ==
    ASSUME CacheInv, NEW c \in Callers, NEW v \in Values, FactoryReturns(c, v) PROVE CacheInv'
  <1>1. /\ caller[c].step = "calling" /\ caller' = [caller EXCEPT ![c] = At("storing", v)]
        /\ UNCHANGED <<store, inFlight, may, answer>> /\ "storing" \in CallerSteps
    BY DEF FactoryReturns, CallerSteps, Leading
  <1>2. Fits(At("storing", v), may[c])
    BY <1>1, HasStep DEF Fits, At
  <1>3. store = None
    BY <1>1 DEF CacheInv, NothingYet, Lacks
  <1>4. /\ "storing" \in Leading <=> caller[c].step \in Leading
        /\ ~Carries(At("storing", v))
    BY <1>1 DEF Leading, Carries, At
  <1> QED  BY <1>1, <1>2, <1>3, <1>4, QuietMove

(***************************************************************************)
(* Steps that ask, answer, lead, store and fail                            *)
(***************************************************************************)
LEMMA AskInv == ASSUME CacheInv, NEW c \in Callers, Ask(c) PROVE CacheInv'
  <1> DEFINE offer == ({store} \ {None}) \union Carried
  <1>1. /\ caller' = [caller EXCEPT ![c] = At("getting", None)]
        /\ may' = [may EXCEPT ![c] = offer] /\ caller[c].step = "idle"
        /\ UNCHANGED <<store, inFlight, answer>> /\ "getting" \in CallerSteps
    BY DEF Ask, CallerSteps, Resting, At
  <1>2. /\ caller' \in [Callers -> Caller]
        /\ caller'[c].step = "getting" /\ caller'[c].value = None
        /\ \A d \in Callers : d # c => caller'[d] = caller[d]
    BY <1>1, Moves
  <1>3. offer \subseteq Values
    BY HasStep DEF Carried, Carries, Fits
  <1>4. /\ may' \in [Callers -> (SUBSET (Values \union {Failure})) \union {NotAsking}]
        /\ may'[c] = offer /\ \A d \in Callers : d # c => may'[d] = may[d]
    BY <1>1, <1>3 DEF CacheInv, CacheTypeOK
  <1>5. offer # NotAsking
    BY <1>3, CacheAssumption DEF NotAsking
  <1>6. CacheTypeOK'
    BY <1>1, <1>2, <1>4 DEF CacheInv, CacheTypeOK
  <1>7. AllFit'
    <2> SUFFICES ASSUME NEW d \in Callers PROVE Fits(caller'[d], may'[d])
      BY DEF AllFit, Fits
    <2>1. CASE d = c
      BY <1>2, <1>4, <1>5, <2>1 DEF Fits
    <2>2. CASE d # c
      BY <1>2, <1>4, <2>2 DEF CacheInv, AllFit
    <2> QED  BY <2>1, <2>2
  <1>8. OneLeader'
    BY <1>1, <1>2 DEF CacheInv, OneLeader, Leading
  <1>9. \A d \in Callers : /\ Carries(caller'[d]) => Carries(caller[d]) /\ caller'[d] = caller[d]
                           /\ Lacks(caller'[d]) => Lacks(caller[d])
    BY <1>2 DEF Carries, Lacks
  <1>10. NothingYet'
    BY <1>1, <1>9 DEF CacheInv, NothingYet, Lacks
  <1>11. \A e \in Callers : Carries(caller[e]) => caller[e].value \in offer
    BY DEF Carried
  <1>12. store # None => store \in offer
    OBVIOUS
  <1> HIDE DEF offer
  <1>13. Offered'
    <2> SUFFICES ASSUME NEW d \in Callers, may'[d] # NotAsking
                 PROVE  /\ store # None => store \in may'[d]
                        /\ \A e \in Callers : Carries(caller'[e]) => caller'[e].value \in may'[d]
      BY <1>1 DEF Offered, Carries
    <2>1. CASE d = c
      BY <1>4, <1>9, <1>11, <1>12, <2>1
    <2>2. CASE d # c
      BY <1>4, <1>9, <2>2 DEF CacheInv, Offered
    <2> QED  BY <2>1, <2>2
  <1> QED  BY <1>6, <1>7, <1>8, <1>10, <1>13 DEF CacheInv

\* A request is answered: Hit and Reply.
LEMMA AnswerInv ==
    ASSUME CacheInv, NEW c \in Callers, caller[c].step \in {"got", "told"}, caller[c].value # None,
           caller' = [caller EXCEPT ![c] = Resting], AnswerWith(c, caller[c].value),
           UNCHANGED <<store, inFlight>>
    PROVE  CacheInv'
  <1>1. /\ caller' \in [Callers -> Caller]
        /\ caller'[c].step = "idle" /\ caller'[c].value = None
        /\ \A d \in Callers : d # c => caller'[d] = caller[d]
    BY Moves DEF Resting, CallerSteps
  <1>2. /\ may' \in [Callers -> (SUBSET (Values \union {Failure})) \union {NotAsking}]
        /\ may'[c] = NotAsking /\ \A d \in Callers : d # c => may'[d] = may[d]
    BY DEF AnswerWith, CacheInv, CacheTypeOK
  <1>3. CacheTypeOK'
    BY <1>1, <1>2, HasStep DEF CacheInv, CacheTypeOK, AnswerWith
  <1>4. AllFit'
    <2> SUFFICES ASSUME NEW d \in Callers PROVE Fits(caller'[d], may'[d])
      BY DEF AllFit, Fits
    <2>1. CASE d = c
      BY <1>1, <1>2, <2>1 DEF Fits
    <2>2. CASE d # c
      BY <1>1, <1>2, <2>2 DEF CacheInv, AllFit
    <2> QED  BY <2>1, <2>2
  <1>5. OneLeader'
    BY <1>1 DEF CacheInv, OneLeader, Leading
  <1>6. \A d \in Callers : /\ Carries(caller'[d]) => Carries(caller[d]) /\ caller'[d] = caller[d]
                           /\ Lacks(caller'[d]) => Lacks(caller[d])
    BY <1>1 DEF Carries, Lacks
  <1>7. NothingYet'
    BY <1>6 DEF CacheInv, NothingYet, Lacks
  <1>8. Offered'
    <2> SUFFICES ASSUME NEW d \in Callers, may'[d] # NotAsking
                 PROVE  /\ store # None => store \in may'[d]
                        /\ \A e \in Callers : Carries(caller'[e]) => caller'[e].value \in may'[d]
      BY DEF Offered, Carries
    <2>1. d # c
      BY <1>2
    <2> QED  BY <1>2, <1>6, <2>1 DEF CacheInv, Offered
  <1> QED  BY <1>3, <1>4, <1>5, <1>7, <1>8 DEF CacheInv

\* What a request has been told is a value or the failure.
LEMMA ToldSomething ==
    ASSUME CacheInv, NEW c \in Callers, caller[c].step = "told" PROVE caller[c].value # None
  <1>1. caller[c].value \in may[c] /\ may[c] # NotAsking
    BY HasStep DEF Fits
  <1>2. may[c] \subseteq Values \union {Failure}
    BY <1>1 DEF CacheInv, CacheTypeOK
  <1> QED  BY <1>1, <1>2, CacheAssumption

LEMMA LeadInv == ASSUME CacheInv, NEW c \in Callers, Lead(c) PROVE CacheInv'
  <1>1. /\ caller' = [caller EXCEPT ![c] = At("rechecking", None)]
        /\ caller[c].step = "got" /\ inFlight = None /\ inFlight' = c
        /\ UNCHANGED <<store, may, answer>> /\ "rechecking" \in CallerSteps
    BY DEF Lead, CallerSteps, Leading, At
  <1>2. /\ caller' \in [Callers -> Caller]
        /\ caller'[c].step = "rechecking" /\ caller'[c].value = None
        /\ \A d \in Callers : d # c => caller'[d] = caller[d]
    BY <1>1, Moves
  <1>3. CacheTypeOK'
    BY <1>1, <1>2 DEF CacheInv, CacheTypeOK
  <1>4. AllFit'
    <2> SUFFICES ASSUME NEW d \in Callers PROVE Fits(caller'[d], may[d])
      BY <1>1 DEF AllFit, Fits
    <2>1. CASE d = c
      BY <1>1, <1>2, <2>1, HasStep DEF Fits
    <2>2. CASE d # c
      BY <1>2, <2>2 DEF CacheInv, AllFit
    <2> QED  BY <2>1, <2>2
  <1>5. OneLeader'
    <2>1. \A d \in Callers : caller[d].step \notin Leading
      BY <1>1, CacheAssumption DEF CacheInv, OneLeader
    <2> QED  BY <1>1, <1>2, <2>1 DEF OneLeader, Leading
  <1>6. \A d \in Callers : /\ Carries(caller'[d]) => Carries(caller[d]) /\ caller'[d] = caller[d]
                           /\ Lacks(caller'[d]) => Lacks(caller[d])
    BY <1>2 DEF Carries, Lacks
  <1>7. NothingYet' /\ Offered'
    BY <1>1, <1>6 DEF CacheInv, NothingYet, Lacks, Offered, Carries
  <1> QED  BY <1>3, <1>4, <1>5, <1>7 DEF CacheInv

\* Everyone who asks may be answered with one thing more.
LEMMA Noticed ==
    ASSUME CacheInv, NEW v \in Values \union {Failure}, Notice(v)
    PROVE  /\ may' \in [Callers -> (SUBSET (Values \union {Failure})) \union {NotAsking}]
           /\ \A d \in Callers : /\ may'[d] = NotAsking <=> may[d] = NotAsking
                                 /\ may[d] # NotAsking => may'[d] = may[d] \union {v}
  <1>1. \A d \in Callers : may'[d] = IF may[d] = NotAsking THEN may[d] ELSE may[d] \union {v}
    BY DEF Notice
  <1>2. v # None
    BY CacheAssumption
  <1>3. \A d \in Callers : may[d] # NotAsking => may[d] \union {v} \in SUBSET (Values \union {Failure})
    BY DEF CacheInv, CacheTypeOK
  <1>4. \A d \in Callers : may[d] # NotAsking => may[d] \union {v} # NotAsking
    BY <1>2 DEF NotAsking
  <1>5. may' \in [Callers -> (SUBSET (Values \union {Failure})) \union {NotAsking}]
    BY <1>3 DEF Notice, CacheInv, CacheTypeOK
  <1> QED  BY <1>1, <1>4, <1>5

\* What fits goes on fitting with more to be answered with.
LEMMA FitsMore ==
    ASSUME NEW r, NEW m, NEW n, Fits(r, m), m \subseteq n, n = NotAsking <=> m = NotAsking
    PROVE  Fits(r, n)
  BY DEF Fits

LEMMA StoreInv == ASSUME CacheInv, NEW c \in Callers, Store(c) PROVE CacheInv'
  <1> DEFINE v == caller[c].value
  <1>1. /\ caller[c].step = "storing" /\ v \in Values
        /\ caller' = [caller EXCEPT ![c] = At("stored", v)]
        /\ store' = v /\ Notice(v) /\ UNCHANGED <<inFlight, answer>> /\ "stored" \in CallerSteps
    BY HasStep DEF Store, Fits, CallerSteps, Leading
  <1> HIDE DEF v
  <1>2. /\ caller' \in [Callers -> Caller]
        /\ caller'[c].step = "stored" /\ caller'[c].value = v
        /\ \A d \in Callers : d # c => caller'[d] = caller[d]
    BY <1>1, Moves
  <1>3. /\ may' \in [Callers -> (SUBSET (Values \union {Failure})) \union {NotAsking}]
        /\ \A d \in Callers : /\ may'[d] = NotAsking <=> may[d] = NotAsking
                              /\ may[d] # NotAsking => may'[d] = may[d] \union {v}
    BY <1>1, Noticed
  <1>4. CacheTypeOK'
    BY <1>1, <1>2, <1>3 DEF CacheInv, CacheTypeOK
  <1>5. AllFit'
    <2> SUFFICES ASSUME NEW d \in Callers PROVE Fits(caller'[d], may'[d])
      BY DEF AllFit, Fits
    <2>1. Fits(caller[d], may'[d])
      <3>1. may[d] \subseteq may'[d]
        BY <1>3
      <3> QED  BY <1>3, <3>1, FitsMore, HasStep
    <2>2. CASE d = c
      BY <1>1, <1>2, <2>1, <2>2 DEF Fits
    <2>3. CASE d # c
      BY <1>2, <2>1, <2>3
    <2> QED  BY <2>2, <2>3
  <1>6. OneLeader'
    BY <1>1, <1>2 DEF CacheInv, OneLeader, Leading
  <1>7. \A d \in Callers : d # c => caller[d].step \notin Leading
    BY <1>1 DEF CacheInv, OneLeader, Leading
  <1>8. NothingYet'
    <2> SUFFICES ASSUME NEW d \in Callers, Lacks(caller'[d]) PROVE FALSE
      BY DEF NothingYet, Lacks
    <2> QED  BY <1>2, <1>7 DEF Lacks, Leading
  <1>9. Offered'
    <2> SUFFICES ASSUME NEW d \in Callers, may'[d] # NotAsking
                 PROVE  /\ v \in may'[d]
                        /\ \A e \in Callers : Carries(caller'[e]) => caller'[e].value \in may'[d]
      BY <1>1 DEF Offered, Carries
    <2>1. v \in may'[d]
      BY <1>3
    <2>2. \A e \in Callers : Carries(caller'[e]) => e = c
      BY <1>2, <1>7 DEF Carries, Leading
    <2> QED  BY <1>2, <2>1, <2>2
  <1> QED  BY <1>4, <1>5, <1>6, <1>8, <1>9 DEF CacheInv

\* The leader's promise settles, and nobody leads any more.
LEMMA SettledInv ==
    ASSUME CacheInv, NEW c \in Callers, NEW a \in Values \union {Failure},
           caller[c].step \in Leading, Settled(c, a), UNCHANGED <<store, answer>>,
           may' \in [Callers -> (SUBSET (Values \union {Failure})) \union {NotAsking}],
           \A d \in Callers : /\ may'[d] = NotAsking <=> may[d] = NotAsking
                              /\ may[d] # NotAsking => may[d] \subseteq may'[d] /\ a \in may'[d]
    PROVE  CacheInv'
  <1>1. At("told", a) \in Caller
    BY DEF At, Caller, CallerSteps
  <1>2. /\ caller' \in [Callers -> Caller] /\ inFlight' = None
        /\ \A d \in Callers : caller'[d] = IF d = c \/ caller[d].step = "joined"
                                           THEN At("told", a) ELSE caller[d]
    BY <1>1 DEF Settled, CacheInv, CacheTypeOK
  <1>3. CacheTypeOK'
    BY <1>2 DEF CacheInv, CacheTypeOK
  <1>4. AllFit'
    <2> SUFFICES ASSUME NEW d \in Callers PROVE Fits(caller'[d], may'[d])
      BY DEF AllFit, Fits
    <2>1. CASE d = c \/ caller[d].step = "joined"
      <3>1. may[d] # NotAsking
        BY <2>1, HasStep DEF Fits, Leading
      <3> QED  BY <1>2, <2>1, <3>1 DEF Fits, At
    <2>2. CASE ~(d = c \/ caller[d].step = "joined")
      <3>1. may[d] \subseteq may'[d]
        OBVIOUS
      <3> QED  BY <1>2, <2>2, <3>1, FitsMore, HasStep
    <2> QED  BY <2>1, <2>2
  <1>5. \A d \in Callers : caller'[d].step \notin Leading
    BY <1>2 DEF CacheInv, OneLeader, Leading, At
  <1>6. OneLeader'
    BY <1>2, <1>5, CacheAssumption DEF OneLeader
  <1>7. \A d \in Callers : ~Lacks(caller'[d]) /\ ~Carries(caller'[d])
    BY <1>5 DEF Lacks, Carries, Leading
  <1>8. NothingYet'
    BY <1>7 DEF NothingYet, Lacks
  <1>9. Offered'
    <2> SUFFICES ASSUME NEW d \in Callers, may'[d] # NotAsking, store # None
                 PROVE  store \in may'[d]
      BY <1>7 DEF Offered, Carries
    <2> QED  BY DEF CacheInv, Offered
  <1> QED  BY <1>3, <1>4, <1>6, <1>8, <1>9 DEF CacheInv

LEMMA SettleInv == ASSUME CacheInv, NEW c \in Callers, Settle(c) PROVE CacheInv'
  <1>1. /\ Carries(caller[c]) /\ Settled(c, caller[c].value)
        /\ UNCHANGED <<store, may, answer>>
    BY DEF Settle
  <1>2. caller[c].step \in Leading /\ caller[c].value \in Values \union {Failure}
    BY <1>1, HasStep DEF Carries, Leading, Fits
  <1>3. \A d \in Callers : may[d] # NotAsking => caller[c].value \in may[d]
    BY <1>1 DEF CacheInv, Offered
  <1>4. may \in [Callers -> (SUBSET (Values \union {Failure})) \union {NotAsking}]
    BY DEF CacheInv, CacheTypeOK
  <1> QED  BY <1>1, <1>2, <1>3, <1>4, SettledInv

LEMMA CallFailsInv == ASSUME CacheInv, NEW c \in Callers, CallFails(c) PROVE CacheInv'
  <1>1. /\ caller[c].step \in Leading /\ Settled(c, Failure) /\ Notice(Failure)
        /\ UNCHANGED <<store, answer>> /\ Failure \in Values \union {Failure}
    BY DEF CallFails, Leading
  <1>2. /\ may' \in [Callers -> (SUBSET (Values \union {Failure})) \union {NotAsking}]
        /\ \A d \in Callers : /\ may'[d] = NotAsking <=> may[d] = NotAsking
                              /\ may[d] # NotAsking => may'[d] = may[d] \union {Failure}
    BY <1>1, Noticed
  <1>3. \A d \in Callers : may[d] # NotAsking => may[d] \subseteq may'[d] /\ Failure \in may'[d]
    BY <1>2
  <1> QED  BY <1>1, <1>2, <1>3, SettledInv

LEMMA ExpiresInv == CacheInv /\ Expire => CacheInv'
  BY DEF CacheInv, CacheTypeOK, AllFit, Fits, OneLeader, NothingYet, Lacks, Offered, Carries, Expire

LEMMA ResumeInv == ASSUME CacheInv, NEW c \in Callers, Resume(c) PROVE CacheInv'
  <1>1. CASE Hit(c)
    BY <1>1, AnswerInv DEF Hit
  <1>2. CASE Reply(c)
    BY <1>2, AnswerInv, ToldSomething DEF Reply
  <1> QED  BY <1>1, <1>2, GetInv, JoinInv, LeadInv, RecheckInv, CallFactoryInv,
              FactoryReturnsInv, StoreInv, SettleInv, CallFailsInv DEF Resume

LEMMA CacheNextInv == CacheInv /\ [CacheNext]_cacheVars => CacheInv'
  BY AskInv, ResumeInv, ExpiresInv, CacheStutterInv DEF CacheNext

THEOREM CacheInvariance == CacheSpec => []CacheInv
  BY CacheInitInv, CacheNextInv, PTL DEF CacheSpec

\* What is cached is a value, never a failure, and every request has a step.
THEOREM CacheTypes == CacheSpec => []CacheTypeOK
  <1>1. CacheInv => CacheTypeOK
    BY DEF CacheInv
  <1> QED  BY <1>1, CacheInvariance, PTL

(***************************************************************************)
(* The steps of SingleFlight                                               *)
(***************************************************************************)
Calling == \E c \in Callers : caller[c].step \in {"calling", "storing"}

\* When a request leads, it alone decides whether the factory runs and what is
\* carried.
LEMMA LeaderAlone ==
    ASSUME CacheInv, NEW c \in Callers, caller[c].step \in Leading
    PROVE  /\ Calling <=> caller[c].step \in {"calling", "storing"}
           /\ Carried = IF Carries(caller[c]) THEN {caller[c].value} ELSE {}
           /\ \A d \in Callers : d # c => caller[d].step \notin Leading
  <1>1. \A d \in Callers : d # c => caller[d].step \notin Leading
    BY DEF CacheInv, OneLeader
  <1>2. Calling <=> caller[c].step \in {"calling", "storing"}
    BY <1>1 DEF Calling, Leading
  <1>3. \A d \in Callers : Carries(caller[d]) => d = c
    BY <1>1 DEF Carries, Leading
  <1>4. Carried = IF Carries(caller[c]) THEN {caller[c].value} ELSE {}
    BY <1>3 DEF Carried
  <1> QED  BY <1>1, <1>2, <1>4

\* Steps that keep out of calling and carrying, before and after.
LEMMA SameFlight ==
    ASSUME CacheInv, NEW c \in Callers,
           \A d \in Callers : d # c => caller'[d] = caller[d],
           caller[c].step \in {"calling", "storing"} <=> caller'[c].step \in {"calling", "storing"},
           ~Carries(caller[c]), ~Carries(caller'[c])
    PROVE  Calling' = Calling /\ Carried' = Carried
  <1>1. Calling' <=> Calling
    BY DEF Calling
  <1>2. \A d \in Callers : /\ Carries(caller'[d]) <=> Carries(caller[d])
                           /\ Carries(caller[d]) => caller'[d] = caller[d]
    BY DEF Carries
  <1>3. Carried' = Carried
    BY <1>2 DEF Carried, Carries
  <1> QED  BY <1>1, <1>3 DEF Calling

LEMMA InitMaps == CacheInit => Flight!Init
  <1> SUFFICES ASSUME CacheInit PROVE Flight!Init
    OBVIOUS
  <1>1. \A c \in Callers : caller[c].step = "idle"
    BY DEF CacheInit, Resting, At
  <1>2. ~Calling /\ Carried = {}
    BY <1>1 DEF Calling, Carried, Carries
  <1> QED  BY <1>2 DEF CacheInit, Flight!Init, Flight!NotWaiting, Calling, NotAsking

\* A step that SingleFlight does not see.
LEMMA Unseen ==
    ASSUME CacheInv, NEW c \in Callers,
           \A d \in Callers : d # c => caller'[d] = caller[d],
           caller[c].step \in {"calling", "storing"} <=> caller'[c].step \in {"calling", "storing"},
           ~Carries(caller[c]), ~Carries(caller'[c]),
           UNCHANGED <<store, may, answer>>
    PROVE  UNCHANGED Flight!sfVars
  <1>1. Calling' = Calling /\ Carried' = Carried
    BY SameFlight
  <1> QED  BY <1>1 DEF Flight!sfVars, Calling

\* How the caller that takes a step is written.
LEMMA Stepped ==
    ASSUME CacheInv, NEW c \in Callers, NEW step, NEW v,
           caller' = [caller EXCEPT ![c] = At(step, v)]
    PROVE  /\ caller'[c].step = step /\ caller'[c].value = v
           /\ \A d \in Callers : d # c => caller'[d] = caller[d]
  BY DEF CacheInv, CacheTypeOK, At

LEMMA AskMaps == ASSUME CacheInv, NEW c \in Callers, Ask(c) PROVE Flight!Ask(c)
  <1>1. /\ caller[c].step = "idle"
        /\ caller' = [caller EXCEPT ![c] = At("getting", None)]
        /\ may' = [may EXCEPT ![c] = ({store} \ {None}) \union Carried]
        /\ UNCHANGED <<store, inFlight, answer>>
    BY DEF Ask, Resting, At
  <1>2. caller'[c].step = "getting" /\ \A d \in Callers : d # c => caller'[d] = caller[d]
    BY <1>1, Stepped
  <1>3. Calling' = Calling /\ Carried' = Carried
    BY <1>1, <1>2, SameFlight DEF Carries
  <1>4. may[c] = NotAsking
    BY <1>1, HasStep DEF Fits
  <1> QED  BY <1>1, <1>3, <1>4
           DEF Flight!Ask, Flight!Waiting, Flight!NotWaiting, NotAsking, Calling

\* Both ways to answer a request give it one of the answers it may have.
LEMMA AnswerMaps ==
    ASSUME CacheInv, NEW c \in Callers, caller[c].step \in {"got", "told"}, caller[c].value # None,
           caller' = [caller EXCEPT ![c] = Resting], AnswerWith(c, caller[c].value),
           UNCHANGED <<store, inFlight>>
    PROVE  Flight!Reply(c)
  <1>1. caller'[c].step = "idle" /\ \A d \in Callers : d # c => caller'[d] = caller[d]
    BY Stepped DEF Resting
  <1>2. Calling' = Calling /\ Carried' = Carried
    BY <1>1, SameFlight DEF Carries
  <1>3. may[c] # NotAsking /\ caller[c].value \in may[c]
    BY HasStep DEF Fits
  <1>4. \E a \in may[c] : answer' = [answer EXCEPT ![c] = a]
    BY <1>3 DEF AnswerWith
  <1> QED  BY <1>2, <1>3, <1>4
           DEF Flight!Reply, Flight!Waiting, Flight!NotWaiting, NotAsking, AnswerWith, Calling

LEMMA RecheckMaps ==
    ASSUME CacheInv, NEW c \in Callers, Recheck(c)
    PROVE  Flight!Pick \/ UNCHANGED Flight!sfVars
  <1>1. /\ caller[c].step = "rechecking" /\ caller' = [caller EXCEPT ![c] = At("rechecked", store)]
        /\ UNCHANGED <<store, inFlight, may, answer>>
    BY DEF Recheck
  <1>2. /\ caller'[c].step = "rechecked" /\ caller'[c].value = store
        /\ \A d \in Callers : d # c => caller'[d] = caller[d]
    BY <1>1, Stepped
  <1>3. CASE store = None
    BY <1>1, <1>2, <1>3, Unseen DEF Carries
  <1>4. CASE store # None
    <2>1. \A d \in Callers : d # c => caller[d].step \notin Leading
      BY <1>1, LeaderAlone DEF Leading
    <2>2. Calling' = Calling
      BY <1>1, <1>2 DEF Calling
    <2>3. Carried' = {store}
      <3>1. \A d \in Callers : Carries(caller'[d]) <=> d = c
        BY <1>2, <1>4, <2>1 DEF Carries, Leading
      <3> QED  BY <1>2, <3>1 DEF Carried, Carries
    <2> QED  BY <1>1, <1>4, <2>2, <2>3 DEF Flight!Pick, Calling
  <1> QED  BY <1>3, <1>4

LEMMA CallFactoryMaps == ASSUME CacheInv, NEW c \in Callers, CallFactory(c) PROVE Flight!Call
  <1>1. /\ caller[c].step = "rechecked" /\ caller[c].value = None
        /\ caller' = [caller EXCEPT ![c] = At("calling", None)]
        /\ UNCHANGED <<store, inFlight, may, answer>>
    BY DEF CallFactory, At
  <1>2. /\ caller'[c].step = "calling" /\ \A d \in Callers : d # c => caller'[d] = caller[d]
    BY <1>1, Stepped
  <1>3. store = None
    BY <1>1 DEF CacheInv, NothingYet, Lacks
  <1>4. ~Calling /\ Calling'
    BY <1>1, <1>2, LeaderAlone DEF Leading, Calling
  <1>5. Carried' = Carried
    <2>1. \A d \in Callers : /\ Carries(caller'[d]) <=> Carries(caller[d])
                             /\ Carries(caller[d]) => caller'[d] = caller[d]
      BY <1>1, <1>2 DEF Carries
    <2> QED  BY <2>1 DEF Carried, Carries
  <1> QED  BY <1>1, <1>3, <1>4, <1>5 DEF Flight!Call, Calling

LEMMA StoreMaps ==
    ASSUME CacheInv, NEW c \in Callers, Store(c), NEW v, v = caller[c].value
    PROVE  v \in Values /\ Flight!Returns(v)
  <1>1. /\ caller[c].step = "storing" /\ v \in Values
        /\ caller' = [caller EXCEPT ![c] = At("stored", v)]
        /\ store' = v /\ Notice(v) /\ UNCHANGED answer
    BY HasStep DEF Store, Fits
  <1>2. /\ caller'[c].step = "stored" /\ caller'[c].value = v
        /\ \A d \in Callers : d # c => caller'[d] = caller[d]
    BY <1>1, Stepped
  <1>3. \A d \in Callers : d # c => caller[d].step \notin Leading
    BY <1>1, LeaderAlone DEF Leading
  <1>4. Calling /\ ~Calling'
    BY <1>1, <1>2, <1>3 DEF Calling, Leading
  <1>5. Carried' = {v}
    <2>1. \A d \in Callers : Carries(caller'[d]) <=> d = c
      BY <1>2, <1>3 DEF Carries, Leading
    <2> QED  BY <1>2, <2>1 DEF Carried, Carries
  <1>6. may' = Flight!Seen(v)
    BY <1>1, CacheAssumption DEF Notice, Flight!Seen, Flight!Waiting, Flight!NotWaiting, NotAsking
  <1>7. Flight!Returns(v)
    BY <1>1, <1>4, <1>5, <1>6 DEF Flight!Returns, Calling
  <1> QED  BY <1>1, <1>7

\* Nobody calls or carries once the leader's promise is settled.
LEMMA SettledDone ==
    ASSUME CacheInv, NEW c \in Callers, NEW a, caller[c].step \in Leading, Settled(c, a)
    PROVE  ~Calling' /\ Carried' = {}
  <1>1. \A d \in Callers : caller'[d] = IF d = c \/ caller[d].step = "joined"
                                        THEN At("told", a) ELSE caller[d]
    BY DEF Settled
  <1>2. \A d \in Callers : caller'[d].step \notin Leading
    BY <1>1, LeaderAlone DEF Leading, At
  <1>3. ~Calling'
    BY <1>2 DEF Calling, Leading
  <1>4. \A d \in Callers : ~Carries(caller'[d])
    BY <1>2 DEF Carries, Leading
  <1> QED  BY <1>3, <1>4 DEF Carried, Carries

LEMMA SettleMaps == ASSUME CacheInv, NEW c \in Callers, Settle(c) PROVE Flight!Settle
  <1>1. /\ Carries(caller[c]) /\ caller[c].step \in Leading /\ Settled(c, caller[c].value)
        /\ caller[c].step \notin {"calling", "storing"}
        /\ UNCHANGED <<store, may, answer>>
    BY DEF Settle, Carries, Leading
  <1>2. ~Calling /\ Carried # {}
    BY <1>1, LeaderAlone
  <1>3. ~Calling' /\ Carried' = {}
    BY <1>1, SettledDone
  <1> QED  BY <1>1, <1>2, <1>3 DEF Flight!Settle, Calling

LEMMA CallFailsMaps == ASSUME CacheInv, NEW c \in Callers, CallFails(c) PROVE Flight!Fails
  <1>1. /\ caller[c].step \in Leading /\ Settled(c, Failure) /\ Notice(Failure)
        /\ caller[c].step \in {"calling", "storing"} /\ ~Carries(caller[c])
        /\ UNCHANGED <<store, answer>>
    BY DEF CallFails, Leading, Carries
  <1>2. Calling /\ Carried = {}
    BY <1>1, LeaderAlone
  <1>3. ~Calling' /\ Carried' = {}
    BY <1>1, SettledDone
  <1>4. may' = Flight!Seen(Failure)
    BY <1>1, CacheAssumption DEF Notice, Flight!Seen, Flight!Waiting, Flight!NotWaiting, NotAsking
  <1> QED  BY <1>1, <1>2, <1>3, <1>4 DEF Flight!Fails, Calling

LEMMA ExpireMaps == ASSUME CacheInv, Expire PROVE Flight!Expire
  <1>1. store # None /\ store' = None /\ UNCHANGED <<inFlight, caller, may, answer>>
    BY DEF Expire
  <1>2. Carried' = Carried /\ Calling' = Calling
    BY <1>1 DEF Carried, Carries, Calling
  <1> QED  BY <1>1, <1>2 DEF Flight!Expire, Calling

\* Get, Join, Lead and FactoryReturns are steps that SingleFlight does not see.
LEMMA QuietMaps ==
    ASSUME CacheInv, NEW c \in Callers,
           Get(c) \/ Join(c) \/ Lead(c) \/ (\E v \in Values : FactoryReturns(c, v))
    PROVE  UNCHANGED Flight!sfVars
  <1>1. CASE Get(c)
    <2>1. caller'[c].step = "got" /\ \A d \in Callers : d # c => caller'[d] = caller[d]
      BY <1>1, Stepped DEF Get
    <2> QED  BY <1>1, <2>1, Unseen DEF Get, Carries
  <1>2. CASE Join(c)
    <2>1. caller'[c].step = "joined" /\ \A d \in Callers : d # c => caller'[d] = caller[d]
      BY <1>2, Stepped DEF Join
    <2> QED  BY <1>2, <2>1, Unseen DEF Join, Carries, At
  <1>3. CASE Lead(c)
    <2>1. caller'[c].step = "rechecking" /\ \A d \in Callers : d # c => caller'[d] = caller[d]
      BY <1>3, Stepped DEF Lead
    <2> QED  BY <1>3, <2>1, Unseen DEF Lead, Carries, At
  <1>4. ASSUME NEW v \in Values, FactoryReturns(c, v) PROVE UNCHANGED Flight!sfVars
    <2>1. caller'[c].step = "storing" /\ \A d \in Callers : d # c => caller'[d] = caller[d]
      BY <1>4, Stepped DEF FactoryReturns
    <2> QED  BY <1>4, <2>1, Unseen DEF FactoryReturns, Carries
  <1> QED  BY <1>1, <1>2, <1>3, <1>4

LEMMA StutterMaps == ASSUME CacheInv, UNCHANGED cacheVars PROVE UNCHANGED Flight!sfVars
  BY DEF cacheVars, Flight!sfVars, Carried, Carries

LEMMA StepMaps == CacheInv /\ [CacheNext]_cacheVars => [Flight!Next]_Flight!sfVars
  <1> SUFFICES ASSUME CacheInv, [CacheNext]_cacheVars PROVE [Flight!Next]_Flight!sfVars
    OBVIOUS
  <1>1. ASSUME NEW c \in Callers, Ask(c) PROVE Flight!Next
    BY <1>1, AskMaps DEF Flight!Next
  <1>2. ASSUME NEW c \in Callers, Resume(c) PROVE Flight!Next \/ UNCHANGED Flight!sfVars
    <2>1. CASE Hit(c) \/ Reply(c)
      <3>1. Flight!Reply(c)
        BY <2>1, AnswerMaps, ToldSomething DEF Hit, Reply
      <3> QED  BY <3>1 DEF Flight!Next
    <2>2. CASE Recheck(c)
      BY <2>2, RecheckMaps DEF Flight!Next
    <2>3. CASE CallFactory(c) \/ Settle(c) \/ CallFails(c)
      BY <2>3, CallFactoryMaps, SettleMaps, CallFailsMaps DEF Flight!Next
    <2>4. CASE Store(c)
      <3>1. PICK v : v = caller[c].value
        OBVIOUS
      <3>2. v \in Values /\ Flight!Returns(v)
        BY <2>4, <3>1, StoreMaps
      <3> QED  BY <3>2 DEF Flight!Next
    <2>5. CASE Get(c) \/ Join(c) \/ Lead(c) \/ (\E v \in Values : FactoryReturns(c, v))
      BY <2>5, QuietMaps
    <2> QED  BY <1>2, <2>1, <2>2, <2>3, <2>4, <2>5 DEF Resume
  <1>3. CASE Expire
    BY <1>3, ExpireMaps DEF Flight!Next
  <1>4. CASE UNCHANGED cacheVars
    BY <1>4, StutterMaps
  <1> QED  BY <1>1, <1>2, <1>3, <1>4 DEF CacheNext

\* However many ask at once: one call of the factory at a time, none while there
\* is a value, and no answer older than its question.
THEOREM Coalescing == CacheSpec => Coalesces
  <1>1. CacheSpec => []CacheInv
    BY CacheInvariance
  <1> QED  BY <1>1, InitMaps, StepMaps, PTL DEF CacheSpec, Coalesces, Flight!Spec
=============================================================================
