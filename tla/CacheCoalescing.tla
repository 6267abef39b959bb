-------------------------- MODULE CacheCoalescing --------------------------
(***************************************************************************)
(* CacheService.getOrSet for one key of one process, as KmsService uses it *)
(* for the public key: between two awaits JavaScript runs undisturbed, so  *)
(* an action is what happens from one await to the next.                   *)
(*                                                                         *)
(* Left out: get, set and del of the service, which nothing calls.         *)
(***************************************************************************)
EXTENDS FiniteSets

CONSTANTS
    Callers,    \* requests that may ask for the key at once
    Values,     \* what the factory (fetchPublicKey) returns
    None,       \* undefined
    Failure     \* a rejected promise

ASSUME CacheAssumption ==
    /\ None \notin Values \union {Failure} \union Callers
    /\ Failure \notin Values

VARIABLES
    store,      \* the cache's value for the key
    inFlight,   \* the caller whose promise is in the map, or None
    caller,     \* where each request is
    \* Observation only
    may,        \* the values a request may be answered with: seen since it asked
    answer      \* the last answer to each caller

cacheVars == <<store, inFlight, caller, may, answer>>

(***************************************************************************)
(* getting    awaits its first cache.get                                   *)
(* got        the first get has resolved with value                        *)
(* joined     awaits the promise it found in the map                       *)
(* rechecking leads, and awaits its second get                             *)
(* rechecked  the second get has resolved with value                       *)
(* calling    leads, and awaits the factory                                *)
(* storing    leads, and awaits cache.set of value                         *)
(* stored     the value is in the cache                                    *)
(* told       its promise is settled with value                            *)
(***************************************************************************)
Leading == {"rechecking", "rechecked", "calling", "storing", "stored"}
CallerSteps == {"idle", "getting", "got", "joined", "told"} \union Leading

Caller == [step : CallerSteps, value : Values \union {None, Failure}]
At(step, value) == [step |-> step, value |-> value]
Resting == At("idle", None)

NotAsking == {None}

CacheTypeOK ==
    /\ store \in Values \union {None}
    /\ inFlight \in Callers \union {None}
    /\ caller \in [Callers -> Caller]
    /\ may \in [Callers -> (SUBSET (Values \union {Failure})) \union {NotAsking}]
    /\ answer \in [Callers -> Values \union {None, Failure}]

CacheInit ==
    /\ store = None
    /\ inFlight = None
    /\ caller = [c \in Callers |-> Resting]
    /\ may = [c \in Callers |-> NotAsking]
    /\ answer = [c \in Callers |-> None]

\* Values that a leader carries to those who wait for it.
Carries(r) == r.step = "stored" \/ (r.step = "rechecked" /\ r.value # None)
Carried == {caller[c].value : c \in {d \in Callers : Carries(caller[d])}}

Notice(v) == may' = [c \in Callers |-> IF may[c] = NotAsking THEN may[c] ELSE may[c] \union {v}]

Ask(c) ==
    /\ caller[c] = Resting
    /\ caller' = [caller EXCEPT ![c] = At("getting", None)]
    /\ may' = [may EXCEPT ![c] = ({store} \ {None}) \union Carried]
    /\ UNCHANGED <<store, inFlight, answer>>

\* The first get resolves.
Get(c) ==
    /\ caller[c].step = "getting"
    /\ caller' = [caller EXCEPT ![c] = At("got", store)]
    /\ UNCHANGED <<store, inFlight, may, answer>>

AnswerWith(c, a) ==
    /\ answer' = [answer EXCEPT ![c] = a]
    /\ may' = [may EXCEPT ![c] = NotAsking]

Hit(c) ==
    /\ caller[c].step = "got" /\ caller[c].value # None
    /\ caller' = [caller EXCEPT ![c] = Resting]
    /\ AnswerWith(c, caller[c].value)
    /\ UNCHANGED <<store, inFlight>>

Join(c) ==
    /\ caller[c] = At("got", None)
    /\ inFlight # None
    /\ caller' = [caller EXCEPT ![c] = At("joined", None)]
    /\ UNCHANGED <<store, inFlight, may, answer>>

\* Mutation: the map is not looked at.
LeadAnyway(c) ==
    /\ caller[c] = At("got", None)
    /\ inFlight' = c
    /\ caller' = [caller EXCEPT ![c] = At("rechecking", None)]
    /\ UNCHANGED <<store, may, answer>>

\* The async function runs up to its first await, and is put into the map.
Lead(c) ==
    /\ caller[c] = At("got", None)
    /\ inFlight = None
    /\ inFlight' = c
    /\ caller' = [caller EXCEPT ![c] = At("rechecking", None)]
    /\ UNCHANGED <<store, may, answer>>

Recheck(c) ==
    /\ caller[c].step = "rechecking"
    /\ caller' = [caller EXCEPT ![c] = At("rechecked", store)]
    /\ UNCHANGED <<store, inFlight, may, answer>>

CallFactory(c) ==
    /\ caller[c] = At("rechecked", None)
    /\ caller' = [caller EXCEPT ![c] = At("calling", None)]
    /\ UNCHANGED <<store, inFlight, may, answer>>

FactoryReturns(c, v) ==
    /\ caller[c].step = "calling"
    /\ caller' = [caller EXCEPT ![c] = At("storing", v)]
    /\ UNCHANGED <<store, inFlight, may, answer>>

Store(c) ==
    /\ caller[c].step = "storing"
    /\ store' = caller[c].value
    /\ caller' = [caller EXCEPT ![c] = At("stored", caller[c].value)]
    /\ Notice(caller[c].value)
    /\ UNCHANGED <<inFlight, answer>>

\* finally: the entry is deleted and the promise settles, for c and for all
\* who joined it.
Settled(c, a) ==
    /\ inFlight' = None
    /\ caller' = [d \in Callers |-> IF d = c \/ caller[d].step = "joined"
                                    THEN At("told", a) ELSE caller[d]]

Settle(c) ==
    /\ Carries(caller[c])
    /\ Settled(c, caller[c].value)
    /\ UNCHANGED <<store, may, answer>>

\* Mutation: without finally, who joined waits on.
CallFailsAlone(c) ==
    /\ caller[c].step \in {"calling", "storing"}
    /\ inFlight' = None
    /\ caller' = [caller EXCEPT ![c] = At("told", Failure)]
    /\ Notice(Failure)
    /\ UNCHANGED <<store, answer>>

\* The factory or cache.set throws.
CallFails(c) ==
    /\ caller[c].step \in {"calling", "storing"}
    /\ Settled(c, Failure)
    /\ Notice(Failure)
    /\ UNCHANGED <<store, answer>>

Reply(c) ==
    /\ caller[c].step = "told"
    /\ caller' = [caller EXCEPT ![c] = Resting]
    /\ AnswerWith(c, caller[c].value)
    /\ UNCHANGED <<store, inFlight>>

\* The time to live has passed.
Expire ==
    /\ store # None
    /\ store' = None
    /\ UNCHANGED <<inFlight, caller, may, answer>>

Resume(c) ==
    \/ Get(c) \/ Hit(c) \/ Join(c) \/ Lead(c)
    \/ Recheck(c) \/ CallFactory(c)
    \/ \E v \in Values : FactoryReturns(c, v)
    \/ Store(c) \/ Settle(c) \/ CallFails(c) \/ Reply(c)

CacheNext ==
    \/ \E c \in Callers : Ask(c) \/ Resume(c)
    \/ Expire

\* Promises settle: the store and the factory answer or fail.
CacheFairness == \A c \in Callers : WF_cacheVars(Resume(c))

CacheSpec == CacheInit /\ [][CacheNext]_cacheVars

(***************************************************************************)
(* Properties                                                              *)
(***************************************************************************)
Flight == INSTANCE SingleFlight WITH
    value <- store,
    calling <- \E c \in Callers : caller[c].step \in {"calling", "storing"},
    held <- Carried

\* getOrSet implements SingleFlight: concurrent requests share one call of the
\* factory, nobody calls it while there is a value, also who found none
\* before its leader stored it, and no answer is older than its request.
Coalesces == Flight!Spec

\* Everyone who asks is answered, also who joined a call that fails.
AskersAnswered == \A c \in Callers : caller[c].step # "idle" ~> caller[c].step = "idle"
=============================================================================
