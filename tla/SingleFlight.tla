---------------------------- MODULE SingleFlight ----------------------------
(***************************************************************************)
(* What CacheService.getOrSet promises of one key, however many ask for it *)
(* at once: the factory runs for one of them at a time, and only while     *)
(* there is no value; and an answer is never older than its request.       *)
(***************************************************************************)
CONSTANTS
    Callers,    \* requests that may ask at the same time
    Values,     \* what the factory may return
    None,       \* no value
    Failure     \* the answer when the factory or the store fails

VARIABLES
    value,      \* the value there is
    calling,    \* the factory is running
    held,       \* values on their way to those who wait
    may,        \* what each waiting caller may be answered: seen since it asked
    answer      \* the last answer to each caller

sfVars == <<value, calling, held, may, answer>>

Answers == Values \union {Failure}

\* A caller that waits has a set of answers, empty at first perhaps.
NotWaiting == {None}
Waiting == {c \in Callers : may[c] # NotWaiting}

Seen(v) == [c \in Callers |-> IF c \in Waiting THEN may[c] \union ({v} \ {None}) ELSE may[c]]

Init ==
    /\ value = None
    /\ calling = FALSE
    /\ held = {}
    /\ may = [c \in Callers |-> NotWaiting]
    /\ answer = [c \in Callers |-> None]

Ask(c) ==
    /\ c \notin Waiting
    /\ may' = [may EXCEPT ![c] = ({value} \ {None}) \union held]
    /\ UNCHANGED <<value, calling, held, answer>>

\* One call at a time, and none while there is a value.
Call ==
    /\ ~calling
    /\ value = None
    /\ calling' = TRUE
    /\ UNCHANGED <<value, held, may, answer>>

Returns(v) ==
    /\ calling
    /\ calling' = FALSE
    /\ value' = v
    /\ held' = {v}
    /\ may' = Seen(v)
    /\ UNCHANGED answer

Fails ==
    /\ calling
    /\ calling' = FALSE
    /\ may' = Seen(Failure)
    /\ UNCHANGED <<value, held, answer>>

\* The value that is there is found, instead of calling for another.
Pick ==
    /\ value # None
    /\ held' = {value}
    /\ UNCHANGED <<value, calling, may, answer>>

\* It has reached all who waited for it.
Settle ==
    /\ held # {}
    /\ held' = {}
    /\ UNCHANGED <<value, calling, may, answer>>

Expire ==
    /\ value # None
    /\ value' = None
    /\ UNCHANGED <<calling, held, may, answer>>

Reply(c) ==
    /\ c \in Waiting
    /\ \E a \in may[c] : answer' = [answer EXCEPT ![c] = a]
    /\ may' = [may EXCEPT ![c] = NotWaiting]
    /\ UNCHANGED <<value, calling, held>>

Next ==
    \/ \E c \in Callers : Ask(c) \/ Reply(c)
    \/ \E v \in Values : Returns(v)
    \/ Call \/ Fails \/ Pick \/ Settle \/ Expire

Spec == Init /\ [][Next]_sfVars
=============================================================================
