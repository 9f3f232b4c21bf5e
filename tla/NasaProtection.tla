--------------------------- MODULE NasaProtection ---------------------------
(***************************************************************************)
(* What the server promises NASA FIRMS, without threads, locks or caches:  *)
(* one API instance has at most one query in flight, and for each          *)
(* observation window two queries are spaced by the cache interval once a  *)
(* result is held, and by a growing backoff while none ever was.           *)
(*                                                                         *)
(* backend/fire_data.py (fetch_fires) is shown to implement it by          *)
(* NasaAccess.                                                             *)
(***************************************************************************)
EXTENDS Integers

CONSTANTS
    Windows,         \* the observation windows (values of `days`)
    Time,            \* the instants of the instance's clock
    CacheTTL,        \* config.CACHE_TTL_SECONDS, in the unit of the clock
    Delay(_)         \* Delay(n): the wait after the n-th failure in a row

VARIABLES
    last,            \* [Windows -> Time \cup {-1}]: start of the latest query
    inFlight,        \* the windows a query is being answered for
    held,            \* the windows a result of an earlier query is held for
    streak           \* [Windows -> Nat]: failures in a row with nothing held

vars == <<last, inFlight, held, streak>>

Init ==
    /\ last = [d \in Windows |-> -1]
    /\ inFlight = {}
    /\ held = {}
    /\ streak = [d \in Windows |-> 0]

\* How long NASA is left alone after the latest query for d.
Interval(d) == IF d \in held THEN CacheTTL ELSE Delay(streak[d])

\* A query for d that starts at time t.
Query(d, t) ==
    /\ inFlight = {}
    /\ last[d] # -1 => t >= last[d] + Interval(d)
    /\ last' = [last EXCEPT ![d] = t]
    /\ inFlight' = {d}
    /\ UNCHANGED <<held, streak>>

Succeed(d) ==
    /\ inFlight = {d}
    /\ inFlight' = {}
    /\ held' = held \cup {d}
    /\ streak' = [streak EXCEPT ![d] = 0]
    /\ UNCHANGED last

Fail(d) ==
    /\ inFlight = {d}
    /\ inFlight' = {}
    /\ streak' = [streak EXCEPT ![d] = IF d \in held THEN @ ELSE @ + 1]
    /\ UNCHANGED <<last, held>>

\* A new process replaces the instance and remembers nothing.
Replaced ==
    /\ last' = [d \in Windows |-> -1]
    /\ inFlight' = {}
    /\ held' = {}
    /\ streak' = [d \in Windows |-> 0]

Next ==
    \/ \E d \in Windows : Succeed(d) \/ Fail(d) \/ \E t \in Time : Query(d, t)
    \/ Replaced

Spec == Init /\ [][Next]_vars
=============================================================================
