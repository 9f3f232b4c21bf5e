------------------------------- MODULE MapData -------------------------------
(***************************************************************************)
(* The two data hooks of the browser, useFireData and useIncidentData: the *)
(* data of one map layer each, its browser cache, and the request that may *)
(* change it.  JavaScript runs one callback at a time; one action is one   *)
(* callback: a call of the load function up to its await, the first render *)
(* timer, the settling of a request.  Any component may call the load      *)
(* functions at any time; MapPage says when the page does.                 *)
(*                                                                         *)
(* A dataset is the number of the request that brought it (0: an earlier   *)
(* page), its observation window and whether the API served it as stale.   *)
(***************************************************************************)
EXTENDS Integers

CONSTANTS
    Layers,         \* one hook for each map layer
    EagerLayers,    \* those loaded when the page opens (useFireData)
    Windows,        \* OBSERVATION_WINDOWS, in days
    DefaultWindow,  \* DEFAULT_OBSERVATION_DAYS
    StaleAnswers,   \* values of X-Data-Stale an answer may carry
    MaxRequests     \* bound: requests of one hook

ASSUME MapAssumption ==
    /\ EagerLayers \subseteq Layers
    /\ Windows \subseteq Nat \ {0}
    /\ DefaultWindow \in Windows
    /\ StaleAnswers \subseteq BOOLEAN
    /\ MaxRequests \in Nat

VARIABLES
    stored,      \* localStorage: the readable entry of each layer and window
    shown,       \* fires, collection: what map and explorer display
    label,       \* the dataset that freshness and lastUpdated describe
    loadedDays,  \* loadedDays.current
    loading,
    failed,      \* error # null
    active,      \* activeRequest.current; one that is not active is aborted
    open,        \* requests whose promise has not settled
    timer,       \* hooks whose first request is still deferred
    mounted,
    issued,      \* requests sent so far
    chosen       \* history: the window of the last call

view == <<shown, label, loadedDays, loading, failed>>
hookVars == <<stored, view, active, open, timer, mounted, issued, chosen>>

-----------------------------------------------------------------------------
(* Values *)

None == 0
Nothing == [days |-> None, id |-> None, stale |-> FALSE]
Dataset == [days : Windows, id : 0..MaxRequests, stale : BOOLEAN]
Requests == [id : 1..MaxRequests, days : Windows]

\* cacheStorage.js: one entry for each namespace and window
CacheKey(d) == d
Entry(l, d) == stored[l][CacheKey(d)]

\* requestLifecycle.js
IsCurrent_Always(l, r) == TRUE
IsCurrent(l, r) == active[l] = r.id

ShouldClear_Always(before, target) == TRUE
ShouldClear(before, target) == before # target

-----------------------------------------------------------------------------
\* What an eager hook reads from the browser cache before its first render
AtStart(l) == IF l \in EagerLayers THEN Entry(l, DefaultWindow) ELSE Nothing

Init ==
    /\ stored \in [Layers -> [Windows -> {Nothing} \cup Dataset]]
    /\ \A l \in Layers, d \in Windows :
          stored[l][d] # Nothing =>
              /\ stored[l][d].days = d
              /\ stored[l][d].id = 0
              /\ stored[l][d].stale \in StaleAnswers
    /\ shown = [l \in Layers |-> AtStart(l)]
    /\ label = shown
    /\ loadedDays = [l \in Layers |-> AtStart(l).days]
    /\ timer = {l \in EagerLayers : AtStart(l) = Nothing}
    /\ loading = [l \in Layers |-> l \in timer]
    /\ failed = [l \in Layers |-> FALSE]
    /\ active = [l \in Layers |-> None]
    /\ open = [l \in Layers |-> {}]
    /\ mounted = TRUE
    /\ issued = [l \in Layers |-> 0]
    /\ chosen = [l \in Layers |-> IF l \in EagerLayers THEN DefaultWindow
                                                      ELSE None]

\* The load function finds a fresh entry: it replaces what is displayed and
\* supersedes the request that was pending.
ServeCached_KeepsRequest(l, d) ==
    /\ Entry(l, d) # Nothing
    /\ shown' = [shown EXCEPT ![l] = Entry(l, d)]
    /\ label' = [label EXCEPT ![l] = Entry(l, d)]
    /\ loadedDays' = [loadedDays EXCEPT ![l] = d]
    /\ loading' = [loading EXCEPT ![l] = FALSE]
    /\ failed' = [failed EXCEPT ![l] = FALSE]
    /\ chosen' = [chosen EXCEPT ![l] = d]
    /\ UNCHANGED <<stored, active, open, issued>>

ServeCached(l, d) ==
    /\ Entry(l, d) # Nothing
    /\ active' = [active EXCEPT ![l] = None]
    /\ shown' = [shown EXCEPT ![l] = Entry(l, d)]
    /\ label' = [label EXCEPT ![l] = Entry(l, d)]
    /\ loadedDays' = [loadedDays EXCEPT ![l] = d]
    /\ loading' = [loading EXCEPT ![l] = FALSE]
    /\ failed' = [failed EXCEPT ![l] = FALSE]
    /\ chosen' = [chosen EXCEPT ![l] = d]
    /\ UNCHANGED <<stored, open, issued>>

\* The load functions of the layers in S send a request each.
Request(S, d) ==
    LET Updated(f, value) == [l \in Layers |-> IF l \in S THEN value ELSE f[l]]
    IN
    /\ \A l \in S : issued[l] < MaxRequests
    /\ issued' = [l \in Layers |-> IF l \in S THEN issued[l] + 1 ELSE issued[l]]
    /\ active' = [l \in Layers |-> IF l \in S THEN issued[l] + 1 ELSE active[l]]
    /\ open' = [l \in Layers |->
                  IF l \in S
                  THEN open[l] \cup {[id |-> issued[l] + 1, days |-> d]}
                  ELSE open[l]]
    /\ shown' = [l \in Layers |->
                   IF l \in S /\ ShouldClear(loadedDays[l], d)
                   THEN Nothing ELSE shown[l]]
    /\ loading' = Updated(loading, TRUE)
    /\ failed' = Updated(failed, FALSE)
    /\ chosen' = Updated(chosen, d)
    /\ UNCHANGED <<stored, label, loadedDays>>

\* loadFires(d), loadIncidents(d)
Load(l, d) ==
    \/ ServeCached(l, d)
    \/ Entry(l, d) = Nothing /\ Request({l}, d)

\* window.setTimeout of the mount effect
TimerFires(l) ==
    /\ l \in timer
    /\ timer' = timer \ {l}
    /\ Load(l, DefaultWindow)
    /\ UNCHANGED mounted

\* The finally block: only the owner of the loading indicator clears it.
Finally_Unconditional(l, r) ==
    /\ open' = [open EXCEPT ![l] = @ \ {r}]
    /\ active' = [active EXCEPT ![l] = None]
    /\ loading' = [loading EXCEPT ![l] = FALSE]

Finally(l, r) ==
    /\ open' = [open EXCEPT ![l] = @ \ {r}]
    /\ active' = [active EXCEPT ![l] = IF @ = r.id THEN None ELSE @]
    /\ loading' = [loading EXCEPT ![l] = IF active[l] = r.id THEN FALSE ELSE @]

\* A response arrives for the current request; writing the cache may fail.
Succeed(l, r) ==
    /\ r \in open[l]
    /\ IsCurrent(l, r)
    /\ \E stale \in StaleAnswers :
         LET data == [days |-> r.days, id |-> r.id, stale |-> stale] IN
         /\ \E entry \in {data, Entry(l, r.days)} :
              stored' = [stored EXCEPT ![l][CacheKey(r.days)] = entry]
         /\ shown' = [shown EXCEPT ![l] = data]
         /\ label' = [label EXCEPT ![l] = data]
    /\ loadedDays' = [loadedDays EXCEPT ![l] = r.days]
    /\ Finally(l, r)
    /\ UNCHANGED <<failed, timer, mounted, issued, chosen>>

\* ... or an error.
Fail_KeepsLoading(l, r) ==
    /\ r \in open[l]
    /\ IsCurrent(l, r)
    /\ failed' = [failed EXCEPT ![l] = TRUE]
    /\ open' = [open EXCEPT ![l] = @ \ {r}]
    /\ active' = [active EXCEPT ![l] = None]
    /\ UNCHANGED <<stored, shown, label, loadedDays, loading, timer, mounted,
                   issued, chosen>>

Fail(l, r) ==
    /\ r \in open[l]
    /\ IsCurrent(l, r)
    /\ failed' = [failed EXCEPT ![l] = TRUE]
    /\ Finally(l, r)
    /\ UNCHANGED <<stored, shown, label, loadedDays, timer, mounted, issued,
                   chosen>>

\* A superseded request settles, by its abort or by an answer that was already
\* on its way.
Discard(l, r) ==
    /\ r \in open[l]
    /\ ~IsCurrent(l, r)
    /\ Finally(l, r)
    /\ UNCHANGED <<stored, shown, label, loadedDays, failed, timer, mounted,
                   issued, chosen>>

\* An entry passes BROWSER_CACHE_TTL_MS, or the browser drops it.
Expire(l, d) ==
    /\ stored[l][d] # Nothing
    /\ stored' = [stored EXCEPT ![l][d] = Nothing]
    /\ UNCHANGED <<view, active, open, timer, mounted, issued, chosen>>

\* The cleanup of the mount effects
Unmount ==
    /\ mounted
    /\ mounted' = FALSE
    /\ timer' = {}
    /\ active' = [l \in Layers |-> None]
    /\ UNCHANGED <<stored, view, open, issued, chosen>>

Settle(l) == \E r \in open[l] : Succeed(l, r) \/ Fail(l, r) \/ Discard(l, r)

\* What goes on without the components
Background ==
    \/ \E l \in Layers :
          TimerFires(l) \/ Settle(l) \/ \E d \in Windows : Expire(l, d)
    \/ Unmount

\* A component calls the hooks; the bound keeps a request for the timer.
Call ==
    /\ mounted
    /\ \/ \E l \in Layers, d \in Windows :
             /\ l \in timer => issued[l] + 1 < MaxRequests
             /\ Load(l, d)
       \/ \E S \in (SUBSET Layers) \ {{}}, d \in Windows :
             /\ \A l \in S \cap timer : issued[l] + 1 < MaxRequests
             /\ Request(S, d)
    /\ UNCHANGED <<timer, mounted>>

Next == Background \/ Call

Spec == Init /\ [][Next]_hookVars

\* The event loop runs the timer, and the browser settles every request: with
\* an answer, an abort, or the failure of the connection.
Fairness ==
    \A l \in Layers :
        WF_hookVars(Settle(l)) /\ WF_hookVars(TimerFires(l))

FairSpec == Spec /\ Fairness

-----------------------------------------------------------------------------
(* Properties *)

\* Every variable keeps its type; an entry of the cache is of its own window.
TypeOK ==
    /\ stored \in [Layers -> [Windows -> Dataset \cup {Nothing}]]
    /\ \A l \in Layers, d \in Windows : stored[l][d].days \in {d, None}
    /\ shown \in [Layers -> Dataset \cup {Nothing}]
    /\ label \in [Layers -> Dataset \cup {Nothing}]
    /\ loadedDays \in [Layers -> Windows \cup {None}]
    /\ loading \in [Layers -> BOOLEAN]
    /\ failed \in [Layers -> BOOLEAN]
    /\ active \in [Layers -> 0..MaxRequests]
    /\ open \in [Layers -> SUBSET Requests]
    /\ timer \subseteq EagerLayers
    /\ mounted \in BOOLEAN
    /\ issued \in [Layers -> 0..MaxRequests]
    /\ chosen \in [Layers -> Windows \cup {None}]

\* Latest request wins (comment of useFireData): what is displayed is never of
\* another window than the last one asked for, whatever was pending and in
\* whatever order answers arrive; and the age and the time beside it are its own.
VisibleIsChosen ==
    \A l \in Layers :
        shown[l] # Nothing =>
            shown[l].days = chosen[l] /\ label[l] = shown[l]

\* Once nothing is loading and no error is displayed, the window asked for last
\* is on the map: the end of a superseded request takes nothing from its
\* successor.
SettledShowsChosen ==
    mounted => \A l \in Layers :
        ~loading[l] /\ ~failed[l] /\ chosen[l] # None
            => shown[l].days = chosen[l]

\* A late answer to an older request never replaces a newer entry of the
\* browser cache.
CacheNeverGoesBack ==
    [][\A l \in Layers, d \in Windows :
        stored[l][d] # Nothing /\ stored'[l][d] # Nothing
            => stored'[l][d].id >= stored[l][d].id]_hookVars

\* Visible data stays visible through a refresh of its window and the failure
\* of any request; only another window clears it.
RefreshKeepsData ==
    [][\A l \in Layers :
        shown[l] # Nothing /\ shown'[l] = Nothing
            => chosen'[l] # shown[l].days]_hookVars

\* The loading indicator goes away.
LoadingEnds == \A l \in Layers : loading[l] ~> ~loading[l] \/ ~mounted
=============================================================================
