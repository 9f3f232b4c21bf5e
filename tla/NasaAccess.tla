----------------------------- MODULE NasaAccess -----------------------------
(***************************************************************************)
(* backend/fire_data.py: the process-local cache of NASA FIRMS results,    *)
(* the lock that coalesces cache misses, the record of attempts and the    *)
(* backoff of a cold instance, as the worker threads of one API instance   *)
(* drive them.  One action is one stretch of fetch_fires between two       *)
(* points where another thread can be seen: sampling the clock, the        *)
(* unlocked cache read, taking the lock, each locked outcome, the end of   *)
(* the HTTP exchange.  The clock may advance between any two of them.      *)
(*                                                                         *)
(* A DataFrame is its age label `at` (the stored cached_at) and `asOf`,    *)
(* the instant NASA was asked for it (a history component).                *)
(*                                                                         *)
(* monotonic() is a float, so instants and waits are counted in ticks of   *)
(* 1/PerSecond of a second.  The settings and what a reply announces (its  *)
(* age, its Retry-After) are whole seconds.                                *)
(***************************************************************************)
EXTENDS Integers

CONSTANTS
    Workers,            \* threads that serve the synchronous routes
    Windows,            \* observation windows (values of `days`)
    PerSecond,          \* ticks of the clock in a second
    NasaKeyConfigured,  \* whether config.NASA_KEY is set
    CacheTTL,           \* config.CACHE_TTL_SECONDS
    BackoffInitial,     \* config.NASA_BACKOFF_INITIAL_SECONDS
    BackoffMax,         \* config.NASA_BACKOFF_MAX_SECONDS
    MaxTime             \* bound: the last tick of a behaviour

ASSUME NasaAssumption ==
    /\ NasaKeyConfigured \in BOOLEAN
    /\ PerSecond \in Nat \ {0}
    /\ CacheTTL \in Nat \ {0}
    /\ BackoffInitial \in Nat \ {0}
    /\ BackoffMax \in Nat \ {0}
    /\ MaxTime \in Nat
    /\ "nobody" \notin Workers

\* A finite fact of arithmetic that the provers do not know, checked by TLC.
ASSUME PowersOfTwo == \A k \in 0..30 : 2^k \in Nat \ {0}

VARIABLES
    clock,    \* monotonic(), in ticks
    cache,    \* _fire_cache: the held frame of each window
    attempt,  \* _last_nasa_attempt
    backoff,  \* _nasa_failure_backoff
    holder,   \* the worker inside _nasa_fetch_lock, if any
    pc,       \* where each worker is in fetch_fires
    window,   \* its argument `days`
    now,      \* its last sample of the clock
    seen,     \* its local cached_fires
    reply     \* what fetch_fires returned or raised

shared == <<cache, attempt, backoff>>
vars == <<clock, cache, attempt, backoff, holder, pc, window, now, seen, reply>>

-----------------------------------------------------------------------------
(* Values *)

Time == 0..MaxTime
None == -1                     \* dict.get(...) of a missing key
NoWorker == "nobody"

Frame == [at : Time, asOf : Time]
NoFrame == [at |-> None, asOf |-> None]

\* NasaFailureBackoff; a count of 0 is a missing entry.
NoBackoff == [count |-> 0, retryAt |-> 0]

DataReply == [status : {"data"}, frame : Frame, age : Nat, stale : BOOLEAN]
ErrorReply == [status : {"backed_off", "throttled", "upstream_error"},
               retryAfter : Nat \ {0}]
NoReply == [status |-> "none"]
Unconfigured == [status |-> "unconfigured"]

-----------------------------------------------------------------------------
(* The arithmetic of the module *)

Smaller(a, b) == IF a < b THEN a ELSE b
Larger(a, b) == IF a > b THEN a ELSE b

\* The cache interval, in ticks
Interval == CacheTTL * PerSecond

\* int(...) of a time that is not negative drops the fraction of a second.
WholeSeconds(t) == t \div PerSecond

\* _get_cached_fires: the age of a frame at time t, and its staleness
Age_Unclamped(f, t) == t - f.at
Age(f, t) == Larger(0, t - f.at)
IsFresh(f, t) == f # NoFrame /\ Age(f, t) < Interval

\* _register_cold_failure: the wait after the n-th failure in a row, in
\* seconds (what the client is told) and in ticks
BackoffDelay(n) ==
    Smaller(BackoffInitial * 2^Smaller(n - 1, 30), BackoffMax)
BackoffWait(n) == BackoffDelay(n) * PerSecond

\* The record of a cold failure whose attempt began at time t
AfterColdFailure(b, t) ==
    LET n == b.count + 1 IN [count |-> n, retryAt |-> t + BackoffWait(n)]

\* _with_cache_metadata
Served(f, t) ==
    [status |-> "data", frame |-> f, age |-> WholeSeconds(Age(f, t)),
     stale |-> ~IsFresh(f, t)]

Refused(kind, seconds) ==
    [status |-> kind, retryAfter |-> Larger(1, seconds)]

-----------------------------------------------------------------------------
Init ==
    /\ clock = 0
    /\ cache = [d \in Windows |-> NoFrame]
    /\ attempt = [d \in Windows |-> None]
    /\ backoff = [d \in Windows |-> NoBackoff]
    /\ holder = NoWorker
    /\ pc = [w \in Workers |-> "idle"]
    /\ window \in [Workers -> Windows]
    /\ now = [w \in Workers |-> 0]
    /\ seen = [w \in Workers |-> NoFrame]
    /\ reply = [w \in Workers |-> NoReply]

\* fetch_fires returns or raises: the thread leaves the function.
Answer(w, r) ==
    /\ pc' = [pc EXCEPT ![w] = "idle"]
    /\ reply' = [reply EXCEPT ![w] = r]
    /\ UNCHANGED <<clock, window, now>>

\* ... from inside `with _nasa_fetch_lock`, which any exit releases.
AnswerAndRelease(w, r) ==
    /\ holder' = NoWorker
    /\ Answer(w, r)

\* A request for window d reaches fetch_fires, which samples the clock.
Arrive(w, d) ==
    /\ pc[w] = "idle"
    /\ window' = [window EXCEPT ![w] = d]
    /\ now' = [now EXCEPT ![w] = clock]
    /\ seen' = [seen EXCEPT ![w] = NoFrame]
    /\ pc' = [pc EXCEPT ![w] = IF NasaKeyConfigured THEN "check" ELSE "idle"]
    /\ reply' = [reply EXCEPT
                   ![w] = IF NasaKeyConfigured THEN NoReply ELSE Unconfigured]
    /\ UNCHANGED <<clock, shared, holder>>

\* The unlocked look at the cache finds a fresh frame.
CacheHit(w) ==
    LET f == cache[window[w]] IN
    /\ pc[w] = "check"
    /\ IsFresh(f, now[w])
    /\ Answer(w, Served(f, now[w]))
    /\ UNCHANGED <<shared, holder, seen>>

CacheMiss(w) ==
    /\ pc[w] = "check"
    /\ ~IsFresh(cache[window[w]], now[w])
    /\ pc' = [pc EXCEPT ![w] = "waiting"]
    /\ UNCHANGED <<clock, shared, holder, window, now, seen, reply>>

\* with _nasa_fetch_lock: now = monotonic()
Acquire_NoLock(w) ==
    /\ pc[w] = "waiting"
    /\ holder' = w
    /\ now' = [now EXCEPT ![w] = clock]
    /\ pc' = [pc EXCEPT ![w] = "locked"]
    /\ UNCHANGED <<clock, shared, window, seen, reply>>

Acquire(w) ==
    /\ pc[w] = "waiting"
    /\ holder = NoWorker
    /\ holder' = w
    /\ now' = [now EXCEPT ![w] = clock]
    /\ pc' = [pc EXCEPT ![w] = "locked"]
    /\ UNCHANGED <<clock, shared, window, seen, reply>>

\* Another request filled the cache while this one waited.
HitAfterWait(w) ==
    LET f == cache[window[w]] IN
    /\ pc[w] = "locked"
    /\ IsFresh(f, now[w])
    /\ AnswerAndRelease(w, Served(f, now[w]))
    /\ UNCHANGED <<shared, seen>>

\* The decisions that remain once the recheck found nothing fresh.
\* Only an instance without any data looks at the backoff.
InBackoff(d, t) ==
    /\ cache[d] = NoFrame
    /\ backoff[d] # NoBackoff
    /\ t < backoff[d].retryAt

Throttled_IgnoresBackoff(d, t) ==
    /\ attempt[d] # None
    /\ t - attempt[d] < Interval

Throttled_ServesOneLonger(d, t) ==
    /\ attempt[d] # None
    /\ t - attempt[d] <= Interval
    /\ cache[d] # NoFrame \/ backoff[d] = NoBackoff

Throttled_OnlyCold(d, t) ==
    /\ attempt[d] # None
    /\ t - attempt[d] < Interval
    /\ cache[d] = NoFrame
    /\ backoff[d] = NoBackoff

Throttled(d, t) ==
    /\ attempt[d] # None
    /\ t - attempt[d] < Interval
    /\ cache[d] # NoFrame \/ backoff[d] = NoBackoff

\* _backoff_retry_after and _retry_after: what is left of a wait, in seconds.
\* The fraction that int() drops is made up for by one second more.
RetryAfter_Truncated(left) == WholeSeconds(left)
RetryAfter(left) == WholeSeconds(left) + 1

BackoffActive_KeepsLock(w) ==
    LET d == window[w] IN
    /\ pc[w] = "locked"
    /\ InBackoff(d, now[w])
    /\ Answer(w, Refused("backed_off", RetryAfter(backoff[d].retryAt - now[w])))
    /\ UNCHANGED <<shared, holder, seen>>

BackoffActive(w) ==
    LET d == window[w] IN
    /\ pc[w] = "locked"
    /\ InBackoff(d, now[w])
    /\ AnswerAndRelease(w,
         Refused("backed_off", RetryAfter(backoff[d].retryAt - now[w])))
    /\ UNCHANGED <<shared, seen>>

RefreshThrottled(w) ==
    LET d == window[w] IN
    /\ pc[w] = "locked"
    /\ ~IsFresh(cache[d], now[w])
    /\ ~InBackoff(d, now[w])
    /\ Throttled(d, now[w])
    /\ AnswerAndRelease(w,
         IF cache[d] # NoFrame
         THEN Served(cache[d], now[w])
         ELSE Refused("throttled",
                      RetryAfter(Interval - Larger(0, now[w] - attempt[d]))))
    /\ UNCHANGED <<shared, seen>>

\* The attempt is recorded before its result is known.
StartFetch(w) ==
    LET d == window[w] IN
    /\ pc[w] = "locked"
    /\ ~IsFresh(cache[d], now[w])
    /\ ~InBackoff(d, now[w])
    /\ ~Throttled(d, now[w])
    /\ attempt' = [attempt EXCEPT ![d] = now[w]]
    /\ seen' = [seen EXCEPT ![w] = cache[d]]
    /\ pc' = [pc EXCEPT ![w] = "fetching"]
    /\ UNCHANGED <<clock, cache, backoff, holder, window, now, reply>>

\* _store_fires(days, fires, now) with the `now` of before the exchange
StoredFrame_AtCompletion(t) == [at |-> clock, asOf |-> t]
StoredFrame(t) == [at |-> t, asOf |-> t]

\* fetch_nasa_csv and normalize_fire_data succeed.
FetchSucceeds(w) ==
    LET d == window[w]
        f == StoredFrame(now[w]) IN
    /\ pc[w] = "fetching"
    /\ cache' = [cache EXCEPT ![d] = f]
    /\ backoff' = [backoff EXCEPT ![d] = NoBackoff]
    /\ AnswerAndRelease(w, Served(f, now[w]))
    /\ UNCHANGED <<attempt, seen>>

\* Either of them raises.  The last good frame is still served, with the age
\* it had at the recheck.
FetchFailsStale_DropsFrame(w) ==
    /\ pc[w] = "fetching"
    /\ seen[w] # NoFrame
    /\ cache' = [cache EXCEPT ![window[w]] = NoFrame]
    /\ AnswerAndRelease(w, Served(seen[w], now[w]))
    /\ UNCHANGED <<attempt, backoff, seen>>

FetchFailsStale(w) ==
    /\ pc[w] = "fetching"
    /\ seen[w] # NoFrame
    /\ AnswerAndRelease(w, Served(seen[w], now[w]))
    /\ UNCHANGED <<shared, seen>>

FetchFailsCold(w) ==
    LET d == window[w]
        b == AfterColdFailure(backoff[d], now[w]) IN
    /\ pc[w] = "fetching"
    /\ seen[w] = NoFrame
    /\ backoff' = [backoff EXCEPT ![d] = b]
    /\ AnswerAndRelease(w, Refused("upstream_error", BackoffDelay(b.count)))
    /\ UNCHANGED <<cache, attempt, seen>>

Tick ==
    /\ clock < MaxTime
    /\ clock' = clock + 1
    /\ UNCHANGED <<shared, holder, pc, window, now, seen, reply>>

\* The instance is replaced: its memory is lost, open requests are dropped.
Restart ==
    /\ cache' = [d \in Windows |-> NoFrame]
    /\ attempt' = [d \in Windows |-> None]
    /\ backoff' = [d \in Windows |-> NoBackoff]
    /\ holder' = NoWorker
    /\ pc' = [w \in Workers |-> "idle"]
    /\ seen' = [w \in Workers |-> NoFrame]
    /\ reply' = [w \in Workers |-> NoReply]
    /\ UNCHANGED <<clock, window, now>>

\* What a worker does once its request has begun
Step(w) ==
    \/ CacheHit(w) \/ CacheMiss(w) \/ Acquire(w) \/ HitAfterWait(w)
    \/ BackoffActive(w) \/ RefreshThrottled(w) \/ StartFetch(w)
    \/ FetchSucceeds(w) \/ FetchFailsStale(w) \/ FetchFailsCold(w)

Next ==
    \/ \E w \in Workers : Step(w) \/ \E d \in Windows : Arrive(w, d)
    \/ Tick
    \/ Restart

Spec == Init /\ [][Next]_vars

\* The operating system runs every thread, and NASA's answer, its error or the
\* read timeout (config.NASA_READ_TIMEOUT_SECONDS) ends every exchange.
\* Nothing is assumed of which waiter a released lock goes to.
Fairness == \A w \in Workers : WF_vars(Step(w))

-----------------------------------------------------------------------------
(* Properties *)

\* Every variable keeps its type.
TypeOK ==
    /\ clock \in Time
    /\ cache \in [Windows -> Frame \cup {NoFrame}]
    /\ attempt \in [Windows -> Time \cup {None}]
    /\ backoff \in [Windows -> [count : Nat, retryAt : Nat]]
    /\ holder \in Workers \cup {NoWorker}
    /\ pc \in [Workers -> {"idle", "check", "waiting", "locked", "fetching"}]
    /\ window \in [Workers -> Windows]
    /\ now \in [Workers -> Time]
    /\ seen \in [Workers -> Frame \cup {NoFrame}]
    /\ reply \in [Workers -> DataReply \cup ErrorReply
                               \cup {NoReply, Unconfigured}]

\* A query to NASA for window d is being answered.
InFlight(d) == \E w \in Workers : pc[w] = "fetching" /\ window[w] = d

\* Only the holder of the lock is between taking it and releasing it.
LockOwned == \A w \in Workers : pc[w] \in {"locked", "fetching"} <=> holder = w

\* Nothing is dated in the future.
NothingInTheFuture ==
    /\ \A w \in Workers : now[w] <= clock
    /\ \A d \in Windows : attempt[d] <= clock /\ cache[d].at <= clock

\* A held frame carries the instant of the attempt that brought it, and clears
\* the backoff.
FrameOfAnAttempt ==
    \A d \in Windows :
        cache[d] # NoFrame =>
            /\ cache[d].at = cache[d].asOf
            /\ cache[d].asOf <= attempt[d]
            /\ backoff[d] = NoBackoff

\* Without a frame, a finished attempt failed and left its backoff.
ColdAttemptBackedOff ==
    \A d \in Windows :
        cache[d] = NoFrame /\ ~InFlight(d) =>
            IF attempt[d] = None
            THEN backoff[d] = NoBackoff
            ELSE /\ backoff[d].count > 0
                 /\ backoff[d].retryAt = attempt[d] + BackoffWait(backoff[d].count)

\* A worker that waits for NASA made the latest attempt, holds the frame the
\* cache still holds, and found it older than an interval.
FetchIsCurrent ==
    \A w \in Workers :
        pc[w] = "fetching" =>
            /\ attempt[window[w]] = now[w]
            /\ seen[w] = cache[window[w]]
            /\ ~IsFresh(seen[w], now[w])

\* What one thread leaves in the shared dictionaries is consistent whenever
\* another can see it.
Coherent ==
    /\ LockOwned
    /\ NothingInTheFuture
    /\ FrameOfAnAttempt
    /\ ColdAttemptBackedOff
    /\ FetchIsCurrent

\* The refusal of lines 188-200 is never sent: a throttled request always has
\* a frame to be served, because whatever leaves an attempt behind leaves a
\* frame or a backoff with it.
ThrottleHasData == \A w \in Workers : reply[w].status # "throttled"

\* Data labelled fresh was asked of NASA less than one interval before the
\* request looked, however long the exchange with NASA took.
FreshLabelHonest ==
    \A w \in Workers :
        reply[w].status = "data" /\ ~reply[w].stale
            => now[w] - reply[w].frame.asOf < Interval

\* A client that waits the whole seconds its Retry-After says is not turned
\* away by the same failure: the backoff it met, which ends at a fraction of a
\* second, is over then, or a later attempt failed.
RetryAfterSuffices ==
    \A w \in Workers :
        reply[w].status \in {"backed_off", "upstream_error"}
            => \/ backoff[window[w]].retryAt <= now[w] + reply[w].retryAfter * PerSecond
               \/ attempt[window[w]] > now[w]

\* An outage never costs the last good frame: it is replaced only by one asked
\* for at least an interval later, and lost only with the process.
LastGoodKept ==
    [][\/ Restart
       \/ \A d \in Windows :
            cache[d] # NoFrame =>
                \/ cache'[d] = cache[d]
                \/ cache'[d].asOf >= cache[d].asOf + Interval]_vars

\* The worker's call returns or raises in this step.
Answers(w) == pc[w] # "idle" /\ reply'[w].status # "none"

\* Whatever data a request is given is the frame held at that moment: a
\* request that read the cache before a slow exchange does not bring an older
\* frame back after it.
RepliesCurrent ==
    [][\A w \in Workers :
        Answers(w) /\ reply'[w].status = "data"
            => reply'[w].frame = cache'[window[w]]]_vars

\* Stale data is served only where the latest attempt failed, less than an
\* interval ago: it never stands in for a refresh that was not tried.
StaleOnlyAfterFailedRefresh ==
    [][\A w \in Workers :
        LET d == window[w] IN
        Answers(w) /\ reply'[w].status = "data" /\ reply'[w].stale
            => /\ attempt[d] > cache'[d].asOf
               /\ now[w] - attempt[d] < Interval]_vars

\* The instance keeps its promise to NASA.
Protection == INSTANCE NasaProtection WITH
    CacheTTL <- Interval,
    Delay <- BackoffWait,
    last <- attempt,
    inFlight <- {d \in Windows : InFlight(d)},
    held <- {d \in Windows : cache[d] # NoFrame},
    streak <- [d \in Windows |-> backoff[d].count]

ProtectsNasa == Protection!Spec

\* Every request that entered fetch_fires gets out of it, so no exit keeps the
\* lock from the others.
AlwaysAnswered == \A w \in Workers : pc[w] # "idle" ~> pc[w] = "idle"

\* config.py line 52 taken literally, cold retries apart (line 54 excepts
\* them): once a query of the instance succeeded, no other for an interval.
OneQueryPerInterval ==
    [][\A w \in Workers :
        StartFetch(w) =>
            \A e \in Windows : cache[e] # NoFrame => now[w] - attempt[e] >= Interval]_vars
=============================================================================
