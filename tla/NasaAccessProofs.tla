-------------------------- MODULE NasaAccessProofs --------------------------
(***************************************************************************)
(* Proofs about NasaAccess for every set of workers and windows and every  *)
(* interval, backoff and clock bound.                                      *)
(***************************************************************************)
EXTENDS NasaAccess, TLAPS

-----------------------------------------------------------------------------
(* The arithmetic *)

\* The wait after any failure is positive and capped, whatever the count.
LEMMA DelayType ==
    ASSUME NEW n \in Nat \ {0}
    PROVE  /\ BackoffDelay(n) \in Nat \ {0}
           /\ BackoffDelay(n) <= BackoffMax
<1>1. Smaller(n - 1, 30) \in 0..30
  BY DEF Smaller
<1>2. 2^Smaller(n - 1, 30) \in Nat \ {0}
  BY <1>1, PowersOfTwo
<1> DEFINE p == 2^Smaller(n - 1, 30)
<1> HIDE DEF p
<1>3. p \in Nat \ {0}
  BY <1>2 DEF p
<1>4. BackoffInitial * p \in Nat \ {0}
  BY <1>3, NasaAssumption, SMT
<1>5. BackoffDelay(n) = Smaller(BackoffInitial * p, BackoffMax)
  BY DEF BackoffDelay, p
<1> QED
  BY <1>4, <1>5, NasaAssumption DEF Smaller

\* The interval is some ticks long, and so is the wait after any failure.
LEMMA IntervalType == Interval \in Nat \ {0}
<1>1. \A a, b \in Nat \ {0} : a * b \in Nat \ {0}
  BY SMT
<1> QED
  BY <1>1, NasaAssumption DEF Interval

LEMMA WaitType ==
    ASSUME NEW n \in Nat \ {0}
    PROVE  BackoffWait(n) \in Nat \ {0}
<1>1. \A a, b \in Nat \ {0} : a * b \in Nat \ {0}
  BY SMT
<1> QED
  BY <1>1, DelayType, NasaAssumption DEF BackoffWait

\* int() drops less than a second of a time that is not negative.
LEMMA SecondsLost ==
    ASSUME NEW t \in Int
    PROVE  /\ WholeSeconds(t) \in Int
           /\ t >= 0 => /\ WholeSeconds(t) \in Nat
                        /\ t < (WholeSeconds(t) + 1) * PerSecond
BY NasaAssumption, SMT DEF WholeSeconds

\* A served frame is a well-formed data reply.
LEMMA ServedType ==
    ASSUME NEW f \in Frame, NEW t \in Time
    PROVE  Served(f, t) \in DataReply
<1>1. Age(f, t) \in Nat
  BY NasaAssumption DEF Age, Larger, Frame, Time
<1>2. WholeSeconds(Age(f, t)) \in Nat
  BY <1>1, SecondsLost
<1> QED
  BY <1>2 DEF Served, DataReply

\* A Retry-After is at least one second.
LEMMA RefusedType ==
    ASSUME NEW kind \in {"backed_off", "throttled", "upstream_error"},
           NEW s \in Int
    PROVE  Refused(kind, s) \in ErrorReply
BY DEF Refused, ErrorReply, Larger

\* A stored frame is a frame, and is not the missing one.
LEMMA StoredType ==
    ASSUME NEW t \in Time
    PROVE  StoredFrame(t) \in Frame /\ StoredFrame(t) # NoFrame
BY NasaAssumption DEF StoredFrame, Frame, NoFrame, Time, None

LEMMA ColdFailureType ==
    ASSUME NEW b \in [count : Nat, retryAt : Nat], NEW t \in Time
    PROVE  /\ AfterColdFailure(b, t) \in [count : Nat, retryAt : Nat]
           /\ AfterColdFailure(b, t).count = b.count + 1
           /\ AfterColdFailure(b, t).retryAt = t + BackoffWait(b.count + 1)
<1>1. b.count + 1 \in Nat \ {0}
  OBVIOUS
<1>2. BackoffWait(b.count + 1) \in Nat
  BY <1>1, WaitType
<1> QED
  BY <1>1, <1>2, NasaAssumption DEF AfterColdFailure, Time

-----------------------------------------------------------------------------
(* Types *)

\* The initial state is well typed.
LEMMA InitType == Init => TypeOK
BY NasaAssumption
   DEF Init, TypeOK, Time, Frame, NoFrame, NoBackoff, None, NoWorker, NoReply

\* Every step of every thread preserves the types.
LEMMA NextType == TypeOK /\ [Next]_vars => TypeOK'
<1> SUFFICES ASSUME TypeOK, [Next]_vars PROVE TypeOK'
  OBVIOUS
<1> USE NasaAssumption
<1>a. ASSUME NEW w \in Workers, NEW r, Answer(w, r),
             r \in DataReply \cup ErrorReply
      PROVE  /\ clock' \in Time
             /\ pc' \in [Workers -> {"idle", "check", "waiting", "locked", "fetching"}]
             /\ window' \in [Workers -> Windows]
             /\ now' \in [Workers -> Time]
             /\ reply' \in [Workers -> DataReply \cup ErrorReply
                                         \cup {NoReply, Unconfigured}]
  BY <1>a DEF Answer, TypeOK
<1>1. ASSUME NEW w \in Workers, NEW d \in Windows, Arrive(w, d) PROVE TypeOK'
  BY <1>1 DEF Arrive, TypeOK, shared
<1>2. ASSUME NEW w \in Workers, CacheHit(w) PROVE TypeOK'
  <2>1. /\ cache[window[w]] \in Frame
        /\ now[w] \in Time
    BY <1>2 DEF CacheHit, IsFresh, TypeOK
  <2>2. Served(cache[window[w]], now[w]) \in DataReply
    BY <2>1, ServedType
  <2> QED
    BY <1>2, <2>2, <1>a DEF CacheHit, TypeOK, shared
<1>3. ASSUME NEW w \in Workers, CacheMiss(w) PROVE TypeOK'
  BY <1>3 DEF CacheMiss, TypeOK, shared
<1>4. ASSUME NEW w \in Workers, Acquire(w) PROVE TypeOK'
  BY <1>4 DEF Acquire, TypeOK, shared
<1>5. ASSUME NEW w \in Workers, HitAfterWait(w) PROVE TypeOK'
  <2>1. /\ cache[window[w]] \in Frame
        /\ now[w] \in Time
    BY <1>5 DEF HitAfterWait, IsFresh, TypeOK
  <2>2. Served(cache[window[w]], now[w]) \in DataReply
    BY <2>1, ServedType
  <2> QED
    BY <1>5, <2>2, <1>a DEF HitAfterWait, AnswerAndRelease, TypeOK, shared
<1>6. ASSUME NEW w \in Workers, BackoffActive(w) PROVE TypeOK'
  <2>1. RetryAfter(backoff[window[w]].retryAt - now[w]) \in Int
    BY SecondsLost DEF TypeOK, Time, RetryAfter
  <2>2. Refused("backed_off", RetryAfter(backoff[window[w]].retryAt - now[w])) \in ErrorReply
    BY <2>1, RefusedType
  <2> QED
    BY <1>6, <2>2, <1>a DEF BackoffActive, AnswerAndRelease, TypeOK, shared
<1>7. ASSUME NEW w \in Workers, RefreshThrottled(w) PROVE TypeOK'
  <2> DEFINE d == window[w]
             r == IF cache[d] # NoFrame
                  THEN Served(cache[d], now[w])
                  ELSE Refused("throttled",
                               RetryAfter(Interval - Larger(0, now[w] - attempt[d])))
  <2>1. d \in Windows /\ now[w] \in Time
    BY DEF TypeOK
  <2>2. CASE cache[d] # NoFrame
    <3>1. cache[d] \in Frame
      BY <2>1, <2>2 DEF TypeOK
    <3> QED
      BY <1>7, <2>1, <2>2, <3>1, ServedType, <1>a
      DEF RefreshThrottled, AnswerAndRelease, TypeOK, shared
  <2>3. CASE cache[d] = NoFrame
    <3>1. RetryAfter(Interval - Larger(0, now[w] - attempt[d])) \in Int
      BY <2>1, IntervalType, SecondsLost
      DEF TypeOK, Larger, Time, None, RetryAfter
    <3>2. r \in ErrorReply
      BY <2>3, <3>1, RefusedType
    <3> QED
      BY <1>7, <3>2, <1>a DEF RefreshThrottled, AnswerAndRelease, TypeOK, shared
  <2> QED
    BY <2>2, <2>3
<1>8. ASSUME NEW w \in Workers, StartFetch(w) PROVE TypeOK'
  BY <1>8 DEF StartFetch, TypeOK, shared
<1>9. ASSUME NEW w \in Workers, FetchSucceeds(w) PROVE TypeOK'
  <2>1. now[w] \in Time /\ window[w] \in Windows
    BY DEF TypeOK
  <2>2. StoredFrame(now[w]) \in Frame
    BY <2>1, StoredType
  <2>3. Served(StoredFrame(now[w]), now[w]) \in DataReply
    BY <2>1, <2>2, ServedType
  <2>4. NoBackoff \in [count : Nat, retryAt : Nat]
    BY DEF NoBackoff
  <2> QED
    BY <1>9, <2>1, <2>2, <2>3, <2>4, <1>a
    DEF FetchSucceeds, AnswerAndRelease, TypeOK, shared
<1>10. ASSUME NEW w \in Workers, FetchFailsStale(w) PROVE TypeOK'
  <2>1. seen[w] \in Frame /\ now[w] \in Time
    BY <1>10 DEF FetchFailsStale, TypeOK
  <2>2. Served(seen[w], now[w]) \in DataReply
    BY <2>1, ServedType
  <2> QED
    BY <1>10, <2>2, <1>a DEF FetchFailsStale, AnswerAndRelease, TypeOK, shared
<1>11. ASSUME NEW w \in Workers, FetchFailsCold(w) PROVE TypeOK'
  <2> DEFINE b == AfterColdFailure(backoff[window[w]], now[w])
  <2>1. /\ window[w] \in Windows
        /\ now[w] \in Time
        /\ backoff[window[w]] \in [count : Nat, retryAt : Nat]
    BY DEF TypeOK
  <2>2. b \in [count : Nat, retryAt : Nat] /\ b.count \in Nat \ {0}
    BY <2>1, ColdFailureType
  <2>3. Refused("upstream_error", BackoffDelay(b.count)) \in ErrorReply
    BY <2>2, DelayType, RefusedType
  <2> HIDE DEF b
  <2>4. /\ backoff' = [backoff EXCEPT ![window[w]] = b]
        /\ holder' = NoWorker
        /\ UNCHANGED <<cache, attempt, seen>>
        /\ Answer(w, Refused("upstream_error", BackoffDelay(b.count)))
    BY <1>11 DEF FetchFailsCold, AnswerAndRelease, b
  <2> QED
    BY <2>1, <2>2, <2>3, <2>4, <1>a DEF TypeOK
<1>12. ASSUME Tick PROVE TypeOK'
  BY <1>12 DEF Tick, TypeOK, shared, Time
<1>13. ASSUME Restart PROVE TypeOK'
  BY <1>13 DEF Restart, TypeOK, NoBackoff
<1>14. ASSUME UNCHANGED vars PROVE TypeOK'
  BY <1>14 DEF vars, TypeOK
<1> QED
  BY <1>1, <1>2, <1>3, <1>4, <1>5, <1>6, <1>7, <1>8, <1>9, <1>10, <1>11,
     <1>12, <1>13, <1>14
  DEF Next, Step

\* fetch_fires keeps the types of its dictionaries and of its replies: an age
\* is never negative and a Retry-After is at least one second.
THEOREM TypeCorrect == Spec => []TypeOK
BY InitType, NextType, PTL DEF Spec

-----------------------------------------------------------------------------
(* The invariant that ties the dictionaries, the lock and the locals *)

\* A worker that is not waiting for NASA can move without changing which
\* windows a query is in flight for.
LEMMA InFlightKept ==
    ASSUME NEW d \in Windows,
           \A v \in Workers : pc'[v] = "fetching" <=> pc[v] = "fetching",
           \A v \in Workers : pc[v] = "fetching" => window'[v] = window[v]
    PROVE  InFlight(d)' <=> InFlight(d)
BY DEF InFlight

\* The initial state is coherent: nobody has asked anything.
LEMMA InitCoherent == Init => Coherent
<1> SUFFICES ASSUME Init PROVE Coherent
  OBVIOUS
<1>1. LockOwned
  BY NasaAssumption DEF Init, LockOwned, NoWorker
<1>2. NothingInTheFuture
  BY DEF Init, NothingInTheFuture, NoFrame, None
<1>3. FrameOfAnAttempt /\ ColdAttemptBackedOff /\ FetchIsCurrent
  BY DEF Init, FrameOfAnAttempt, ColdAttemptBackedOff, FetchIsCurrent
<1> QED
  BY <1>1, <1>2, <1>3 DEF Coherent

\* Taking, keeping and releasing _nasa_fetch_lock
LEMMA LockOwnedStep == TypeOK /\ LockOwned /\ [Next]_vars => LockOwned'
<1> SUFFICES ASSUME TypeOK, LockOwned, [Next]_vars PROVE LockOwned'
  OBVIOUS
<1> USE NasaAssumption DEF LockOwned, TypeOK, NoWorker
<1>1. ASSUME NEW w \in Workers, NEW d \in Windows, Arrive(w, d) PROVE LockOwned'
  BY <1>1 DEF Arrive
<1>2. ASSUME NEW w \in Workers, CacheHit(w) PROVE LockOwned'
  BY <1>2 DEF CacheHit, Answer
<1>3. ASSUME NEW w \in Workers, CacheMiss(w) PROVE LockOwned'
  BY <1>3 DEF CacheMiss
<1>4. ASSUME NEW w \in Workers, Acquire(w) PROVE LockOwned'
  BY <1>4 DEF Acquire
<1>5. ASSUME NEW w \in Workers, NEW r, AnswerAndRelease(w, r),
             pc[w] \in {"locked", "fetching"}
      PROVE  LockOwned'
  BY <1>5 DEF AnswerAndRelease, Answer
<1>6. ASSUME NEW w \in Workers, StartFetch(w) PROVE LockOwned'
  BY <1>6 DEF StartFetch
<1>7. ASSUME Tick PROVE LockOwned'
  BY <1>7 DEF Tick
<1>8. ASSUME Restart PROVE LockOwned'
  BY <1>8 DEF Restart
<1>9. ASSUME UNCHANGED vars PROVE LockOwned'
  BY <1>9 DEF vars
<1> QED
  BY <1>1, <1>2, <1>3, <1>4, <1>5, <1>6, <1>7, <1>8, <1>9
  DEF Next, Step, HitAfterWait, BackoffActive, RefreshThrottled,
      FetchSucceeds, FetchFailsStale, FetchFailsCold

\* Attempts and frames are dated with samples of the clock, which only grows.
LEMMA NothingInTheFutureStep ==
    TypeOK /\ NothingInTheFuture /\ [Next]_vars => NothingInTheFuture'
<1> SUFFICES ASSUME TypeOK, NothingInTheFuture, [Next]_vars
             PROVE  NothingInTheFuture'
  OBVIOUS
<1> USE NasaAssumption DEF NothingInTheFuture, TypeOK, Time
<1>1. ASSUME NEW w \in Workers, NEW d \in Windows, Arrive(w, d)
      PROVE  NothingInTheFuture'
  BY <1>1 DEF Arrive, shared
<1>2. ASSUME NEW w \in Workers, Acquire(w) PROVE NothingInTheFuture'
  BY <1>2 DEF Acquire, shared
<1>3. ASSUME NEW w \in Workers, StartFetch(w) PROVE NothingInTheFuture'
  BY <1>3 DEF StartFetch
<1>4. ASSUME NEW w \in Workers, FetchSucceeds(w) PROVE NothingInTheFuture'
  BY <1>4 DEF FetchSucceeds, AnswerAndRelease, Answer, StoredFrame
<1>5. ASSUME Tick PROVE NothingInTheFuture'
  <2>1. clock \in Int /\ clock' = clock + 1
    BY <1>5 DEF Tick
  <2>2. ASSUME NEW w \in Workers PROVE now'[w] <= clock'
    BY <1>5, <2>1 DEF Tick
  <2>3. ASSUME NEW d \in Windows
        PROVE  attempt'[d] <= clock' /\ cache'[d].at <= clock'
    <3>1. attempt[d] \in Int /\ cache[d].at \in Int
      BY DEF Frame, NoFrame, None
    <3> QED
      BY <1>5, <2>1, <3>1 DEF Tick, shared
  <2> QED
    BY <2>2, <2>3
<1>6. ASSUME Restart PROVE NothingInTheFuture'
  BY <1>6 DEF Restart, NoFrame, None
<1>7. ASSUME UNCHANGED <<clock, now, attempt, cache>> PROVE NothingInTheFuture'
  BY <1>7
<1> QED
  BY <1>1, <1>2, <1>3, <1>4, <1>5, <1>6, <1>7
  DEF Next, Step, vars, CacheHit, CacheMiss, HitAfterWait, BackoffActive,
      RefreshThrottled, FetchFailsStale, FetchFailsCold, AnswerAndRelease,
      Answer, shared

\* Frames come from attempts; a success clears the backoff and only a worker
\* that saw no frame registers one.
LEMMA FrameOfAnAttemptStep ==
    TypeOK /\ Coherent /\ [Next]_vars => FrameOfAnAttempt'
<1> SUFFICES ASSUME TypeOK, Coherent, [Next]_vars PROVE FrameOfAnAttempt'
  OBVIOUS
<1> USE NasaAssumption DEF FrameOfAnAttempt
<1>1. ASSUME NEW w \in Workers, StartFetch(w) PROVE FrameOfAnAttempt'
  <2> DEFINE e == window[w]
  <2>1. e \in Windows /\ now[w] \in Time
    BY DEF TypeOK
  <2>2. ASSUME cache[e] # NoFrame
        PROVE  cache[e].asOf <= now[w]
    <3>1. cache[e] \in Frame
      BY <2>1, <2>2 DEF TypeOK
    <3>2. ~IsFresh(cache[e], now[w])
      BY <1>1 DEF StartFetch
    <3>3. Age(cache[e], now[w]) >= Interval
      BY <2>1, <2>2, <3>1, <3>2, IntervalType DEF IsFresh, Age, Larger, Time, Frame
    <3>4. cache[e].at <= now[w]
      BY <2>1, <3>1, <3>3, IntervalType DEF Age, Larger, Time, Frame
    <3> QED
      BY <2>1, <2>2, <3>4 DEF Coherent
  <2> QED
    BY <1>1, <2>1, <2>2 DEF StartFetch, TypeOK, Coherent
<1>2. ASSUME NEW w \in Workers, FetchSucceeds(w) PROVE FrameOfAnAttempt'
  <2>1. /\ window[w] \in Windows
        /\ now[w] \in Time
        /\ attempt[window[w]] = now[w]
    BY <1>2 DEF FetchSucceeds, Coherent, FetchIsCurrent, TypeOK
  <2> QED
    BY <1>2, <2>1 DEF FetchSucceeds, StoredFrame, TypeOK, Coherent, Time
<1>3. ASSUME NEW w \in Workers, FetchFailsCold(w) PROVE FrameOfAnAttempt'
  <2>1. cache[window[w]] = NoFrame
    BY <1>3 DEF FetchFailsCold, Coherent, FetchIsCurrent
  <2> QED
    BY <1>3, <2>1 DEF FetchFailsCold, TypeOK, Coherent
<1>4. ASSUME Restart PROVE FrameOfAnAttempt'
  BY <1>4 DEF Restart
<1>5. ASSUME UNCHANGED shared PROVE FrameOfAnAttempt'
  BY <1>5 DEF shared, Coherent
<1> QED
  BY <1>1, <1>2, <1>3, <1>4, <1>5
  DEF Next, Step, vars, shared, Arrive, CacheHit, CacheMiss, Acquire,
      HitAfterWait, BackoffActive, RefreshThrottled, FetchFailsStale, Tick

\* An attempt that ends without a frame leaves its backoff behind, and nothing
\* else touches either of them.
LEMMA ColdAttemptBackedOffStep ==
    TypeOK /\ Coherent /\ [Next]_vars => ColdAttemptBackedOff'
<1> SUFFICES ASSUME TypeOK, Coherent, [Next]_vars,
                    NEW d \in Windows, cache'[d] = NoFrame, ~InFlight(d)'
             PROVE  IF attempt'[d] = None
                    THEN backoff'[d] = NoBackoff
                    ELSE /\ backoff'[d].count > 0
                         /\ backoff'[d].retryAt
                              = attempt'[d] + BackoffWait(backoff'[d].count)
  BY DEF ColdAttemptBackedOff
<1> DEFINE Goal == IF attempt'[d] = None
                   THEN backoff'[d] = NoBackoff
                   ELSE /\ backoff'[d].count > 0
                        /\ backoff'[d].retryAt
                             = attempt'[d] + BackoffWait(backoff'[d].count)
<1>0. ASSUME InFlight(d)' <=> InFlight(d), UNCHANGED shared
      PROVE  Goal
  BY <1>0 DEF Coherent, ColdAttemptBackedOff, shared
<1> HIDE DEF Goal
<1>1. ASSUME NEW w \in Workers, NEW e \in Windows, Arrive(w, e) PROVE Goal
  <2>1. InFlight(d)' <=> InFlight(d)
    BY <1>1 DEF Arrive, TypeOK, InFlight
  <2> QED
    BY <1>0, <1>1, <2>1 DEF Arrive
<1>2. ASSUME NEW w \in Workers, NEW r, Answer(w, r), UNCHANGED shared,
             pc[w] # "fetching"
      PROVE  Goal
  <2>1. InFlight(d)' <=> InFlight(d)
    BY <1>2 DEF Answer, TypeOK, InFlight
  <2> QED
    BY <1>0, <1>2, <2>1
<1>3. ASSUME NEW w \in Workers, CacheMiss(w) PROVE Goal
  <2>1. InFlight(d)' <=> InFlight(d)
    BY <1>3 DEF CacheMiss, TypeOK, InFlight
  <2> QED
    BY <1>0, <1>3, <2>1 DEF CacheMiss
<1>4. ASSUME NEW w \in Workers, Acquire(w) PROVE Goal
  <2>1. InFlight(d)' <=> InFlight(d)
    BY <1>4 DEF Acquire, TypeOK, InFlight
  <2> QED
    BY <1>0, <1>4, <2>1 DEF Acquire
<1>5. ASSUME NEW w \in Workers, StartFetch(w) PROVE Goal
  <2>1. /\ pc'[w] = "fetching"
        /\ window'[w] = window[w]
        /\ \A v \in Workers : pc[v] = "fetching" => pc'[v] = "fetching"
        /\ window' = window
    BY <1>5 DEF StartFetch, TypeOK
  <2>2. d # window[w] /\ ~InFlight(d)
    BY <2>1 DEF InFlight
  <2>3. /\ attempt'[d] = attempt[d]
        /\ backoff' = backoff
        /\ cache' = cache
    BY <1>5, <2>2 DEF StartFetch, TypeOK
  <2> QED
    BY <2>2, <2>3 DEF Goal, Coherent, ColdAttemptBackedOff
<1>6. ASSUME NEW w \in Workers, FetchSucceeds(w) PROVE Goal
  <2>1. /\ StoredFrame(now[w]) # NoFrame
        /\ cache' = [cache EXCEPT ![window[w]] = StoredFrame(now[w])]
    BY <1>6, StoredType DEF FetchSucceeds, TypeOK
  <2>2. d # window[w]
    BY <2>1 DEF TypeOK
  <2>3. InFlight(d)' <=> InFlight(d)
    BY <1>6, <2>2 DEF FetchSucceeds, AnswerAndRelease, Answer, InFlight, TypeOK
  <2>4. /\ attempt'[d] = attempt[d]
        /\ backoff'[d] = backoff[d]
        /\ cache'[d] = cache[d]
    BY <1>6, <2>2 DEF FetchSucceeds, TypeOK
  <2> QED
    BY <2>3, <2>4 DEF Goal, Coherent, ColdAttemptBackedOff
<1>7. ASSUME NEW w \in Workers, FetchFailsStale(w) PROVE Goal
  <2>1. cache[window[w]] # NoFrame /\ UNCHANGED shared
    BY <1>7 DEF FetchFailsStale, Coherent, FetchIsCurrent
  <2>2. d # window[w]
    BY <2>1 DEF shared
  <2>3. InFlight(d)' <=> InFlight(d)
    BY <1>7, <2>2 DEF FetchFailsStale, AnswerAndRelease, Answer, InFlight, TypeOK
  <2> QED
    BY <1>0, <2>1, <2>3
<1>8. ASSUME NEW w \in Workers, FetchFailsCold(w) PROVE Goal
  <2> DEFINE e == window[w]
             b == AfterColdFailure(backoff[e], now[w])
  <2>1. /\ e \in Windows
        /\ now[w] \in Time
        /\ backoff[e] \in [count : Nat, retryAt : Nat]
    BY DEF TypeOK
  <2>2. /\ attempt' = attempt
        /\ cache' = cache
        /\ backoff' = [backoff EXCEPT ![e] = b]
    BY <1>8 DEF FetchFailsCold
  <2>3. CASE d = e
    <3>1. attempt[e] = now[w] /\ now[w] # None
      BY <1>8, <2>1, NasaAssumption
      DEF FetchFailsCold, Coherent, FetchIsCurrent, Time, None
    <3>2. /\ b.count = backoff[e].count + 1
          /\ b.retryAt = now[w] + BackoffWait(backoff[e].count + 1)
      BY <2>1, ColdFailureType
    <3>3. b.count > 0
      BY <2>1, <3>2
    <3>4. backoff'[d] = b /\ attempt'[d] = now[w]
      BY <2>1, <2>2, <2>3, <3>1 DEF TypeOK
    <3> HIDE DEF b
    <3> QED
      BY <3>1, <3>2, <3>3, <3>4 DEF Goal
  <2>4. CASE d # e
    <3>1. InFlight(d)' <=> InFlight(d)
      BY <1>8, <2>4 DEF FetchFailsCold, AnswerAndRelease, Answer, InFlight, TypeOK
    <3>2. backoff'[d] = backoff[d]
      BY <2>2, <2>4 DEF TypeOK
    <3> QED
      BY <2>2, <3>1, <3>2 DEF Goal, Coherent, ColdAttemptBackedOff
  <2> QED
    BY <2>3, <2>4
<1>9. ASSUME Tick PROVE Goal
  BY <1>0, <1>9 DEF Tick, InFlight
<1>10. ASSUME Restart PROVE Goal
  BY <1>10 DEF Restart, Goal
<1>11. ASSUME UNCHANGED vars PROVE Goal
  BY <1>0, <1>11 DEF vars, InFlight, shared
<1>12. Goal
  BY <1>1, <1>2, <1>3, <1>4, <1>5, <1>6, <1>7, <1>8, <1>9, <1>10, <1>11
  DEF Next, Step, CacheHit, HitAfterWait, BackoffActive, RefreshThrottled,
      AnswerAndRelease
<1> QED
  BY <1>12 DEF Goal

\* While a worker waits for NASA the lock keeps everybody else from the
\* attempt and the frame of its window.
LEMMA FetchIsCurrentStep ==
    TypeOK /\ Coherent /\ [Next]_vars => FetchIsCurrent'
<1> SUFFICES ASSUME TypeOK, Coherent, [Next]_vars,
                    NEW v \in Workers, pc'[v] = "fetching"
             PROVE  /\ attempt'[window'[v]] = now'[v]
                    /\ seen'[v] = cache'[window'[v]]
                    /\ ~IsFresh(seen'[v], now'[v])
  BY DEF FetchIsCurrent, IsFresh, Age
<1> DEFINE Goal == /\ attempt'[window'[v]] = now'[v]
                   /\ seen'[v] = cache'[window'[v]]
                   /\ ~IsFresh(seen'[v], now'[v])
<1>0. ASSUME pc[v] = "fetching",
             UNCHANGED <<attempt, cache>>,
             window'[v] = window[v], now'[v] = now[v], seen'[v] = seen[v]
      PROVE  Goal
  BY <1>0 DEF Coherent, FetchIsCurrent
<1> HIDE DEF Goal
<1>1. ASSUME NEW w \in Workers, NEW e \in Windows, Arrive(w, e) PROVE Goal
  <2>1. v # w /\ pc[v] = "fetching"
    BY <1>1 DEF Arrive, TypeOK
  <2> QED
    BY <1>0, <1>1, <2>1 DEF Arrive, TypeOK, shared
<1>2. ASSUME NEW w \in Workers, NEW r, Answer(w, r),
             UNCHANGED <<attempt, cache, seen>>
      PROVE  Goal
  <2>1. v # w /\ pc[v] = "fetching"
    BY <1>2 DEF Answer, TypeOK
  <2> QED
    BY <1>0, <1>2, <2>1 DEF Answer
<1>3. ASSUME NEW w \in Workers, CacheMiss(w) PROVE Goal
  <2>1. v # w /\ pc[v] = "fetching"
    BY <1>3 DEF CacheMiss, TypeOK
  <2> QED
    BY <1>0, <1>3, <2>1 DEF CacheMiss, shared
<1>4. ASSUME NEW w \in Workers, Acquire(w) PROVE Goal
  <2>1. v # w /\ pc[v] = "fetching"
    BY <1>4 DEF Acquire, TypeOK
  <2> QED
    BY <1>0, <1>4, <2>1 DEF Acquire, shared, TypeOK
<1>5. ASSUME NEW w \in Workers, StartFetch(w) PROVE Goal
  <2>1. v = w
    <3>1. holder = w /\ pc[w] = "locked"
      BY <1>5 DEF StartFetch, Coherent, LockOwned
    <3>2. pc[v] = "fetching" => holder = v
      BY DEF Coherent, LockOwned
    <3> QED
      BY <1>5, <3>1, <3>2 DEF StartFetch, TypeOK
  <2> QED
    BY <1>5, <2>1 DEF StartFetch, TypeOK, Goal
<1>6. ASSUME NEW w \in Workers, FetchSucceeds(w) PROVE Goal
  <2>1. pc[v] = "fetching" /\ v # w
    BY <1>6 DEF FetchSucceeds, AnswerAndRelease, Answer, TypeOK
  <2>2. holder = v /\ holder = w
    BY <1>6, <2>1 DEF FetchSucceeds, Coherent, LockOwned
  <2> QED
    BY <2>1, <2>2
<1>7. ASSUME Tick PROVE Goal
  BY <1>0, <1>7 DEF Tick, shared
<1>8. ASSUME Restart PROVE Goal
  BY <1>8 DEF Restart
<1>9. ASSUME UNCHANGED vars PROVE Goal
  BY <1>0, <1>9 DEF vars
<1>10. Goal
  BY <1>1, <1>2, <1>3, <1>4, <1>5, <1>6, <1>7, <1>8, <1>9
  DEF Next, Step, CacheHit, HitAfterWait, BackoffActive, RefreshThrottled,
      FetchFailsStale, FetchFailsCold, AnswerAndRelease, shared
<1> QED
  BY <1>10 DEF Goal

\* What one thread leaves behind is consistent whenever another can see it.
THEOREM AlwaysCoherent == Spec => []Coherent
<1>1. Init => TypeOK /\ Coherent
  BY InitType, InitCoherent
<1>2. TypeOK /\ Coherent /\ [Next]_vars => (TypeOK /\ Coherent)'
  BY NextType, LockOwnedStep, NothingInTheFutureStep, FrameOfAnAttemptStep,
     ColdAttemptBackedOffStep, FetchIsCurrentStep
  DEF Coherent
<1> QED
  BY <1>1, <1>2, PTL DEF Spec

-----------------------------------------------------------------------------
(* What follows from it *)

\* A worker that holds the lock and is not waiting for NASA knows that nobody is.
LEMMA LockedAlone ==
    ASSUME TypeOK, Coherent, NEW w \in Workers, pc[w] = "locked", NEW d \in Windows
    PROVE  ~InFlight(d)
BY DEF Coherent, LockOwned, InFlight

\* A thread asks NASA again for a window only when the wait after the latest
\* attempt for it is over: an interval with data, its backoff without.
LEMMA QuerySpaced ==
    ASSUME TypeOK, Coherent, NEW w \in Workers, StartFetch(w),
           attempt[window[w]] # None
    PROVE  LET d == window[w]
           IN  now[w] >= attempt[d] + (IF cache[d] # NoFrame THEN Interval
                                       ELSE BackoffWait(backoff[d].count))
<1> DEFINE d == window[w]
<1>1. d \in Windows /\ now[w] \in Nat /\ attempt[d] \in Nat
  BY NasaAssumption DEF TypeOK, Time
<1>2. ~InBackoff(d, now[w]) /\ ~Throttled(d, now[w]) /\ ~InFlight(d)
  BY <1>1, LockedAlone DEF StartFetch
<1>3. CASE cache[d] # NoFrame
  BY <1>1, <1>2, <1>3, NasaAssumption, IntervalType DEF Throttled
<1>4. CASE cache[d] = NoFrame
  <2>1. /\ backoff[d].count > 0
        /\ backoff[d].retryAt = attempt[d] + BackoffWait(backoff[d].count)
        /\ backoff[d].retryAt \in Nat
    BY <1>1, <1>2, <1>4 DEF Coherent, ColdAttemptBackedOff, TypeOK
  <2>2. ~(now[w] < backoff[d].retryAt)
    BY <1>2, <1>4, <2>1 DEF InBackoff, NoBackoff
  <2> QED
    BY <1>1, <1>4, <2>1, <2>2
<1> QED
  BY <1>3, <1>4

\* The record of a window's attempts only moves forward.
LEMMA AttemptsGrow ==
    ASSUME TypeOK, Coherent, NEW w \in Workers, StartFetch(w)
    PROVE  now[w] > attempt[window[w]]
<1> DEFINE d == window[w]
<1>1. d \in Windows /\ now[w] \in Nat /\ attempt[d] \in Nat \cup {None}
  BY NasaAssumption DEF TypeOK, Time
<1>2. CASE attempt[d] = None
  BY <1>1, <1>2 DEF None
<1>3. CASE attempt[d] # None /\ cache[d] # NoFrame
  BY <1>1, <1>3, QuerySpaced, IntervalType
<1>4. CASE attempt[d] # None /\ cache[d] = NoFrame
  <2>1. ~InFlight(d)
    BY <1>1, LockedAlone DEF StartFetch
  <2>2. backoff[d].count \in Nat \ {0}
    BY <1>1, <1>4, <2>1 DEF Coherent, ColdAttemptBackedOff, TypeOK
  <2>3. BackoffWait(backoff[d].count) \in Nat \ {0}
    BY <2>2, WaitType
  <2> QED
    BY <1>1, <1>4, <2>3, QuerySpaced
<1> QED
  BY <1>2, <1>3, <1>4

\* Served data and the two other refusals are not the throttled refusal.
LEMMA StatusOf ==
    /\ \A f, t : Served(f, t).status = "data"
    /\ \A k, s : Refused(k, s).status = k
BY DEF Served, Refused

\* The refusal of lines 188-200 of fire_data.py is unreachable, whatever the
\* interval and the backoff are set to.
THEOREM ThrottleAlwaysHasData == Spec => []ThrottleHasData
<1>1. Init => ThrottleHasData
  <2>1. NoReply.status # "throttled"
    BY DEF NoReply
  <2> QED
    BY <2>1 DEF Init, ThrottleHasData
<1>2. TypeOK /\ Coherent /\ ThrottleHasData /\ [Next]_vars => ThrottleHasData'
  <2> SUFFICES ASSUME TypeOK, Coherent, ThrottleHasData, [Next]_vars
               PROVE  ThrottleHasData'
    OBVIOUS
  <2>1. ASSUME NEW w \in Workers, NEW r, Answer(w, r), r.status # "throttled"
        PROVE  ThrottleHasData'
    BY <2>1 DEF Answer, ThrottleHasData, TypeOK
  <2>2. ASSUME NEW w \in Workers, RefreshThrottled(w) PROVE ThrottleHasData'
    <3>1. cache[window[w]] # NoFrame
      <4>1. SUFFICES ASSUME cache[window[w]] = NoFrame PROVE FALSE
        OBVIOUS
      <4>2. attempt[window[w]] # None /\ backoff[window[w]] = NoBackoff
        BY <2>2, <4>1 DEF RefreshThrottled, Throttled
      <4>3. window[w] \in Windows /\ ~InFlight(window[w])
        BY <2>2, LockedAlone DEF RefreshThrottled, TypeOK
      <4> QED
        BY <4>1, <4>2, <4>3 DEF Coherent, ColdAttemptBackedOff, NoBackoff
    <3>2. Answer(w, Served(cache[window[w]], now[w]))
      BY <2>2, <3>1 DEF RefreshThrottled, AnswerAndRelease
    <3> QED
      BY <2>1, <3>2, StatusOf
  <2>3. ASSUME NEW w \in Workers, NEW d \in Windows, Arrive(w, d)
        PROVE  ThrottleHasData'
    BY <2>3 DEF Arrive, ThrottleHasData, TypeOK, NoReply, Unconfigured
  <2>4. ASSUME Restart PROVE ThrottleHasData'
    BY <2>4 DEF Restart, ThrottleHasData, NoReply
  <2>5. ASSUME UNCHANGED reply PROVE ThrottleHasData'
    BY <2>5 DEF ThrottleHasData
  <2>6. ASSUME NEW w \in Workers,
               \/ CacheHit(w) \/ HitAfterWait(w) \/ BackoffActive(w)
               \/ FetchSucceeds(w) \/ FetchFailsStale(w) \/ FetchFailsCold(w)
        PROVE  ThrottleHasData'
    <3>1. PICK r : Answer(w, r) /\ r.status # "throttled"
      BY <2>6, StatusOf
      DEF CacheHit, HitAfterWait, BackoffActive, FetchSucceeds,
          FetchFailsStale, FetchFailsCold, AnswerAndRelease
    <3> QED
      BY <2>1, <3>1
  <2> QED
    BY <2>2, <2>3, <2>4, <2>5, <2>6
    DEF Next, Step, vars, CacheMiss, Acquire, StartFetch, Tick
<1> QED
  BY <1>1, <1>2, TypeCorrect, AlwaysCoherent, PTL DEF Spec

\* A reply changes only when its worker is answered, or starts anew.
LEMMA HonestAnswer ==
    ASSUME TypeOK, FreshLabelHonest, NEW w \in Workers, NEW r, Answer(w, r),
           r.status = "data" /\ ~r.stale => now[w] - r.frame.asOf < Interval
    PROVE  FreshLabelHonest'
BY DEF Answer, FreshLabelHonest, TypeOK

\* A held frame that is served as fresh at time t was asked for less than an
\* interval before t.
LEMMA HonestFrame ==
    ASSUME NEW f \in Frame, f.at = f.asOf, NEW t \in Time
    PROVE  ~Served(f, t).stale => t - Served(f, t).frame.asOf < Interval
<1>1. /\ Served(f, t).stale = ~IsFresh(f, t)
      /\ Served(f, t).frame = f
  BY DEF Served
<1>2. IsFresh(f, t) => t - f.asOf < Interval
  BY NasaAssumption, IntervalType DEF IsFresh, Age, Larger, Frame, Time
<1> QED
  BY <1>1, <1>2

\* A call that is still running has no reply yet.
Unanswered == \A w \in Workers : pc[w] # "idle" => reply[w] = NoReply

LEMMA AlwaysUnanswered == Spec => []Unanswered
<1>1. Init => Unanswered
  BY DEF Init, Unanswered
<1>2. TypeOK /\ Unanswered /\ [Next]_vars => Unanswered'
  BY DEF Next, Step, vars, Arrive, CacheHit, CacheMiss, Acquire, HitAfterWait,
         BackoffActive, RefreshThrottled, StartFetch, FetchSucceeds,
         FetchFailsStale, FetchFailsCold, Tick, Restart, AnswerAndRelease,
         Answer, Unanswered, TypeOK
<1> QED
  BY <1>1, <1>2, TypeCorrect, PTL DEF Spec

\* The freshness label is honest, however slow NASA or the threads are.
THEOREM FreshLabelAlwaysHonest == Spec => []FreshLabelHonest
<1>1. Init => FreshLabelHonest
  BY DEF Init, FreshLabelHonest, NoReply
<1>2. TypeOK /\ Coherent /\ Unanswered /\ FreshLabelHonest /\ [Next]_vars
        => FreshLabelHonest'
  <2> SUFFICES ASSUME TypeOK, Coherent, Unanswered, FreshLabelHonest, [Next]_vars
               PROVE  FreshLabelHonest'
    OBVIOUS
  <2>1. ASSUME NEW w \in Workers, NEW f \in Frame, f.at = f.asOf,
               Answer(w, Served(f, now[w]))
        PROVE  FreshLabelHonest'
    BY <2>1, HonestFrame, HonestAnswer, StatusOf DEF TypeOK
  <2>2. ASSUME NEW w \in Workers, NEW k, NEW s, k # "data", Answer(w, Refused(k, s))
        PROVE  FreshLabelHonest'
    BY <2>2, HonestAnswer, StatusOf
  <2>3. ASSUME NEW w \in Workers, CacheHit(w) \/ HitAfterWait(w)
        PROVE  FreshLabelHonest'
    <3> DEFINE f == cache[window[w]]
    <3>1. /\ window[w] \in Windows
          /\ f # NoFrame
          /\ Answer(w, Served(f, now[w]))
      BY <2>3 DEF CacheHit, HitAfterWait, AnswerAndRelease, IsFresh, TypeOK
    <3>2. f \in Frame /\ f.at = f.asOf
      BY <3>1 DEF TypeOK, Coherent, FrameOfAnAttempt
    <3> QED
      BY <2>1, <3>1, <3>2
  <2>4. ASSUME NEW w \in Workers, RefreshThrottled(w) PROVE FreshLabelHonest'
    <3> DEFINE f == cache[window[w]]
    <3>1. CASE f # NoFrame
      <4>1. f \in Frame /\ f.at = f.asOf
        BY <3>1 DEF TypeOK, Coherent, FrameOfAnAttempt
      <4> QED
        BY <2>1, <2>4, <3>1, <4>1 DEF RefreshThrottled, AnswerAndRelease
    <3>2. CASE f = NoFrame
      BY <2>2, <2>4, <3>2 DEF RefreshThrottled, AnswerAndRelease
    <3> QED
      BY <3>1, <3>2
  <2>5. ASSUME NEW w \in Workers, FetchSucceeds(w) PROVE FreshLabelHonest'
    <3>1. /\ StoredFrame(now[w]) \in Frame
          /\ StoredFrame(now[w]).at = StoredFrame(now[w]).asOf
          /\ Answer(w, Served(StoredFrame(now[w]), now[w]))
      BY <2>5, StoredType DEF FetchSucceeds, AnswerAndRelease, StoredFrame, TypeOK
    <3> QED
      BY <2>1, <3>1
  <2>6. ASSUME NEW w \in Workers, FetchFailsStale(w) PROVE FreshLabelHonest'
    <3>1. /\ window[w] \in Windows
          /\ seen[w] = cache[window[w]]
          /\ seen[w] # NoFrame
          /\ Answer(w, Served(seen[w], now[w]))
      BY <2>6 DEF FetchFailsStale, AnswerAndRelease, TypeOK, Coherent, FetchIsCurrent
    <3>2. seen[w] \in Frame /\ seen[w].at = seen[w].asOf
      BY <3>1 DEF TypeOK, Coherent, FrameOfAnAttempt
    <3> QED
      BY <2>1, <3>1, <3>2
  <2>7. ASSUME NEW w \in Workers, BackoffActive(w) \/ FetchFailsCold(w)
        PROVE  FreshLabelHonest'
    BY <2>2, <2>7 DEF BackoffActive, FetchFailsCold, AnswerAndRelease
  <2>8. ASSUME NEW w \in Workers, NEW d \in Windows, Arrive(w, d)
        PROVE  FreshLabelHonest'
    BY <2>8 DEF Arrive, FreshLabelHonest, TypeOK, NoReply, Unconfigured
  <2>9. ASSUME NEW w \in Workers, Acquire(w) PROVE FreshLabelHonest'
    <3>1. reply[w] = NoReply /\ reply' = reply /\ now' = [now EXCEPT ![w] = clock]
      BY <2>9 DEF Acquire, Unanswered
    <3>2. NoReply.status # "data"
      BY DEF NoReply
    <3> QED
      BY <3>1, <3>2 DEF FreshLabelHonest, TypeOK
  <2>10. ASSUME Restart PROVE FreshLabelHonest'
    BY <2>10 DEF Restart, FreshLabelHonest, NoReply
  <2>11. ASSUME UNCHANGED <<reply, now>> PROVE FreshLabelHonest'
    BY <2>11 DEF FreshLabelHonest
  <2> QED
    BY <2>3, <2>4, <2>5, <2>6, <2>7, <2>8, <2>9, <2>10, <2>11
    DEF Next, Step, vars, CacheMiss, StartFetch, Tick
<1> QED
  BY <1>1, <1>2, TypeCorrect, AlwaysCoherent, AlwaysUnanswered, PTL DEF Spec

-----------------------------------------------------------------------------
(* What a step may not do *)

\* A frame that is not fresh at time t was asked for an interval before t.
LEMMA ExpiredFrame ==
    ASSUME NEW f \in Frame, f # NoFrame, f.at = f.asOf, NEW t \in Time,
           ~IsFresh(f, t)
    PROVE  t >= f.asOf + Interval
BY NasaAssumption, IntervalType DEF IsFresh, Age, Larger, Frame, Time

\* The frame a fetching worker found, if any, is held still, and is an interval
\* older than the attempt.
LEMMA FetchingOverExpired ==
    ASSUME TypeOK, Coherent, NEW w \in Workers, pc[w] = "fetching"
    PROVE  LET d == window[w]
           IN  /\ d \in Windows
               /\ seen[w] = cache[d]
               /\ attempt[d] = now[w]
               /\ cache[d] # NoFrame => now[w] >= cache[d].asOf + Interval
<1> DEFINE d == window[w]
<1>1. /\ d \in Windows
      /\ now[w] \in Time
      /\ seen[w] = cache[d]
      /\ attempt[d] = now[w]
      /\ ~IsFresh(cache[d], now[w])
  BY DEF TypeOK, Coherent, FetchIsCurrent
<1>2. ASSUME cache[d] # NoFrame
      PROVE  now[w] >= cache[d].asOf + Interval
  <2>1. cache[d] \in Frame /\ cache[d].at = cache[d].asOf
    BY <1>1, <1>2 DEF TypeOK, Coherent, FrameOfAnAttempt
  <2> QED
    BY <1>1, <1>2, <2>1, ExpiredFrame
<1> QED
  BY <1>1, <1>2

\* An outage never costs the last good frame: only a newer one, asked for an
\* interval later, or the end of the process takes its place.
THEOREM LastGoodAlwaysKept == Spec => LastGoodKept
<1> DEFINE Kept == \/ Restart
                   \/ \A d \in Windows :
                        cache[d] # NoFrame =>
                            \/ cache'[d] = cache[d]
                            \/ cache'[d].asOf >= cache[d].asOf + Interval
<1>1. TypeOK /\ Coherent /\ [Next]_vars => [Kept]_vars
  <2> SUFFICES ASSUME TypeOK, Coherent, [Next]_vars
               PROVE  Kept \/ UNCHANGED vars
    OBVIOUS
  <2>1. ASSUME NEW w \in Workers, FetchSucceeds(w) PROVE Kept
    <3>1. /\ cache' = [cache EXCEPT ![window[w]] = StoredFrame(now[w])]
          /\ StoredFrame(now[w]).asOf = now[w]
      BY <2>1 DEF FetchSucceeds, StoredFrame
    <3>2. /\ window[w] \in Windows
          /\ cache[window[w]] # NoFrame =>
                now[w] >= cache[window[w]].asOf + Interval
      BY <2>1, FetchingOverExpired DEF FetchSucceeds
    <3> QED
      BY <3>1, <3>2 DEF TypeOK
  <2>2. CASE UNCHANGED cache
    BY <2>2
  <2> QED
    BY <2>1, <2>2
    DEF Next, Step, vars, shared, Arrive, CacheHit, CacheMiss, Acquire,
        HitAfterWait, BackoffActive, RefreshThrottled, StartFetch,
        FetchFailsStale, FetchFailsCold, Tick
<1> QED
  BY <1>1, TypeCorrect, AlwaysCoherent, PTL DEF Spec, LastGoodKept

\* The exits of fetch_fires that return data, and what they return
ServesHeld(w) ==
    /\ reply'[w] = Served(cache'[window[w]], now[w])
    /\ \/ FetchSucceeds(w)
       \/ IsFresh(cache'[window[w]], now[w])
       \/ /\ UNCHANGED shared
          /\ cache[window[w]] # NoFrame
          /\ ~IsFresh(cache[window[w]], now[w])
          /\ attempt[window[w]] # None
          /\ now[w] - attempt[window[w]] < Interval

\* A call that ends with data ends by one of them.
LEMMA DataIsHeld ==
    ASSUME TypeOK, Coherent, Unanswered, Next,
           NEW w \in Workers, Answers(w), reply'[w].status = "data"
    PROVE  ServesHeld(w)
<1> DEFINE d == window[w]
<1>0. /\ reply[w] = NoReply
      /\ NoReply.status = "none"
      /\ d \in Windows
      /\ now[w] \in Time
  BY DEF Unanswered, Answers, NoReply, TypeOK
<1>1. ASSUME NEW v \in Workers, v # w, NEW r, Answer(v, r)
      PROVE  FALSE
  BY <1>0, <1>1 DEF Answer, TypeOK, Answers
<1>2. ASSUME UNCHANGED reply PROVE FALSE
  BY <1>0, <1>2 DEF Answers
<1>3. ASSUME NEW r, Answer(w, r) PROVE reply'[w] = r
  BY <1>3 DEF Answer, TypeOK
<1>4. ASSUME NEW v \in Workers, NEW e \in Windows, Arrive(v, e) PROVE FALSE
  <2>1. v # w
    BY <1>4 DEF Arrive, Answers
  <2>2. reply'[w] = reply[w]
    BY <1>4, <2>1 DEF Arrive, TypeOK
  <2> QED
    BY <1>0, <2>2 DEF Answers
<1>5. ASSUME Restart PROVE FALSE
  BY <1>0, <1>5 DEF Restart, Answers
<1>6. ASSUME CacheHit(w) \/ HitAfterWait(w) PROVE ServesHeld(w)
  <2>1. /\ IsFresh(cache[d], now[w])
        /\ cache' = cache
        /\ Answer(w, Served(cache[d], now[w]))
    BY <1>6 DEF CacheHit, HitAfterWait, AnswerAndRelease, shared
  <2> QED
    BY <1>3, <2>1 DEF ServesHeld
<1>7. ASSUME RefreshThrottled(w) PROVE ServesHeld(w)
  <2>1. /\ ~IsFresh(cache[d], now[w])
        /\ UNCHANGED shared
        /\ attempt[d] # None
        /\ now[w] - attempt[d] < Interval
        /\ pc[w] = "locked"
    BY <1>7 DEF RefreshThrottled, Throttled
  <2>2. cache[d] # NoFrame
    <3>1. SUFFICES ASSUME cache[d] = NoFrame PROVE FALSE
      OBVIOUS
    <3>2. Answer(w, Refused("throttled",
                      RetryAfter(Interval - Larger(0, now[w] - attempt[d]))))
      BY <1>7, <3>1 DEF RefreshThrottled, AnswerAndRelease
    <3> QED
      BY <1>3, <3>2, StatusOf
  <2>3. Answer(w, Served(cache[d], now[w]))
    BY <1>7, <2>2 DEF RefreshThrottled, AnswerAndRelease
  <2> QED
    BY <1>3, <2>1, <2>2, <2>3 DEF ServesHeld, shared
<1>8. ASSUME FetchSucceeds(w) PROVE ServesHeld(w)
  <2>1. /\ cache'[d] = StoredFrame(now[w])
        /\ Answer(w, Served(StoredFrame(now[w]), now[w]))
    BY <1>0, <1>8 DEF FetchSucceeds, AnswerAndRelease, TypeOK
  <2> QED
    BY <1>3, <1>8, <2>1 DEF ServesHeld
<1>9. ASSUME FetchFailsStale(w) PROVE ServesHeld(w)
  <2>1. /\ seen[w] # NoFrame
        /\ UNCHANGED shared
        /\ Answer(w, Served(seen[w], now[w]))
        /\ pc[w] = "fetching"
    BY <1>9 DEF FetchFailsStale, AnswerAndRelease
  <2>2. /\ seen[w] = cache[d]
        /\ attempt[d] = now[w]
        /\ ~IsFresh(seen[w], now[w])
    BY <2>1 DEF Coherent, FetchIsCurrent
  <2>3. attempt[d] # None /\ now[w] - attempt[d] < Interval
    BY <1>0, <2>2, NasaAssumption, IntervalType DEF Time, None
  <2> QED
    BY <1>3, <2>1, <2>2, <2>3 DEF ServesHeld, shared
<1>10. ASSUME NEW k, NEW s, k # "data", Answer(w, Refused(k, s)) PROVE FALSE
  BY <1>3, <1>10, StatusOf
<1>11. ASSUME BackoffActive(w) \/ FetchFailsCold(w) PROVE FALSE
  BY <1>10, <1>11 DEF BackoffActive, FetchFailsCold, AnswerAndRelease
<1>12. ASSUME NEW v \in Workers, v # w, Step(v) PROVE FALSE
  BY <1>1, <1>2, <1>12
  DEF Step, CacheHit, CacheMiss, Acquire, HitAfterWait, BackoffActive,
      RefreshThrottled, StartFetch, FetchSucceeds, FetchFailsStale,
      FetchFailsCold, AnswerAndRelease
<1>13. ASSUME Step(w) PROVE ServesHeld(w)
  BY <1>2, <1>6, <1>7, <1>8, <1>9, <1>11, <1>13
  DEF Step, CacheMiss, Acquire, StartFetch
<1> QED
  BY <1>2, <1>4, <1>5, <1>12, <1>13 DEF Next, Tick

\* Data in an answer is the frame held when it is given: no thread brings back
\* an older one, whatever it read before it waited.
THEOREM RepliesAlwaysCurrent == Spec => RepliesCurrent
<1>1. TypeOK /\ Coherent /\ Unanswered /\ [Next]_vars
        => [\A w \in Workers :
              Answers(w) /\ reply'[w].status = "data"
                => reply'[w].frame = cache'[window[w]]]_vars
  <2>1. \A f, t : Served(f, t).frame = f
    BY DEF Served
  <2> QED
    BY <2>1, DataIsHeld DEF ServesHeld
<1> QED
  BY <1>1, TypeCorrect, AlwaysCoherent, AlwaysUnanswered, PTL
  DEF Spec, RepliesCurrent

\* Stale data is an answer only where a refresh was tried, less than an
\* interval ago, and failed.
THEOREM StaleAlwaysAfterFailure == Spec => StaleOnlyAfterFailedRefresh
<1> DEFINE Excused(w) ==
        LET d == window[w] IN
        Answers(w) /\ reply'[w].status = "data" /\ reply'[w].stale
            => /\ attempt[d] > cache'[d].asOf
               /\ now[w] - attempt[d] < Interval
<1>1. TypeOK /\ Coherent /\ Unanswered /\ [Next]_vars
        => [\A w \in Workers : Excused(w)]_vars
  <2> SUFFICES ASSUME TypeOK, Coherent, Unanswered, Next, NEW w \in Workers,
                      Answers(w), reply'[w].status = "data", reply'[w].stale
               PROVE  LET d == window[w]
                      IN  /\ attempt[d] > cache'[d].asOf
                          /\ now[w] - attempt[d] < Interval
    OBVIOUS
  <2> DEFINE d == window[w]
  <2>1. ServesHeld(w) /\ d \in Windows /\ now[w] \in Time
    BY DataIsHeld DEF TypeOK
  <2>2. ~IsFresh(cache'[d], now[w])
    <3>1. Served(cache'[d], now[w]).stale = ~IsFresh(cache'[d], now[w])
      BY DEF Served
    <3>2. reply'[w] = Served(cache'[d], now[w])
      BY <2>1 DEF ServesHeld
    <3> QED
      BY <3>1, <3>2
  <2>3. ~FetchSucceeds(w)
    <3>1. SUFFICES ASSUME FetchSucceeds(w) PROVE FALSE
      OBVIOUS
    <3>2. cache'[d] = StoredFrame(now[w])
      BY <2>1, <3>1 DEF FetchSucceeds, TypeOK
    <3>3. IsFresh(StoredFrame(now[w]), now[w])
      BY <2>1, StoredType, NasaAssumption, IntervalType
      DEF IsFresh, Age, Larger, StoredFrame, Time
    <3> QED
      BY <2>2, <3>2, <3>3
  <2>4. /\ cache'[d] = cache[d]
        /\ cache[d] # NoFrame
        /\ attempt[d] # None
        /\ now[w] - attempt[d] < Interval
    BY <2>1, <2>2, <2>3 DEF ServesHeld, shared
  <2>5. cache[d] \in Frame /\ cache[d].at = cache[d].asOf /\ attempt[d] \in Time
    BY <2>1, <2>4 DEF TypeOK, Coherent, FrameOfAnAttempt
  <2>6. now[w] >= cache[d].asOf + Interval
    BY <2>1, <2>2, <2>4, <2>5, ExpiredFrame
  <2>7. attempt[d] > cache[d].asOf
    BY <2>1, <2>4, <2>5, <2>6, NasaAssumption, IntervalType DEF Frame, Time
  <2> QED
    BY <2>4, <2>7
<1> QED
  BY <1>1, TypeCorrect, AlwaysCoherent, AlwaysUnanswered, PTL
  DEF Spec, StaleOnlyAfterFailedRefresh

-----------------------------------------------------------------------------
(* Retry-After *)

Refusal == {"backed_off", "upstream_error"}

\* While the client of w waits as its refusal told it, its window was tried
\* again, or has data, or is in a backoff that ends in time and in no exchange.
WaitCovered(w) ==
    LET d == window[w] IN
    \/ attempt[d] > now[w]
    \/ cache[d] # NoFrame
    \/ /\ ~InFlight(d)
       /\ backoff[d] # NoBackoff
       /\ now[w] < backoff[d].retryAt
       /\ backoff[d].retryAt <= now[w] + reply[w].retryAfter * PerSecond

WaitsCovered == \A w \in Workers : reply[w].status \in Refusal => WaitCovered(w)

\* A step that changes nothing of the wait of w
LEMMA WaitKept ==
    ASSUME TypeOK, NEW w \in Workers, WaitCovered(w),
           UNCHANGED <<attempt, cache, backoff>>,
           window'[w] = window[w], now'[w] = now[w], reply'[w] = reply[w],
           InFlight(window[w])' <=> InFlight(window[w])
    PROVE  WaitCovered(w)'
BY DEF WaitCovered

\* What the two exits that refuse with a backoff leave behind
LEMMA RefusalCovered ==
    ASSUME TypeOK, Coherent, NEW w \in Workers,
           BackoffActive(w) \/ FetchFailsCold(w)
    PROVE  WaitCovered(w)'
<1> DEFINE d == window[w]
<1>1. /\ d \in Windows
      /\ now[w] \in Nat
      /\ backoff[d] \in [count : Nat, retryAt : Nat]
      /\ now[w] \in Time
  BY NasaAssumption DEF TypeOK, Time
<1>2. /\ window' = window
      /\ now' = now
      /\ pc' = [pc EXCEPT ![w] = "idle"]
  BY DEF BackoffActive, FetchFailsCold, AnswerAndRelease, Answer
<1>3. ~InFlight(d)'
  <2>1. \A v \in Workers : pc[v] = "fetching" => v = w
    BY DEF BackoffActive, FetchFailsCold, Coherent, LockOwned
  <2> QED
    BY <1>2, <2>1 DEF InFlight, TypeOK
<1>4. CASE BackoffActive(w)
  <2> DEFINE left == backoff[d].retryAt - now[w]
             s == RetryAfter(left)
  <2>1. /\ backoff' = backoff
        /\ backoff[d] # NoBackoff
        /\ now[w] < backoff[d].retryAt
    BY <1>4 DEF BackoffActive, InBackoff, shared
  <2>2. reply'[w] = Refused("backed_off", s)
    BY <1>4 DEF BackoffActive, AnswerAndRelease, Answer, TypeOK
  <2>3. left \in Nat
    BY <1>1, <2>1
  <2>4. s \in Nat \ {0} /\ left < s * PerSecond
    BY <2>3, SecondsLost DEF RetryAfter
  <2>5. reply'[w].retryAfter = s
    BY <2>2, <2>4 DEF Refused, Larger
  <2>6. backoff[d].retryAt <= now[w] + s * PerSecond
    <3> HIDE DEF s
    <3>1. s * PerSecond \in Nat
      BY <2>4, NasaAssumption
    <3> QED
      BY <1>1, <2>4, <3>1
  <2> HIDE DEF s
  <2> QED
    BY <1>1, <1>2, <1>3, <2>1, <2>5, <2>6 DEF WaitCovered
<1>5. CASE FetchFailsCold(w)
  <2> DEFINE b == AfterColdFailure(backoff[d], now[w])
             s == BackoffDelay(b.count)
  <2>1. backoff'[d] = b
    BY <1>1, <1>5 DEF FetchFailsCold, TypeOK
  <2>2. /\ b.count = backoff[d].count + 1
        /\ b.retryAt = now[w] + BackoffWait(backoff[d].count + 1)
    BY <1>1, ColdFailureType
  <2>3. /\ BackoffDelay(backoff[d].count + 1) \in Nat \ {0}
        /\ BackoffWait(backoff[d].count + 1) \in Nat \ {0}
    BY <1>1, DelayType, WaitType
  <2>4. reply'[w] = Refused("upstream_error", s)
    BY <1>5 DEF FetchFailsCold, AnswerAndRelease, Answer, TypeOK
  <2> HIDE DEF b
  <2>5. /\ b # NoBackoff
        /\ s \in Nat \ {0}
        /\ b.retryAt = now[w] + s * PerSecond
        /\ s * PerSecond \in Nat \ {0}
    BY <1>1, <2>2, <2>3 DEF NoBackoff, BackoffWait
  <2> HIDE DEF s
  <2>6. reply'[w].retryAfter = s
    BY <2>4, <2>5 DEF Refused, Larger
  <2>7. now[w] < b.retryAt /\ b.retryAt <= now[w] + s * PerSecond
    BY <1>1, <2>5
  <2> QED
    BY <1>2, <1>3, <2>1, <2>5, <2>6, <2>7 DEF WaitCovered
<1> QED
  BY <1>4, <1>5

\* Only a client that was refused by the two exits is told to wait.
LEMMA WaitsCoveredStep ==
    TypeOK /\ Coherent /\ Unanswered /\ WaitsCovered /\ [Next]_vars
        => WaitsCovered'
<1> SUFFICES ASSUME TypeOK, Coherent, Unanswered, WaitsCovered, [Next]_vars,
                    NEW w \in Workers, reply'[w].status \in Refusal
             PROVE  WaitCovered(w)'
  BY DEF WaitsCovered
<1>0. /\ window[w] \in Windows
      /\ reply[w].status \in Refusal => WaitCovered(w)
  BY DEF WaitsCovered, TypeOK
<1>1. ASSUME UNCHANGED <<attempt, cache, backoff, window, now, reply>>,
             \A d \in Windows : InFlight(d)' <=> InFlight(d)
      PROVE  WaitCovered(w)'
  BY <1>0, <1>1, WaitKept
<1>2. ASSUME NEW v \in Workers, NEW r, Answer(v, r), UNCHANGED shared,
             pc[v] # "fetching", r.status \notin Refusal
      PROVE  WaitCovered(w)'
  <2>1. v # w
    BY <1>2 DEF Answer, TypeOK
  <2>2. \A d \in Windows : InFlight(d)' <=> InFlight(d)
    BY <1>2 DEF Answer, TypeOK, InFlight
  <2>3. UNCHANGED <<attempt, cache, backoff, window, now>> /\ reply'[w] = reply[w]
    BY <1>2, <2>1 DEF Answer, shared, TypeOK
  <2> QED
    BY <1>0, <2>2, <2>3, WaitKept
<1>3. ASSUME NEW v \in Workers, NEW e \in Windows, Arrive(v, e)
      PROVE  WaitCovered(w)'
  <2>1. v # w
    BY <1>3 DEF Arrive, TypeOK, NoReply, Unconfigured, Refusal
  <2>2. \A d \in Windows : InFlight(d)' <=> InFlight(d)
    BY <1>3 DEF Arrive, TypeOK, InFlight
  <2>3. /\ UNCHANGED <<attempt, cache, backoff>>
        /\ window'[w] = window[w]
        /\ now'[w] = now[w]
        /\ reply'[w] = reply[w]
    BY <1>3, <2>1 DEF Arrive, shared, TypeOK
  <2> QED
    BY <1>0, <2>2, <2>3, WaitKept
<1>4. ASSUME NEW v \in Workers, Acquire(v)
      PROVE  WaitCovered(w)'
  <2>1. reply[v] = NoReply /\ reply' = reply
    BY <1>4 DEF Acquire, Unanswered
  <2>2. v # w
    BY <2>1 DEF NoReply, Refusal
  <2>3. \A d \in Windows : InFlight(d)' <=> InFlight(d)
    BY <1>4 DEF Acquire, TypeOK, InFlight
  <2>4. /\ UNCHANGED <<attempt, cache, backoff>>
        /\ window'[w] = window[w]
        /\ now'[w] = now[w]
    BY <1>4, <2>2 DEF Acquire, shared, TypeOK
  <2> QED
    BY <1>0, <2>1, <2>3, <2>4, WaitKept
<1>5. ASSUME NEW v \in Workers, BackoffActive(v)
      PROVE  WaitCovered(w)'
  <2>1. CASE v = w
    BY <1>5, <2>1, RefusalCovered
  <2>2. CASE v # w
    <3>1. /\ UNCHANGED <<attempt, cache, backoff, window, now>>
          /\ reply'[w] = reply[w]
          /\ pc' = [pc EXCEPT ![v] = "idle"]
          /\ pc[v] = "locked"
      BY <1>5, <2>2 DEF BackoffActive, AnswerAndRelease, Answer, shared, TypeOK
    <3>2. \A d \in Windows : InFlight(d)' <=> InFlight(d)
      BY <3>1 DEF TypeOK, InFlight
    <3> QED
      BY <1>0, <3>1, <3>2, WaitKept
  <2> QED
    BY <2>1, <2>2
<1>6. ASSUME NEW v \in Workers, StartFetch(v)
      PROVE  WaitCovered(w)'
  <2> DEFINE d == window[w]
             e == window[v]
  <2>1. /\ attempt' = [attempt EXCEPT ![e] = now[v]]
        /\ UNCHANGED <<cache, backoff, window, now, reply>>
        /\ pc' = [pc EXCEPT ![v] = "fetching"]
        /\ pc[v] = "locked"
        /\ ~InBackoff(e, now[v])
    BY <1>6 DEF StartFetch
  <2>2. now[v] > attempt[e] /\ e \in Windows /\ now[v] \in Nat /\ now[w] \in Nat
    BY <1>6, AttemptsGrow, NasaAssumption DEF TypeOK, Time
  <2>3. CASE e # d
    <3>1. attempt'[d] = attempt[d]
      BY <1>0, <2>1, <2>3 DEF TypeOK
    <3>2. InFlight(d)' <=> InFlight(d)
      BY <2>1, <2>3 DEF TypeOK, InFlight
    <3> QED
      BY <1>0, <2>1, <3>1, <3>2 DEF WaitCovered
  <2>4. CASE e = d
    <3>1. attempt'[d] = now[v]
      BY <1>0, <2>1, <2>4 DEF TypeOK
    <3>2. attempt[d] > now[w] => now[v] > now[w]
      BY <1>0, <2>2, <2>4, NasaAssumption DEF TypeOK, Time, None
    <3>3. ASSUME cache[d] = NoFrame, backoff[d] # NoBackoff,
                 now[w] < backoff[d].retryAt
          PROVE  now[v] > now[w]
      <4>1. ~(now[v] < backoff[d].retryAt) /\ backoff[d].retryAt \in Nat
        BY <1>0, <2>1, <2>4, <3>3 DEF InBackoff, TypeOK
      <4> QED
        BY <2>2, <3>3, <4>1
    <3> QED
      BY <1>0, <2>1, <3>1, <3>2, <3>3 DEF WaitCovered
  <2> QED
    BY <2>3, <2>4
<1>7. ASSUME NEW v \in Workers, FetchSucceeds(v)
      PROVE  WaitCovered(w)'
  <2> DEFINE d == window[w]
             e == window[v]
  <2>1. /\ cache' = [cache EXCEPT ![e] = StoredFrame(now[v])]
        /\ backoff' = [backoff EXCEPT ![e] = NoBackoff]
        /\ UNCHANGED <<attempt, window, now>>
        /\ pc' = [pc EXCEPT ![v] = "idle"]
        /\ reply' = [reply EXCEPT ![v] = Served(StoredFrame(now[v]), now[v])]
        /\ StoredFrame(now[v]) # NoFrame
    BY <1>7, StoredType DEF FetchSucceeds, AnswerAndRelease, Answer, TypeOK
  <2>2. v # w /\ reply'[w] = reply[w]
    BY <2>1, StatusOf DEF TypeOK, Refusal
  <2>3. CASE e = d
    BY <1>0, <2>1, <2>3 DEF WaitCovered, TypeOK
  <2>4. CASE e # d
    <3>1. cache'[d] = cache[d] /\ backoff'[d] = backoff[d]
      BY <1>0, <2>1, <2>4 DEF TypeOK
    <3>2. InFlight(d)' <=> InFlight(d)
      BY <2>1, <2>4 DEF TypeOK, InFlight
    <3> QED
      BY <1>0, <2>1, <2>2, <3>1, <3>2 DEF WaitCovered
  <2> QED
    BY <2>3, <2>4
<1>8. ASSUME NEW v \in Workers, FetchFailsCold(v)
      PROVE  WaitCovered(w)'
  <2> DEFINE d == window[w]
             e == window[v]
  <2>1. CASE v = w
    BY <1>8, <2>1, RefusalCovered
  <2>2. CASE v # w
    <3>1. /\ UNCHANGED <<attempt, cache, window, now>>
          /\ reply'[w] = reply[w]
          /\ pc[v] = "fetching"
          /\ pc' = [pc EXCEPT ![v] = "idle"]
          /\ \A x \in Windows : x # e => backoff'[x] = backoff[x]
      BY <1>8, <2>2 DEF FetchFailsCold, AnswerAndRelease, Answer, TypeOK
    <3>2. CASE e = d
      <4>1. InFlight(d)
        BY <3>1, <3>2 DEF InFlight
      <4> QED
        BY <1>0, <3>1, <4>1 DEF WaitCovered
    <3>3. CASE e # d
      <4>1. InFlight(d)' <=> InFlight(d)
        BY <3>1, <3>3 DEF TypeOK, InFlight
      <4>2. backoff'[d] = backoff[d]
        BY <1>0, <3>1, <3>3
      <4> QED
        BY <1>0, <3>1, <4>1, <4>2 DEF WaitCovered
    <3> QED
      BY <3>2, <3>3
  <2> QED
    BY <2>1, <2>2
<1>9. ASSUME NEW v \in Workers, FetchFailsStale(v)
      PROVE  WaitCovered(w)'
  <2>1. /\ cache[window[v]] # NoFrame
        /\ UNCHANGED <<attempt, cache, backoff, window, now>>
        /\ pc[v] = "fetching"
        /\ pc' = [pc EXCEPT ![v] = "idle"]
        /\ reply' = [reply EXCEPT ![v] = Served(seen[v], now[v])]
    BY <1>9, FetchingOverExpired
    DEF FetchFailsStale, AnswerAndRelease, Answer, shared
  <2>2. v # w /\ reply'[w] = reply[w]
    BY <2>1, StatusOf DEF TypeOK, Refusal
  <2>3. window[v] # window[w] => (InFlight(window[w])' <=> InFlight(window[w]))
    BY <2>1 DEF TypeOK, InFlight
  <2> QED
    BY <1>0, <2>1, <2>2, <2>3 DEF WaitCovered
<1>10. ASSUME Restart PROVE FALSE
  BY <1>10 DEF Restart, NoReply, Refusal
<1>11. ASSUME NEW v \in Workers, CacheMiss(v) PROVE WaitCovered(w)'
  BY <1>1, <1>11 DEF CacheMiss, shared, InFlight, TypeOK
<1>12. ASSUME Tick \/ UNCHANGED vars PROVE WaitCovered(w)'
  BY <1>1, <1>12 DEF Tick, vars, shared, InFlight
<1>13. ASSUME NEW v \in Workers,
              CacheHit(v) \/ HitAfterWait(v) \/ RefreshThrottled(v)
       PROVE  WaitCovered(w)'
  <2>1. PICK r : Answer(v, r) /\ r.status \notin Refusal
    BY <1>13, StatusOf
    DEF CacheHit, HitAfterWait, RefreshThrottled, AnswerAndRelease, Refusal
  <2> QED
    BY <1>2, <1>13, <2>1 DEF CacheHit, HitAfterWait, RefreshThrottled
<1> QED
  BY <1>3, <1>4, <1>5, <1>6, <1>7, <1>8, <1>9, <1>10, <1>11, <1>12, <1>13
  DEF Next, Step

\* A client that waits the whole seconds its Retry-After says does not meet the
\* failure it was told of, although int() drops the fraction of what is left:
\* by then its backoff is over, or NASA was asked again since.
THEOREM RetryAfterAlwaysSuffices == Spec => []RetryAfterSuffices
<1>1. Init => WaitsCovered
  BY DEF Init, WaitsCovered, NoReply, Refusal
<1>2. TypeOK /\ Coherent /\ WaitsCovered => RetryAfterSuffices
  <2> SUFFICES ASSUME TypeOK, Coherent, WaitsCovered, NEW w \in Workers,
                      reply[w].status \in Refusal, ~(attempt[window[w]] > now[w])
               PROVE  backoff[window[w]].retryAt
                        <= now[w] + reply[w].retryAfter * PerSecond
    BY DEF RetryAfterSuffices, Refusal
  <2>1. window[w] \in Windows /\ now[w] \in Nat /\ WaitCovered(w)
    BY NasaAssumption DEF TypeOK, WaitsCovered, Time
  <2>2. CASE cache[window[w]] # NoFrame
    <3>1. backoff[window[w]].retryAt = 0
      BY <2>1, <2>2 DEF Coherent, FrameOfAnAttempt, NoBackoff
    <3>2. reply[w] \in ErrorReply
      BY DEF TypeOK, DataReply, NoReply, Unconfigured, Refusal
    <3>3. reply[w].retryAfter * PerSecond \in Nat
      BY <3>2, NasaAssumption DEF ErrorReply
    <3> QED
      BY <2>1, <3>1, <3>3
  <2>3. CASE cache[window[w]] = NoFrame
    BY <2>1, <2>3 DEF WaitCovered
  <2> QED
    BY <2>2, <2>3
<1> QED
  BY <1>1, <1>2, WaitsCoveredStep, TypeCorrect, AlwaysCoherent,
     AlwaysUnanswered, PTL
  DEF Spec

-----------------------------------------------------------------------------
(* Refinement: what NASA sees *)

\* Steps outside the exchange with NASA change nothing that NASA can see.
LEMMA Unseen ==
    ASSUME UNCHANGED <<attempt, cache, backoff>>,
           \A d \in Windows : InFlight(d)' <=> InFlight(d)
    PROVE  UNCHANGED Protection!vars
BY DEF Protection!vars

\* One API instance has at most one query in flight, and spaces the queries of
\* a window by the cache interval once it holds data and by the growing, capped
\* backoff while it holds none.
THEOREM InstanceProtectsNasa == Spec => ProtectsNasa
<1>1. Init => Protection!Init
  BY DEF Init, Protection!Init, InFlight, NoBackoff, None
<1>2. TypeOK /\ Coherent /\ TypeOK' /\ Coherent' /\ [Next]_vars
        => [Protection!Next]_Protection!vars
  <2> SUFFICES ASSUME TypeOK, Coherent, TypeOK', [Next]_vars
               PROVE  Protection!Next \/ UNCHANGED Protection!vars
    OBVIOUS
  <2>1. ASSUME NEW w \in Workers, StartFetch(w) PROVE Protection!Next
    <3> DEFINE e == window[w]
    <3>1. e \in Windows /\ now[w] \in Time
      BY DEF TypeOK
    <3>2. \A d \in Windows : ~InFlight(d)
      BY <2>1, LockedAlone DEF StartFetch
    <3>3. \A d \in Windows : InFlight(d)' <=> d = e
      BY <2>1, <3>1, <3>2 DEF StartFetch, InFlight, TypeOK
    <3>4. /\ attempt' = [attempt EXCEPT ![e] = now[w]]
          /\ cache' = cache
          /\ backoff' = backoff
      BY <2>1 DEF StartFetch
    <3>5. ASSUME attempt[e] # None
          PROVE  now[w] >= attempt[e] + (IF cache[e] # NoFrame THEN Interval
                                         ELSE BackoffWait(backoff[e].count))
      BY <2>1, <3>5, QuerySpaced
    <3>6. Protection!Query(e, now[w])
      BY <3>1, <3>2, <3>3, <3>4, <3>5
      DEF Protection!Query, Protection!Interval, None
    <3> QED
      BY <3>1, <3>6 DEF Protection!Next
  <2>2. ASSUME NEW w \in Workers,
               FetchSucceeds(w) \/ FetchFailsStale(w) \/ FetchFailsCold(w)
        PROVE  Protection!Next
    <3>0. PICK e \in Windows : e = window[w]
      BY DEF TypeOK
    <3>1. now[w] \in Time /\ pc[w] = "fetching"
      BY <2>2 DEF FetchSucceeds, FetchFailsStale, FetchFailsCold, TypeOK
    <3>2. \A d \in Windows : InFlight(d) <=> d = e
      BY <3>0, <3>1 DEF Coherent, LockOwned, InFlight
    <3>3. \A d \in Windows : ~InFlight(d)'
      <4>1. pc' = [pc EXCEPT ![w] = "idle"]
        BY <2>2 DEF FetchSucceeds, FetchFailsStale, FetchFailsCold,
                    AnswerAndRelease, Answer
      <4>2. \A v \in Workers : pc[v] = "fetching" => v = w
        BY <3>1 DEF Coherent, LockOwned
      <4> QED
        BY <4>1, <4>2 DEF InFlight, TypeOK
    <3>4. CASE FetchSucceeds(w)
      <4>1. /\ attempt' = attempt
            /\ cache' = [cache EXCEPT ![e] = StoredFrame(now[w])]
            /\ backoff' = [backoff EXCEPT ![e] = NoBackoff]
            /\ StoredFrame(now[w]) # NoFrame
        BY <3>0, <3>1, <3>4, StoredType DEF FetchSucceeds
      <4>2. \A d \in Windows :
              /\ (cache[d] # NoFrame)' <=> (cache[d] # NoFrame \/ d = e)
              /\ (backoff[d].count)' = IF d = e THEN 0 ELSE backoff[d].count
        BY <4>1 DEF TypeOK, NoBackoff
      <4>3. Protection!Succeed(e)
        BY <3>2, <3>3, <4>1, <4>2 DEF Protection!Succeed
      <4> QED
        BY <4>3 DEF Protection!Next
    <3>5. CASE FetchFailsStale(w)
      <4>1. UNCHANGED <<attempt, cache, backoff>> /\ cache[e] # NoFrame
        BY <3>0, <3>1, <3>5 DEF FetchFailsStale, shared, Coherent, FetchIsCurrent
      <4>2. Protection!Fail(e)
        BY <3>1, <3>2, <3>3, <4>1 DEF Protection!Fail
      <4> QED
        BY <4>2 DEF Protection!Next
    <3>6. CASE FetchFailsCold(w)
      <4> DEFINE b == AfterColdFailure(backoff[e], now[w])
      <4>1. /\ UNCHANGED <<attempt, cache>>
            /\ cache[e] = NoFrame
            /\ backoff' = [backoff EXCEPT ![e] = b]
        BY <3>0, <3>1, <3>6 DEF FetchFailsCold, Coherent, FetchIsCurrent
      <4>2. b.count = backoff[e].count + 1
        BY <3>1, ColdFailureType DEF TypeOK
      <4> HIDE DEF b
      <4>3. \A d \in Windows :
              (backoff[d].count)' = IF d = e THEN backoff[d].count + 1
                                             ELSE backoff[d].count
        BY <4>1, <4>2 DEF TypeOK
      <4>4. Protection!Fail(e)
        BY <3>2, <3>3, <4>1, <4>3 DEF Protection!Fail
      <4> QED
        BY <4>4 DEF Protection!Next
    <3> QED
      BY <2>2, <3>4, <3>5, <3>6
  <2>3. ASSUME Restart PROVE Protection!Next
    BY <2>3 DEF Restart, Protection!Next, Protection!Replaced, InFlight,
                NoBackoff, None
  <2>4. ASSUME NEW w \in Workers, NEW d \in Windows, Arrive(w, d)
        PROVE  UNCHANGED Protection!vars
    BY <2>4, Unseen DEF Arrive, shared, InFlight, TypeOK
  <2>5. ASSUME NEW w \in Workers, NEW r, Answer(w, r), pc[w] # "fetching",
               UNCHANGED shared
        PROVE  UNCHANGED Protection!vars
    BY <2>5, Unseen DEF Answer, shared, InFlight, TypeOK
  <2>6. ASSUME NEW w \in Workers, CacheMiss(w) \/ Acquire(w)
        PROVE  UNCHANGED Protection!vars
    BY <2>6, Unseen DEF CacheMiss, Acquire, shared, InFlight, TypeOK
  <2>7. ASSUME Tick \/ UNCHANGED vars PROVE UNCHANGED Protection!vars
    BY <2>7, Unseen DEF Tick, vars, shared, InFlight
  <2> QED
    BY <2>1, <2>2, <2>3, <2>4, <2>5, <2>6, <2>7
    DEF Next, Step, CacheHit, HitAfterWait, BackoffActive, RefreshThrottled,
        AnswerAndRelease
<1> QED
  BY <1>1, <1>2, TypeCorrect, AlwaysCoherent, PTL
  DEF Spec, ProtectsNasa, Protection!Spec
=============================================================================
