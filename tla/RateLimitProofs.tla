-------------------------- MODULE RateLimitProofs --------------------------
(***************************************************************************)
(* Proofs about RateLimit for every number of requests and instances and   *)
(* every capacity, refill time and expiry the assumptions allow.           *)
(***************************************************************************)
EXTENDS RateLimit, FiniteSetTheorems, TLAPS

-----------------------------------------------------------------------------
(* consume_bucket *)

State == [tokens : Nat, lastRefill : Time, expiresAt : Nat]

\* The products of the settings, for a capacity c, a refill time n in seconds,
\* an expiry e and p ticks in a second
LEMMA Products ==
    ASSUME NEW c \in Nat, c > 0, NEW n \in Nat, n > 0, NEW p \in Nat, p > 0,
           NEW e \in Nat, e >= c * n
    PROVE  /\ n * p \in Nat /\ n * p > 0
           /\ c * (n * p) \in Nat
           /\ n * p <= c * (n * p)
           /\ c * (n * p) <= e * p
           /\ e * p \in Nat
<1>1. \A x, y \in Nat : x * y \in Nat /\ (x > 0 /\ y > 0 => x * y > 0)
  BY SMT
<1>2. \A x, y, z \in Nat : x <= y => x * z <= y * z
  BY SMT
<1>3. n * p \in Nat /\ n * p > 0 /\ c * n \in Nat /\ e * p \in Nat
  BY <1>1
<1>4. c * (n * p) = (c * n) * p /\ 1 * (n * p) = n * p
  BY SMT
<1>5. 1 * (n * p) <= c * (n * p) /\ (c * n) * p <= e * p
  BY <1>2, <1>3
<1> QED
  BY <1>1, <1>3, <1>4, <1>5

LEMMA ConfigType ==
    ASSUME NEW b \in Buckets
    PROVE  /\ Refill(b) \in Nat /\ Refill(b) > 0
           /\ Capacity(b) \in Nat /\ Capacity(b) > 0
           /\ Full(b) \in Nat
           /\ Refill(b) <= Full(b)
           /\ Full(b) <= Lifetime
           /\ Lifetime \in Nat
<1>1. CASE b = Shared
  <2>1. /\ Refill(b) = SharedRefill * PerSecond
        /\ Full(b) = SharedCapacity * (SharedRefill * PerSecond)
        /\ Capacity(b) = SharedCapacity
    BY <1>1 DEF Full, Capacity, Refill
  <2> QED
    BY <2>1, Products, RateAssumption, ExpiryAssumption DEF Lifetime
<1>2. CASE b # Shared
  <2>1. /\ Refill(b) = GuardRefill * PerSecond
        /\ Full(b) = GuardCapacity * (GuardRefill * PerSecond)
        /\ Capacity(b) = GuardCapacity
    BY <1>2 DEF Full, Capacity, Refill
  <2> QED
    BY <2>1, Products, RateAssumption, ExpiryAssumption DEF Lifetime
<1> QED
  BY <1>1, <1>2

\* Rounding up never leaves a part of a second out.
LEMMA CeilingCovers ==
    ASSUME NEW n \in Nat
    PROVE  /\ Ceiling(n) \in Nat
           /\ n <= Ceiling(n) * PerSecond
BY RateAssumption, SMT DEF Ceiling

\* A bucket never offers more than its capacity.
LEMMA AvailableType ==
    ASSUME NEW b \in Buckets, NEW s \in State, s.tokens <= Full(b), NEW t \in Time
    PROVE  /\ Available(b, s, t) \in Nat
           /\ Available(b, s, t) <= Full(b)
BY ConfigType, RateAssumption DEF Available, Smaller, Larger, State, Time

\* What a grant leaves is a state of the bucket.
LEMMA ChargedType ==
    ASSUME NEW b \in Buckets, NEW s \in State, s.tokens <= Full(b), NEW t \in Time,
           Allows(b, s, t)
    PROVE  /\ Charged(b, s, t) \in State
           /\ Charged(b, s, t).tokens <= Full(b)
           /\ Charged(b, s, t).tokens = Available(b, s, t) - Refill(b)
           /\ Charged(b, s, t).lastRefill = t
           /\ Charged(b, s, t).expiresAt = t + Lifetime
<1>1. /\ Available(b, s, t) \in Nat
      /\ Available(b, s, t) <= Full(b)
      /\ Refill(b) \in Nat
      /\ Full(b) \in Nat
      /\ Available(b, s, t) >= Refill(b)
  BY AvailableType, ConfigType DEF Allows
<1>2. Available(b, s, t) - Refill(b) \in Nat /\ t + Lifetime \in Nat
  BY <1>1, ConfigType, RateAssumption DEF Time
<1> QED
  BY <1>1, <1>2 DEF Charged, State

\* A bucket refills a unit a tick at most: expiry, which fills it, comes no
\* earlier than the refill would have filled it.
LEMMA AvailableRefills ==
    ASSUME NEW b \in Buckets, NEW s \in State, s.tokens <= Full(b),
           s.expiresAt = s.lastRefill + Lifetime, NEW t \in Time
    PROVE  Available(b, s, t) <= s.tokens + Larger(0, t - s.lastRefill)
<1>1. /\ s.tokens \in Nat
      /\ s.lastRefill \in Nat
      /\ t \in Nat
      /\ Full(b) \in Nat
      /\ Full(b) <= Lifetime
      /\ Lifetime \in Nat
  BY ConfigType, RateAssumption DEF State, Time
<1>2. CASE s.expiresAt <= t
  <2>1. t - s.lastRefill >= Lifetime
    BY <1>1, <1>2
  <2>2. Available(b, s, t) = Full(b)
    BY <1>2 DEF Available
  <2> QED
    BY <1>1, <2>1, <2>2 DEF Larger
<1>3. CASE ~(s.expiresAt <= t)
  <2>1. Available(b, s, t) = Smaller(Full(b), s.tokens + Larger(0, t - s.lastRefill))
    BY <1>3 DEF Available
  <2> QED
    BY <1>1, <2>1 DEF Smaller, Larger
<1> QED
  BY <1>2, <1>3

-----------------------------------------------------------------------------
(* Types *)

LEMMA InitType == Init => TypeOK
<1> SUFFICES ASSUME Init PROVE TypeOK
  OBVIOUS
<1>1. 0 \in Time /\ NoState \in State /\ NoState.tokens = 0
  BY RateAssumption DEF Time, NoState, State
<1>2. \A b \in Buckets : bucket[b] = NoState /\ Full(b) \in Nat
  BY ConfigType DEF Init
<1>3. \A b \in Buckets : bucket[b].tokens <= Full(b)
  BY <1>1, <1>2
<1> QED
  BY <1>1, <1>3 DEF Init, TypeOK, State

\* The ledger and the state a grant leaves are well typed.
LEMMA ConsumeType ==
    ASSUME TypeOK, NEW b \in Buckets, NEW t \in Time, Consume(b, t)
    PROVE  /\ bucket' \in [Buckets -> State]
           /\ \A c \in Buckets : bucket'[c].tokens <= Full(c)
           /\ granted' \in [Buckets -> Nat]
           /\ first' \in [Buckets -> Time]
           /\ rewound' \in [Buckets -> Nat]
           /\ upTo' \in [Time -> Nat]
<1>1. /\ Charged(b, bucket[b], t) \in State
      /\ Charged(b, bucket[b], t).tokens <= Full(b)
  BY ChargedType DEF Consume, TypeOK, State
<1>2. bucket' \in [Buckets -> State] /\ \A c \in Buckets : bucket'[c].tokens <= Full(c)
  BY <1>1 DEF Consume, TypeOK, State
<1>3. granted' \in [Buckets -> Nat] /\ first' \in [Buckets -> Time]
  BY DEF Consume, TypeOK
<1>4. Larger(0, bucket[b].lastRefill - t) \in Nat
  BY RateAssumption DEF Larger, TypeOK, Time
<1>5. rewound' \in [Buckets -> Nat]
  BY <1>4 DEF Consume, TypeOK
<1>6. upTo' \in [Time -> Nat]
  BY DEF Consume, TypeOK
<1> QED
  BY <1>2, <1>3, <1>5, <1>6

\* Every step preserves the types, and no bucket is overdrawn or overfull.
LEMMA NextType == TypeOK /\ [Next]_vars => TypeOK'
<1> SUFFICES ASSUME TypeOK, [Next]_vars PROVE TypeOK'
  OBVIOUS
<1>0. 0 \in Time /\ Shared \in Buckets /\ \A i \in Instances : i \in Buckets
  BY RateAssumption DEF Time, Buckets
<1>1. ASSUME NEW r \in Requests, NEW i \in Instances, Arrive(r, i) PROVE TypeOK'
  BY <1>1 DEF Arrive, ledger, TypeOK
<1>2. ASSUME NEW r \in Requests, GuardAdmits(r) PROVE TypeOK'
  <2>1. instance[r] \in Buckets /\ now[r] \in Time /\ Consume(instance[r], now[r])
    BY <1>0, <1>2 DEF GuardAdmits, TypeOK
  <2> QED
    BY <1>2, <2>1, ConsumeType DEF GuardAdmits, TypeOK, State
<1>3. ASSUME NEW r \in Requests, GuardRejects(r) PROVE TypeOK'
  BY <1>0, <1>3 DEF GuardRejects, Finish, ledger, TypeOK
<1>4. ASSUME NEW r \in Requests, StoreAdmits(r) \/ StoreFailsAfterCommit(r)
      PROVE  TypeOK'
  <2>1. now[r] \in Time /\ Consume(Shared, now[r]) /\ Pass(r) /\ Finish(r)
    BY <1>4 DEF StoreAdmits, StoreFailsAfterCommit, TypeOK
  <2> QED
    BY <1>0, <2>1, ConsumeType DEF Pass, Finish, TypeOK, State
<1>5. ASSUME NEW r \in Requests, StoreRejects(r) PROVE TypeOK'
  BY <1>0, <1>5 DEF StoreRejects, Finish, ledger, TypeOK
<1>6. ASSUME NEW r \in Requests, StoreFails(r) PROVE TypeOK'
  BY <1>0, <1>6 DEF StoreFails, Pass, Finish, TypeOK
<1>7. ASSUME Tick PROVE TypeOK'
  BY <1>7, RateAssumption DEF Tick, ledger, TypeOK, Time
<1>8. ASSUME NEW i \in Instances, Restart(i) PROVE TypeOK'
  <2>1. NoState \in State /\ NoState.tokens <= Full(i)
    BY <1>0, ConfigType DEF NoState, State
  <2> QED
    BY <1>0, <1>8, <2>1 DEF Restart, TypeOK, State
<1>9. ASSUME UNCHANGED vars PROVE TypeOK'
  BY <1>9 DEF vars, ledger, TypeOK
<1> QED
  BY <1>1, <1>2, <1>3, <1>4, <1>5, <1>6, <1>7, <1>8, <1>9 DEF Next

\* No interleaving of grants, refusals, outages and restarts overdraws or
\* overfills a bucket.
THEOREM TypeCorrect == Spec => []TypeOK
BY InitType, NextType, PTL DEF Spec

-----------------------------------------------------------------------------
(* The ledger of grants *)

\* A bucket that granted nothing is untouched; one that did expires its
\* lifetime after its latest grant.
LedgerMatches ==
    \A b \in Buckets :
        IF granted[b] = 0
        THEN bucket[b] = NoState /\ rewound[b] = 0 /\ first[b] = 0
        ELSE bucket[b].expiresAt = bucket[b].lastRefill + Lifetime

\* One grant keeps its bucket's account: what it takes is covered by the tokens
\* that were there, the time since, or the distance the samples went back.
LEMMA GrantPays ==
    ASSUME TypeOK, LedgerMatches, GrantsArePaid,
           NEW b \in Buckets, NEW t \in Time, Consume(b, t)
    PROVE  /\ granted'[b] * Refill(b) + bucket'[b].tokens
                <= Full(b) + (bucket'[b].lastRefill - first'[b]) + rewound'[b]
           /\ granted'[b] # 0
           /\ bucket'[b].expiresAt = bucket'[b].lastRefill + Lifetime
<1> DEFINE s == bucket[b]
           a == Available(b, s, t)
           g == granted[b]
           R == Refill(b)
<1>1. /\ s \in State
      /\ s.tokens <= Full(b)
      /\ s.tokens \in Nat
      /\ s.lastRefill \in Nat
      /\ g \in Nat
      /\ first[b] \in Nat
      /\ rewound[b] \in Nat
      /\ t \in Nat
  BY RateAssumption DEF TypeOK, State, Time
<1>2. /\ R \in Nat
      /\ Full(b) \in Nat
      /\ Full(b) <= Lifetime
      /\ Lifetime \in Nat
  BY ConfigType, RateAssumption
<1>3. /\ a \in Nat
      /\ a <= Full(b)
  BY <1>1, AvailableType
<1>4. /\ bucket'[b].tokens = a - R
      /\ bucket'[b].lastRefill = t
      /\ bucket'[b].expiresAt = t + Lifetime
  BY <1>1, ChargedType DEF Consume, TypeOK
<1>5. /\ granted'[b] = g + 1
      /\ first'[b] = IF g = 0 THEN t ELSE first[b]
      /\ rewound'[b] = IF g = 0 THEN 0
                       ELSE rewound[b] + Larger(0, s.lastRefill - t)
  BY DEF Consume, TypeOK
<1>6. (g + 1) * R = g * R + R /\ g * R \in Nat
  BY <1>1, <1>2
<1>7. CASE g = 0
  <2>1. (g + 1) * R = R
    BY <1>2, <1>6, <1>7
  <2> QED
    BY <1>1, <1>2, <1>3, <1>4, <1>5, <1>7, <2>1
<1>8. CASE g # 0
  <2>1. s.expiresAt = s.lastRefill + Lifetime
    BY <1>8 DEF LedgerMatches
  <2>2. g * R + s.tokens <= Full(b) + (s.lastRefill - first[b]) + rewound[b]
    BY DEF GrantsArePaid
  <2>3. a <= s.tokens + Larger(0, t - s.lastRefill)
    BY <1>1, <2>1, AvailableRefills
  <2>4. Larger(0, t - s.lastRefill) - Larger(0, s.lastRefill - t) = t - s.lastRefill
    BY <1>1 DEF Larger
  <2>5. Larger(0, t - s.lastRefill) \in Nat /\ Larger(0, s.lastRefill - t) \in Nat
    BY <1>1 DEF Larger
  <2> HIDE DEF a, g, R, s
  <2>6. first'[b] = first[b] /\ rewound'[b] = rewound[b] + Larger(0, s.lastRefill - t)
    BY <1>5, <1>8
  <2>7. (g * R + R) + (a - R) <= Full(b) + (t - first[b])
                                  + (rewound[b] + Larger(0, s.lastRefill - t))
    BY <1>1, <1>2, <1>3, <1>6, <2>2, <2>3, <2>4, <2>5
  <2>8. granted'[b] * Refill(b) = g * R + R
    BY <1>5, <1>6 DEF R
  <2> QED
    BY <1>1, <1>2, <1>4, <1>5, <2>6, <2>7, <2>8
<1> QED
  BY <1>7, <1>8

\* A grant touches the account of its own bucket only.
LEMMA ConsumeKeepsAccounts ==
    ASSUME TypeOK, LedgerMatches, GrantsArePaid,
           NEW b \in Buckets, NEW t \in Time, Consume(b, t)
    PROVE  LedgerMatches' /\ GrantsArePaid'
<1>1. ASSUME NEW c \in Buckets, c # b
      PROVE  /\ bucket'[c] = bucket[c]
             /\ granted'[c] = granted[c]
             /\ first'[c] = first[c]
             /\ rewound'[c] = rewound[c]
  BY <1>1 DEF Consume, TypeOK
<1>2. LedgerMatches'
  BY <1>1, GrantPays DEF LedgerMatches
<1>3. GrantsArePaid'
  BY <1>1, GrantPays DEF GrantsArePaid, Refill, Full, Capacity
<1> QED
  BY <1>2, <1>3

\* An untouched bucket has a balanced account.
LEMMA NothingGranted ==
    ASSUME NEW b \in Buckets
    PROVE  0 * Refill(b) + NoState.tokens <= Full(b) + (NoState.lastRefill - 0) + 0
BY ConfigType DEF NoState

LEMMA AccountsStep ==
    TypeOK /\ LedgerMatches /\ GrantsArePaid /\ [Next]_vars
        => LedgerMatches' /\ GrantsArePaid'
<1> SUFFICES ASSUME TypeOK, LedgerMatches, GrantsArePaid, [Next]_vars
             PROVE  LedgerMatches' /\ GrantsArePaid'
  OBVIOUS
<1>1. ASSUME NEW b \in Buckets, NEW r \in Requests, Consume(b, now[r])
      PROVE  LedgerMatches' /\ GrantsArePaid'
  BY <1>1, ConsumeKeepsAccounts DEF TypeOK
<1>2. ASSUME UNCHANGED <<bucket, granted, first, rewound>>
      PROVE  LedgerMatches' /\ GrantsArePaid'
  BY <1>2 DEF LedgerMatches, GrantsArePaid
<1>3. ASSUME NEW i \in Instances, Restart(i)
      PROVE  LedgerMatches' /\ GrantsArePaid'
  <2>1. i \in Buckets
    BY <1>3 DEF Buckets
  <2>2. /\ bucket'[i] = NoState
        /\ granted'[i] = 0
        /\ first'[i] = 0
        /\ rewound'[i] = 0
    BY <1>3, <2>1 DEF Restart, TypeOK
  <2>3. ASSUME NEW c \in Buckets, c # i
        PROVE  /\ bucket'[c] = bucket[c]
               /\ granted'[c] = granted[c]
               /\ first'[c] = first[c]
               /\ rewound'[c] = rewound[c]
    BY <1>3, <2>3 DEF Restart, TypeOK
  <2>4. LedgerMatches'
    BY <2>2, <2>3 DEF LedgerMatches
  <2>5. GrantsArePaid'
    <3> SUFFICES ASSUME NEW c \in Buckets
                 PROVE  granted'[c] * Refill(c) + bucket'[c].tokens
                          <= Full(c) + (bucket'[c].lastRefill - first'[c]) + rewound'[c]
      BY DEF GrantsArePaid, Refill, Full, Capacity
    <3>1. CASE c = i
      BY <2>2, <3>1, NothingGranted
    <3>2. CASE c # i
      BY <2>3, <3>2 DEF GrantsArePaid
    <3> QED
      BY <3>1, <3>2
  <2> QED
    BY <2>4, <2>5
<1> QED
  BY <1>1, <1>2, <1>3
  DEF Next, Arrive, GuardAdmits, GuardRejects, StoreAdmits, StoreRejects,
      StoreFails, StoreFailsAfterCommit, Tick, vars, ledger, Buckets, TypeOK

LEMMA AccountsAlwaysMatch == Spec => [](LedgerMatches /\ GrantsArePaid)
<1>1. Init => LedgerMatches /\ GrantsArePaid
  <2> SUFFICES ASSUME Init PROVE LedgerMatches /\ GrantsArePaid
    OBVIOUS
  <2>1. \A b \in Buckets : /\ bucket[b] = NoState
                           /\ granted[b] = 0
                           /\ first[b] = 0
                           /\ rewound[b] = 0
    BY DEF Init
  <2> QED
    BY <2>1, NothingGranted DEF LedgerMatches, GrantsArePaid
<1> QED
  BY <1>1, AccountsStep, TypeCorrect, PTL DEF Spec

\* For every bucket, requests granted beyond its capacity were paid for by the
\* clock or by samples that arrived out of order: restarts, outages, lost
\* commits and expiry create no tokens.
THEOREM GrantsAlwaysPaid == Spec => []GrantsArePaid
BY AccountsAlwaysMatch, PTL
-----------------------------------------------------------------------------
(* What an instance lets through while Firestore is down *)

\* The requests of instance i that its guard let through and that wait for
\* Firestore
Waiting(i) == {r \in Requests : pc[r] = "store" /\ instance[r] = i}

\* Each of them, and each one that passed, has a grant of the guard of its own.
PassesAreGranted ==
    \A i \in Instances : passed[i] + Cardinality(Waiting(i)) <= granted[i]

LEMMA WaitingFinite ==
    ASSUME NEW i
    PROVE  IsFiniteSet(Waiting(i)) /\ Cardinality(Waiting(i)) \in Nat
<1>1. Waiting(i) \in SUBSET Requests
  BY DEF Waiting
<1> QED
  BY <1>1, RateAssumption, FS_Subset, FS_CardinalityType

\* A request leaves the last step of enforce, with or without an answer yes.
LEMMA OneLeaves ==
    ASSUME TypeOK, PassesAreGranted, NEW r \in Requests, pc[r] = "store",
           Finish(r), Pass(r) \/ UNCHANGED passed,
           \A i \in Instances : granted'[i] = granted[i]
    PROVE  PassesAreGranted'
<1> SUFFICES ASSUME NEW i \in Instances
             PROVE  passed'[i] + Cardinality(Waiting(i)') <= granted'[i]
  BY DEF PassesAreGranted
<1>1. /\ passed[i] \in Nat
      /\ granted[i] \in Nat
      /\ Cardinality(Waiting(i)) \in Nat
      /\ passed[i] + Cardinality(Waiting(i)) <= granted[i]
  BY WaitingFinite DEF TypeOK, Buckets, PassesAreGranted
<1>2. CASE instance[r] = i
  <2>1. Waiting(i)' = Waiting(i) \ {r} /\ r \in Waiting(i)
    BY <1>2 DEF Waiting, Finish, TypeOK
  <2>2. Cardinality(Waiting(i)') = Cardinality(Waiting(i)) - 1
    BY <2>1, WaitingFinite, FS_RemoveElement
  <2>3. passed'[i] \in {passed[i], passed[i] + 1}
    BY <1>2 DEF Pass, TypeOK
  <2> QED
    BY <1>1, <2>2, <2>3
<1>3. CASE instance[r] # i
  <2>1. Waiting(i)' = Waiting(i)
    BY <1>3 DEF Waiting, Finish, TypeOK
  <2>2. passed'[i] = passed[i]
    BY <1>3 DEF Pass, TypeOK
  <2> QED
    BY <1>1, <2>1, <2>2
<1> QED
  BY <1>2, <1>3

LEMMA PassesStep == TypeOK /\ PassesAreGranted /\ [Next]_vars => PassesAreGranted'
<1> SUFFICES ASSUME TypeOK, PassesAreGranted, [Next]_vars
             PROVE  PassesAreGranted'
  OBVIOUS
<1>0. Shared \notin Instances
  BY RateAssumption
<1>1. ASSUME UNCHANGED <<passed, granted>>,
             \A i \in Instances : Waiting(i)' = Waiting(i)
      PROVE  PassesAreGranted'
  BY <1>1 DEF PassesAreGranted
<1>2. ASSUME NEW r \in Requests, NEW i \in Instances, Arrive(r, i)
      PROVE  PassesAreGranted'
  <2>1. \A k \in Instances : Waiting(k)' = Waiting(k)
    BY <1>2 DEF Arrive, Waiting, TypeOK
  <2> QED
    BY <1>1, <1>2, <2>1 DEF Arrive, ledger
<1>3. ASSUME NEW r \in Requests, GuardRejects(r)
      PROVE  PassesAreGranted'
  <2>1. \A k \in Instances : Waiting(k)' = Waiting(k)
    BY <1>3 DEF GuardRejects, Finish, Waiting, TypeOK
  <2> QED
    BY <1>1, <1>3, <2>1 DEF GuardRejects, ledger
<1>4. ASSUME NEW r \in Requests, GuardAdmits(r)
      PROVE  PassesAreGranted'
  <2> SUFFICES ASSUME NEW i \in Instances
               PROVE  passed'[i] + Cardinality(Waiting(i)') <= granted'[i]
    BY DEF PassesAreGranted
  <2>1. /\ passed[i] \in Nat
        /\ granted[i] \in Nat
        /\ Cardinality(Waiting(i)) \in Nat
        /\ passed[i] + Cardinality(Waiting(i)) <= granted[i]
        /\ passed' = passed
    BY <1>4, WaitingFinite DEF TypeOK, Buckets, PassesAreGranted, GuardAdmits
  <2>2. CASE instance[r] = i
    <3>1. granted'[i] = granted[i] + 1
      BY <1>4, <2>2 DEF GuardAdmits, Consume, TypeOK, Buckets
    <3>2. Waiting(i)' = Waiting(i) \cup {r} /\ r \notin Waiting(i)
      BY <1>4, <2>2 DEF GuardAdmits, Waiting, TypeOK
    <3>3. Cardinality(Waiting(i)') = Cardinality(Waiting(i)) + 1
      BY <3>2, WaitingFinite, FS_AddElement
    <3> QED
      BY <2>1, <3>1, <3>3
  <2>3. CASE instance[r] # i
    <3>1. granted'[i] = granted[i]
      BY <1>4, <2>3 DEF GuardAdmits, Consume, TypeOK, Buckets
    <3>2. Waiting(i)' = Waiting(i)
      BY <1>4, <2>3 DEF GuardAdmits, Waiting, TypeOK
    <3> QED
      BY <2>1, <3>1, <3>2
  <2> QED
    BY <2>2, <2>3
<1>5. ASSUME NEW r \in Requests,
             \/ StoreAdmits(r) \/ StoreRejects(r)
             \/ StoreFails(r) \/ StoreFailsAfterCommit(r)
      PROVE  PassesAreGranted'
  <2>1. pc[r] = "store" /\ Finish(r) /\ (Pass(r) \/ UNCHANGED passed)
    BY <1>5 DEF StoreAdmits, StoreRejects, StoreFails, StoreFailsAfterCommit, ledger
  <2>2. \A i \in Instances : granted'[i] = granted[i]
    BY <1>0, <1>5
    DEF StoreAdmits, StoreRejects, StoreFails, StoreFailsAfterCommit, Consume,
        ledger, TypeOK, Buckets
  <2> QED
    BY <2>1, <2>2, OneLeaves
<1>6. ASSUME NEW i \in Instances, Restart(i)
      PROVE  PassesAreGranted'
  <2> SUFFICES ASSUME NEW k \in Instances
               PROVE  passed'[k] + Cardinality(Waiting(k)') <= granted'[k]
    BY DEF PassesAreGranted
  <2>1. CASE k = i
    <3>1. Waiting(k)' = {}
      BY <1>6, <2>1 DEF Restart, Waiting
    <3>2. passed'[k] = 0 /\ granted'[k] = 0
      BY <1>6, <2>1 DEF Restart, TypeOK, Buckets
    <3> QED
      BY <3>1, <3>2, FS_EmptySet
  <2>2. CASE k # i
    <3>1. Waiting(k)' = Waiting(k)
      BY <1>6, <2>2 DEF Restart, Waiting
    <3>2. passed'[k] = passed[k] /\ granted'[k] = granted[k]
      BY <1>6, <2>2 DEF Restart, TypeOK, Buckets
    <3> QED
      BY <3>1, <3>2 DEF PassesAreGranted
  <2> QED
    BY <2>1, <2>2
<1>7. ASSUME Tick \/ UNCHANGED vars
      PROVE  PassesAreGranted'
  BY <1>1, <1>7 DEF Tick, vars, ledger, Waiting
<1> QED
  BY <1>2, <1>3, <1>4, <1>5, <1>6, <1>7 DEF Next

\* However long Firestore is down, what a running instance lets through is
\* bounded by its own guard: each pass has a grant of the guard behind it.
THEOREM FallbackAlwaysBounded == Spec => []FallbackBounded
<1>1. Init => PassesAreGranted
  <2> SUFFICES ASSUME Init, NEW i \in Instances
               PROVE  passed[i] + Cardinality(Waiting(i)) <= granted[i]
    BY DEF PassesAreGranted
  <2>1. Waiting(i) = {} /\ passed[i] = 0 /\ granted[i] = 0
    BY DEF Init, Waiting, Buckets
  <2> QED
    BY <2>1, FS_EmptySet
<1>2. TypeOK /\ PassesAreGranted /\ GrantsArePaid => FallbackBounded
  <2> SUFFICES ASSUME TypeOK, PassesAreGranted, GrantsArePaid, NEW i \in Instances
               PROVE  passed[i] * Refill(i)
                        <= Full(i) + (bucket[i].lastRefill - first[i]) + rewound[i]
    BY DEF FallbackBounded
  <2>1. i \in Buckets
    BY DEF Buckets
  <2>2. /\ passed[i] \in Nat
        /\ granted[i] \in Nat
        /\ Refill(i) \in Nat
        /\ bucket[i].tokens \in Nat
        /\ bucket[i].lastRefill \in Int
        /\ first[i] \in Int
        /\ rewound[i] \in Nat
        /\ Full(i) \in Nat
    BY <2>1, ConfigType, RateAssumption DEF TypeOK, Time
  <2>3. passed[i] <= granted[i]
    BY <2>2, WaitingFinite DEF PassesAreGranted
  <2>4. granted[i] * Refill(i) + bucket[i].tokens
           <= Full(i) + (bucket[i].lastRefill - first[i]) + rewound[i]
    BY <2>1 DEF GrantsArePaid
  <2>5. PICK n \in Nat : granted[i] = passed[i] + n
    <3>1. granted[i] - passed[i] \in Nat /\ granted[i] = passed[i] + (granted[i] - passed[i])
      BY <2>2, <2>3
    <3> QED
      BY <3>1
  <2>6. /\ granted[i] * Refill(i) = passed[i] * Refill(i) + n * Refill(i)
        /\ n * Refill(i) \in Nat
        /\ passed[i] * Refill(i) \in Nat
    BY <2>2, <2>5, SMT
  <2> QED
    BY <2>2, <2>4, <2>6
<1> QED
  BY <1>1, <1>2, PassesStep, TypeCorrect, GrantsAlwaysPaid, PTL DEF Spec

-----------------------------------------------------------------------------
(* Retry-After *)

\* Requests carry, and buckets were last charged with, samples of the past.
SamplesPast ==
    /\ \A r \in Requests : now[r] <= clock
    /\ \A b \in Buckets : bucket[b].lastRefill <= clock

LEMMA SamplesPastStep == TypeOK /\ SamplesPast /\ [Next]_vars => SamplesPast'
<1> SUFFICES ASSUME TypeOK, SamplesPast, [Next]_vars PROVE SamplesPast'
  OBVIOUS
<1>0. /\ clock \in Nat
      /\ \A r \in Requests : now[r] \in Nat
      /\ \A b \in Buckets : bucket[b].lastRefill \in Nat
      /\ Shared \in Buckets
      /\ \A i \in Instances : i \in Buckets
  BY RateAssumption DEF TypeOK, Time, Buckets
<1>1. ASSUME NEW b \in Buckets, NEW r \in Requests, Consume(b, now[r])
      PROVE  \A c \in Buckets : bucket'[c].lastRefill <= clock
  BY <1>1 DEF Consume, Charged, SamplesPast, TypeOK
<1>2. ASSUME NEW r \in Requests, Finish(r)
      PROVE  clock' = clock /\ \A q \in Requests : now'[q] <= clock
  BY <1>0, <1>2 DEF Finish, SamplesPast, TypeOK
<1>3. ASSUME NEW r \in Requests, NEW i \in Instances, Arrive(r, i)
      PROVE  SamplesPast'
  BY <1>0, <1>3 DEF Arrive, SamplesPast, TypeOK
<1>4. ASSUME NEW r \in Requests, GuardAdmits(r)
      PROVE  SamplesPast'
  <2>1. instance[r] \in Buckets
    BY <1>0 DEF TypeOK
  <2> QED
    BY <1>1, <1>4, <2>1 DEF GuardAdmits, SamplesPast
<1>5. ASSUME NEW r \in Requests, StoreAdmits(r) \/ StoreFailsAfterCommit(r)
      PROVE  SamplesPast'
  BY <1>0, <1>1, <1>2, <1>5 DEF StoreAdmits, StoreFailsAfterCommit, SamplesPast
<1>6. ASSUME NEW r \in Requests, GuardRejects(r) \/ StoreRejects(r) \/ StoreFails(r)
      PROVE  SamplesPast'
  BY <1>2, <1>6 DEF GuardRejects, StoreRejects, StoreFails, SamplesPast
<1>7. ASSUME NEW i \in Instances, Restart(i)
      PROVE  SamplesPast'
  BY <1>0, <1>7 DEF Restart, SamplesPast, TypeOK, NoState
<1>8. ASSUME Tick
      PROVE  SamplesPast'
  BY <1>0, <1>8 DEF Tick, SamplesPast
<1>9. ASSUME UNCHANGED vars
      PROVE  SamplesPast'
  BY <1>9 DEF vars, SamplesPast
<1> QED
  BY <1>3, <1>4, <1>5, <1>6, <1>7, <1>8, <1>9 DEF Next

\* A bucket that refuses a sample of the past has a token when the client, who
\* counts from the refusal, has waited as it was told.
LEMMA RefusedWaitSuffices ==
    ASSUME TypeOK, SamplesPast, NEW b \in Buckets, NEW r \in Requests,
           ~Allows(b, bucket[b], now[r])
    PROVE  WaitSuffices(b, now[r])
<1> DEFINE s == bucket[b]
           t == now[r]
           a == Available(b, s, t)
           m == Refill(b) - a
           u == clock + RetryAfter(b, s, t) * PerSecond
<1>1. /\ s.tokens \in Nat
      /\ s.lastRefill \in Nat
      /\ s.expiresAt \in Nat
      /\ s \in State
      /\ s.tokens <= Full(b)
      /\ t \in Nat
      /\ t \in Time
      /\ clock \in Nat
      /\ t <= clock
      /\ s.lastRefill <= clock
  BY RateAssumption DEF TypeOK, Time, SamplesPast, State
<1>2. /\ Refill(b) \in Nat
      /\ Full(b) \in Nat
      /\ Refill(b) <= Full(b)
  BY ConfigType
<1>3. a \in Nat /\ a < Refill(b)
  <2>1. a \in Nat
    BY <1>1, AvailableType
  <2>2. ~(a >= Refill(b))
    BY DEF Allows
  <2> QED
    BY <1>2, <2>1, <2>2
<1>4. a = s.tokens + Larger(0, t - s.lastRefill)
  BY <1>1, <1>2, <1>3 DEF Available, Smaller, Larger
<1>5. /\ RetryAfter(b, s, t) * PerSecond \in Nat
      /\ m <= RetryAfter(b, s, t) * PerSecond
  <2>1. m \in Nat
    BY <1>2, <1>3
  <2>2. Ceiling(m) \in Nat /\ m <= Ceiling(m) * PerSecond
    BY <2>1, CeilingCovers
  <2>3. RetryAfter(b, s, t) = Larger(1, Ceiling(m))
    BY DEF RetryAfter
  <2> HIDE DEF m
  <2>4. /\ RetryAfter(b, s, t) \in Nat
        /\ Ceiling(m) <= RetryAfter(b, s, t)
    BY <2>2, <2>3 DEF Larger
  <2>5. \A x, y, z \in Nat : x <= y => x * z <= y * z /\ x * z \in Nat /\ y * z \in Nat
    BY SMT
  <2>6. /\ Ceiling(m) * PerSecond <= RetryAfter(b, s, t) * PerSecond
        /\ Ceiling(m) * PerSecond \in Nat
        /\ RetryAfter(b, s, t) * PerSecond \in Nat
    BY <2>2, <2>4, <2>5, RateAssumption
  <2> QED
    BY <2>1, <2>2, <2>6
<1> HIDE DEF a
<1>6. u \in Nat /\ s.tokens + Larger(0, u - s.lastRefill) >= Refill(b)
  BY <1>1, <1>2, <1>3, <1>4, <1>5 DEF Larger
<1> HIDE DEF u
<1>7. Available(b, s, u) >= Refill(b)
  BY <1>1, <1>2, <1>6 DEF Available, Smaller, Larger
<1> QED
  BY <1>7 DEF WaitSuffices, Allows, u

\* A client that waits as a 429 told it, while nobody else draws from the
\* bucket that refused it, is not refused by that bucket again: also when its
\* sample was older than the last one the bucket saw, and whatever part of a
\* second its token lacked.
THEOREM RetryAfterAlwaysSuffices == Spec => RetryAfterSuffices
<1>1. Init => SamplesPast
  BY DEF Init, SamplesPast, NoState
<1>2. TypeOK /\ SamplesPast /\ [Next]_vars
        => [\A r \in Requests :
              /\ GuardRejects(r) => WaitSuffices(instance[r], now[r])
              /\ StoreRejects(r) => WaitSuffices(Shared, now[r])]_vars
  <2>1. ASSUME TypeOK, NEW r \in Requests
        PROVE  instance[r] \in Buckets /\ Shared \in Buckets
    BY <2>1 DEF TypeOK, Buckets
  <2> QED
    BY <2>1, RefusedWaitSuffices DEF GuardRejects, StoreRejects
<1> QED
  BY <1>1, <1>2, SamplesPastStep, TypeCorrect, PTL DEF Spec, RetryAfterSuffices
-----------------------------------------------------------------------------
(* The sustained limit *)

\* While samples reach Firestore in their order, every grant is up to the last
\* of them, and from any instant on the tokens that are left are what grants and
\* refills since then leave of a full bucket.
InOrderAccount ==
    LET last == bucket[Shared].lastRefill IN
    /\ \A t \in Time : last <= t => upTo[t] = granted[Shared]
    /\ \A s \in Time : s <= last =>
          GrantsBetween(s, last) * Refill(Shared) + bucket[Shared].tokens
              <= Full(Shared) + (last - s)

OrderedAccount == rewound[Shared] = 0 => InOrderAccount /\ SustainedLimit

LEMMA GrantsType ==
    ASSUME TypeOK, NEW s \in Time, NEW t \in Time
    PROVE  GrantsBetween(s, t) \in Int
<1>1. s # 0 => s - 1 \in Time
  BY RateAssumption DEF Time
<1> QED
  BY <1>1 DEF GrantsBetween, TypeOK

\* A shared grant for a sample t, seen from any later instant
LEMMA GrantsAfter ==
    ASSUME TypeOK, NEW t \in Time, Consume(Shared, t),
           NEW s \in Time, NEW u \in Time, s <= u
    PROVE  GrantsBetween(s, u)' = GrantsBetween(s, u)
                                    + (IF s <= t /\ t <= u THEN 1 ELSE 0)
<1>1. upTo' = [x \in Time |-> upTo[x] + (IF t <= x THEN 1 ELSE 0)]
  BY DEF Consume
<1>2. CASE s = 0
  BY <1>1, <1>2, RateAssumption DEF GrantsBetween, TypeOK, Time
<1>3. CASE s # 0
  <2>1. s - 1 \in Time /\ (t <= s - 1 <=> ~(s <= t))
    BY <1>3, RateAssumption DEF Time
  <2>2. /\ GrantsBetween(s, u) = upTo[u] - upTo[s - 1]
        /\ GrantsBetween(s, u)' = upTo'[u] - upTo'[s - 1]
    BY <1>3 DEF GrantsBetween
  <2>3. /\ upTo'[u] = upTo[u] + (IF t <= u THEN 1 ELSE 0)
        /\ upTo'[s - 1] = upTo[s - 1] + (IF t <= s - 1 THEN 1 ELSE 0)
        /\ upTo[u] \in Nat
        /\ upTo[s - 1] \in Nat
    BY <1>1, <2>1 DEF TypeOK
  <2>4. s \in Int /\ t \in Int /\ u \in Int
    BY DEF Time
  <2> QED
    BY <2>1, <2>2, <2>3, <2>4
<1> QED
  BY <1>2, <1>3

\* The next grant in order keeps the account.
LEMMA InOrderGrant ==
    ASSUME TypeOK, LedgerMatches, OrderedAccount,
           NEW t \in Time, Consume(Shared, t), rewound'[Shared] = 0
    PROVE  InOrderAccount' /\ SustainedLimit'
<1> DEFINE b == bucket[Shared]
           last == b.lastRefill
           a == Available(Shared, b, t)
           g == granted[Shared]
           R == Refill(Shared)
           F == Full(Shared)
<1>1. /\ Shared \in Buckets
      /\ b \in State
      /\ last \in Time
      /\ b.tokens \in Nat
      /\ b.tokens <= F
      /\ g \in Nat
      /\ rewound[Shared] \in Nat
  BY DEF Buckets, TypeOK, State
<1>2. R \in Nat /\ F \in Nat
  BY <1>1, ConfigType
<1>3. a \in Nat /\ a <= F
  BY <1>1, AvailableType
<1>4. /\ bucket'[Shared].tokens = a - R
      /\ bucket'[Shared].lastRefill = t
  BY <1>1, <1>2, ChargedType DEF Consume, TypeOK
<1>5. granted'[Shared] = g + 1
  BY <1>1 DEF Consume, TypeOK
<1>6. \A x \in Time : x \in Nat
  BY DEF Time
<1>7. last <= t /\ rewound[Shared] = 0
  <2>1. CASE g = 0
    <3>1. last = 0 /\ rewound[Shared] = 0
      BY <1>1, <2>1 DEF LedgerMatches, NoState
    <3> QED
      BY <1>6, <3>1
  <2>2. CASE g # 0
    <3>1. 0 = rewound[Shared] + Larger(0, last - t)
      BY <1>1, <2>2 DEF Consume, TypeOK
    <3> QED
      BY <1>1, <1>6, <3>1 DEF Larger
  <2> QED
    BY <2>1, <2>2
<1>8. /\ \A x \in Time : last <= x => upTo[x] = g
      /\ \A s \in Time : s <= last =>
            GrantsBetween(s, last) * R + b.tokens <= F + (last - s)
      /\ SustainedLimit
  BY <1>7 DEF OrderedAccount, InOrderAccount
<1> HIDE DEF a, g, R, F
<1>9. ASSUME NEW x \in Time, t <= x
      PROVE  upTo'[x] = g + 1
  <2>1. upTo[x] = g
    BY <1>1, <1>6, <1>7, <1>8, <1>9
  <2> QED
    BY <1>9, <2>1 DEF Consume
\* Grants from s to t, before and after
<1>10. ASSUME NEW s \in Time, s <= t
       PROVE  /\ GrantsBetween(s, t)' * R + (a - R) <= F + (t - s)
              /\ GrantsBetween(s, t)' \in Int
  <2>1. /\ GrantsBetween(s, t) \in Int
        /\ GrantsBetween(s, t)' = GrantsBetween(s, t) + 1
    BY <1>6, <1>10, GrantsType, GrantsAfter
  <2>2. (GrantsBetween(s, t) + 1) * R = GrantsBetween(s, t) * R + R
    BY <1>2, <2>1, SMT
  <2>3. GrantsBetween(s, t) * R \in Int
    BY <1>2, <2>1, SMT
  <2>4. CASE last < s \/ g = 0
    <3>1. GrantsBetween(s, t) = 0
      <4>1. upTo[t] = g
        BY <1>6, <1>7, <1>8
      <4>2. s = 0 => g = 0
        BY <1>1, <1>6, <2>4
      <4>3. ASSUME s # 0
            PROVE  upTo[s - 1] = g
        <5>1. s - 1 \in Time
          BY <4>3, RateAssumption DEF Time
        <5>2. last <= s - 1
          <6>1. CASE last < s
            BY <1>1, <1>6, <6>1
          <6>2. CASE g = 0
            <7>1. last = 0
              BY <1>1, <6>2 DEF LedgerMatches, NoState, g
            <7> QED
              BY <1>6, <4>3, <5>1, <7>1
          <6> QED
            BY <2>4, <6>1, <6>2
        <5> QED
          BY <1>8, <5>1, <5>2
      <4> QED
        BY <1>1, <1>2, <1>3, <4>1, <4>2, <4>3 DEF GrantsBetween, g
    <3>2. 0 * R = 0
      BY <1>2
    <3> QED
      BY <1>2, <1>3, <1>6, <1>10, <2>1, <2>2, <3>1, <3>2
  <2>5. CASE s <= last /\ g # 0
    <3>1. b.expiresAt = last + Lifetime
      BY <1>1, <2>5 DEF LedgerMatches, g
    <3>2. a <= b.tokens + Larger(0, t - last)
      BY <1>1, <3>1, AvailableRefills DEF a, F
    <3>3. Larger(0, t - last) = t - last
      BY <1>1, <1>6, <1>7 DEF Larger
    <3>4. GrantsBetween(s, t) = GrantsBetween(s, last)
      BY <1>1, <1>6, <1>7, <1>8 DEF GrantsBetween
    <3>5. GrantsBetween(s, t) * R + b.tokens <= F + (last - s)
      BY <1>8, <2>5, <3>4
    <3> QED
      BY <1>1, <1>2, <1>3, <1>6, <2>1, <2>2, <2>3, <3>2, <3>3, <3>5
  <2> QED
    BY <1>1, <1>6, <2>4, <2>5
<1>11. Full(Shared)' = F /\ Refill(Shared)' = R
  BY DEF F, R, Full, Capacity, Refill
<1>12. InOrderAccount'
  <2> SUFFICES ASSUME TRUE
               PROVE  /\ \A x \in Time : t <= x => upTo'[x] = g + 1
                      /\ \A s \in Time : s <= t =>
                            GrantsBetween(s, t)' * R + (a - R) <= F + (t - s)
    BY <1>4, <1>5, <1>11 DEF InOrderAccount, GrantsBetween, R, F
  <2> QED
    BY <1>9, <1>10
<1>13. SustainedLimit'
  <2> SUFFICES ASSUME NEW s \in Time, NEW u \in Time, s <= u
               PROVE  GrantsBetween(s, u)' * R <= F + (u - s)
    BY <1>11 DEF SustainedLimit, GrantsBetween, R, F
  <2>1. /\ GrantsBetween(s, u)' = GrantsBetween(s, u)
                                    + (IF s <= t /\ t <= u THEN 1 ELSE 0)
        /\ GrantsBetween(s, u) \in Int
    BY GrantsAfter, GrantsType
  <2>2. CASE ~(s <= t /\ t <= u)
    BY <1>8, <2>1, <2>2 DEF SustainedLimit, R, F
  <2>3. CASE s <= t /\ t <= u
    <3>1. GrantsBetween(s, t)' * R + (a - R) <= F + (t - s)
      BY <1>10, <2>3
    <3>2. GrantsBetween(s, u)' = GrantsBetween(s, t)'
      BY <1>9, <1>6, <2>3 DEF GrantsBetween
    <3>3. GrantsBetween(s, t)' * R \in Int
      BY <1>2, <1>10, <2>3, SMT
    <3>4. a - R \in Nat
      BY <1>1, <1>2, <1>3 DEF Consume, Allows, a, R
    <3> QED
      BY <1>2, <1>6, <2>3, <3>1, <3>2, <3>3, <3>4
  <2> QED
    BY <2>2, <2>3
<1> QED
  BY <1>12, <1>13

LEMMA OrderedStep ==
    TypeOK /\ LedgerMatches /\ OrderedAccount /\ [Next]_vars => OrderedAccount'
<1> SUFFICES ASSUME TypeOK, LedgerMatches, OrderedAccount, [Next]_vars,
                    rewound'[Shared] = 0
             PROVE  InOrderAccount' /\ SustainedLimit'
  BY DEF OrderedAccount
<1>1. ASSUME NEW r \in Requests, Consume(Shared, now[r])
      PROVE  InOrderAccount' /\ SustainedLimit'
  BY <1>1, InOrderGrant DEF TypeOK
<1>2. ASSUME bucket'[Shared] = bucket[Shared],
             granted'[Shared] = granted[Shared],
             rewound'[Shared] = rewound[Shared],
             upTo' = upTo
      PROVE  InOrderAccount' /\ SustainedLimit'
  <2>1. InOrderAccount /\ SustainedLimit
    BY <1>2 DEF OrderedAccount
  <2> QED
    BY <1>2, <2>1 DEF InOrderAccount, SustainedLimit, GrantsBetween
<1>3. Shared \notin Instances /\ Shared \in Buckets
  BY RateAssumption DEF Buckets
<1>4. ASSUME NEW r \in Requests, GuardAdmits(r)
      PROVE  InOrderAccount' /\ SustainedLimit'
  BY <1>2, <1>3, <1>4 DEF GuardAdmits, Consume, TypeOK
<1>5. ASSUME NEW i \in Instances, Restart(i)
      PROVE  InOrderAccount' /\ SustainedLimit'
  BY <1>2, <1>3, <1>5 DEF Restart, TypeOK
<1> QED
  BY <1>1, <1>2, <1>4, <1>5
  DEF Next, Arrive, GuardRejects, StoreAdmits, StoreRejects, StoreFails,
      StoreFailsAfterCommit, Tick, vars, ledger

\* As long as samples reach Firestore in the order they were taken, all
\* instances together let through no more, over any interval, than the capacity
\* and what refills in the interval: restarts, outages and expiry add nothing.
THEOREM OrderedSamplesAlwaysKeepLimit == Spec => []OrderedSamplesKeepLimit
<1>1. Init => OrderedAccount
  <2> SUFFICES ASSUME Init PROVE InOrderAccount /\ SustainedLimit
    BY DEF OrderedAccount
  <2>1. /\ bucket[Shared] = NoState
        /\ granted[Shared] = 0
        /\ \A t \in Time : upTo[t] = 0
        /\ Full(Shared) \in Nat
        /\ Refill(Shared) \in Nat
    BY ConfigType, RateAssumption DEF Init, Buckets
  <2>2. ASSUME NEW s \in Time, NEW t \in Time
        PROVE  GrantsBetween(s, t) = 0
    <3>1. s # 0 => s - 1 \in Time
      BY RateAssumption DEF Time
    <3> QED
      BY <2>1, <3>1 DEF GrantsBetween
  <2>3. 0 * Refill(Shared) = 0 /\ 0 \in Time
    BY <2>1, RateAssumption DEF Time
  <2>4. InOrderAccount
    BY <2>1, <2>2, <2>3 DEF InOrderAccount, NoState, Time
  <2>5. SustainedLimit
    BY <2>1, <2>2, <2>3 DEF SustainedLimit, Time
  <2> QED
    BY <2>4, <2>5
<1>2. OrderedAccount => OrderedSamplesKeepLimit
  BY DEF OrderedAccount, OrderedSamplesKeepLimit
<1>3. Spec => [](TypeOK /\ LedgerMatches)
  BY AccountsAlwaysMatch, TypeCorrect, PTL
<1> QED
  BY <1>1, <1>2, <1>3, OrderedStep, PTL DEF Spec
=============================================================================
