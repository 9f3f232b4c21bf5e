----------------------------- MODULE RateLimit -----------------------------
(***************************************************************************)
(* backend/rate_limit.py and rate_limit_store.py: the two token buckets    *)
(* one anonymous client draws from.  Each API instance has a local guard   *)
(* in memory; all of them share a bucket in Firestore.  A request samples  *)
(* time() once and offers that sample to both buckets later, so samples    *)
(* may reach a bucket in another order than they were taken.               *)
(*                                                                         *)
(* Clients do not share documents, so one client is modelled.  time() is a *)
(* float: instants are counted in ticks of 1/PerSecond of a second, while  *)
(* the settings and a Retry-After are whole seconds.  A bucket counts in   *)
(* the units that one tick refills, of which a request costs as many as    *)
(* there are ticks in refill_seconds.  The rounding error of the floats    *)
(* themselves is left out.                                                 *)
(***************************************************************************)
EXTENDS Integers, FiniteSets

CONSTANTS
    Requests,        \* concurrent requests of the client
    Instances,       \* API instances
    Shared,          \* the name of the Firestore bucket
    PerSecond,       \* ticks of the clock in a second
    SharedCapacity,  \* config.TOKEN_BUCKET_CAPACITY
    SharedRefill,    \* config.TOKEN_BUCKET_REFILL_SECONDS
    GuardCapacity,   \* config.LOCAL_GUARD_CAPACITY
    GuardRefill,     \* config.LOCAL_GUARD_REFILL_SECONDS
    StateTTL,        \* config.TOKEN_BUCKET_STATE_TTL_SECONDS
    MaxTime          \* bound: the last tick of a behaviour

Buckets == Instances \cup {Shared}

ASSUME RateAssumption ==
    /\ Shared \notin Instances
    /\ IsFiniteSet(Requests)
    /\ PerSecond \in Nat /\ PerSecond > 0
    /\ SharedCapacity \in Nat /\ SharedCapacity > 0
    /\ SharedRefill \in Nat /\ SharedRefill > 0
    /\ GuardCapacity \in Nat /\ GuardCapacity > 0
    /\ GuardRefill \in Nat /\ GuardRefill > 0
    /\ StateTTL \in Nat
    /\ MaxTime \in Nat

\* The default a day against a minute: a state expires only after it would
\* have refilled anyway.
ASSUME ExpiryAssumption ==
    /\ StateTTL >= SharedCapacity * SharedRefill
    /\ StateTTL >= GuardCapacity * GuardRefill

VARIABLES
    clock,     \* time() in ticks, the same for all instances
    bucket,    \* the stored BucketState of each bucket
    pc,        \* where each request is in enforce
    instance,  \* the API instance that serves it
    now,       \* its sample of the clock
    granted,   \* history: requests each bucket let through
    first,     \* history: the sample of the first of them
    rewound,   \* history: by how much samples went back from one to the next
    upTo,      \* history: how many shared grants carry a sample of t or before
    passed     \* history: requests each running instance let through

ledger == <<granted, first, rewound, upTo, passed>>
vars == <<clock, bucket, pc, instance, now, ledger>>

-----------------------------------------------------------------------------
(* consume_bucket *)

Time == 0..MaxTime

Capacity(b) == IF b = Shared THEN SharedCapacity ELSE GuardCapacity

\* The units of a token, which are the ticks it takes to refill, those of a
\* full bucket, and the ticks a state is kept
Refill(b) == (IF b = Shared THEN SharedRefill ELSE GuardRefill) * PerSecond
Full(b) == Capacity(b) * Refill(b)
Lifetime == StateTTL * PerSecond

\* A missing state counts as one that has expired.
NoState == [tokens |-> 0, lastRefill |-> 0, expiresAt |-> 0]

Smaller(a, b) == IF a < b THEN a ELSE b
Larger(a, b) == IF a > b THEN a ELSE b

\* What a bucket in state s holds for a request sampled at time t
Available(b, s, t) ==
    IF s.expiresAt <= t
    THEN Full(b)
    ELSE Smaller(Full(b), s.tokens + Larger(0, t - s.lastRefill))

Allows_PartOfToken(b, s, t) == Available(b, s, t) > 0
Allows(b, s, t) == Available(b, s, t) >= Refill(b)

\* The state written for an admitted request; a rejected one writes nothing.
Charged_KeepsRefillTime(b, s, t) ==
    [tokens |-> Available(b, s, t) - Refill(b),
     lastRefill |-> IF s = NoState THEN t ELSE s.lastRefill,
     expiresAt |-> t + Lifetime]

Charged(b, s, t) ==
    [tokens |-> Available(b, s, t) - Refill(b),
     lastRefill |-> t,
     expiresAt |-> t + Lifetime]

\* ceil: the least whole number of seconds that n ticks fit into
Ceiling(n) == (n + PerSecond - 1) \div PerSecond

\* The Retry-After of a 429: the seconds until the missing units are refilled
RetryAfter_RoundedDown(b, s, t) ==
    Larger(1, (Refill(b) - Available(b, s, t)) \div PerSecond)
RetryAfter(b, s, t) == Larger(1, Ceiling(Refill(b) - Available(b, s, t)))

-----------------------------------------------------------------------------
Init ==
    /\ clock = 0
    /\ bucket = [b \in Buckets |-> NoState]
    /\ pc = [r \in Requests |-> "idle"]
    /\ instance \in [Requests -> Instances]
    /\ now = [r \in Requests |-> 0]
    /\ granted = [b \in Buckets |-> 0]
    /\ first = [b \in Buckets |-> 0]
    /\ rewound = [b \in Buckets |-> 0]
    /\ upTo = [t \in Time |-> 0]
    /\ passed = [i \in Instances |-> 0]

\* store.consume admits a request sampled at t: the state and the ledger.
Consume(b, t) ==
    /\ Allows(b, bucket[b], t)
    /\ bucket' = [bucket EXCEPT ![b] = Charged(b, @, t)]
    /\ granted' = [granted EXCEPT ![b] = @ + 1]
    /\ first' = [first EXCEPT ![b] = IF granted[b] = 0 THEN t ELSE @]
    /\ rewound' = [rewound EXCEPT
                     ![b] = IF granted[b] = 0 THEN 0
                            ELSE @ + Larger(0, bucket[b].lastRefill - t)]
    /\ upTo' = IF b = Shared
               THEN [u \in Time |-> upTo[u] + (IF t <= u THEN 1 ELSE 0)]
               ELSE upTo

\* enforce returns or raises; its locals are gone.
Finish(r) ==
    /\ pc' = [pc EXCEPT ![r] = "idle"]
    /\ now' = [now EXCEPT ![r] = 0]
    /\ UNCHANGED <<clock, instance>>

Pass(r) == passed' = [passed EXCEPT ![instance[r]] = @ + 1]

\* enforce begins: App Check and the client key are settled, time() is read.
Arrive(r, i) ==
    /\ pc[r] = "idle"
    /\ pc' = [pc EXCEPT ![r] = "guard"]
    /\ instance' = [instance EXCEPT ![r] = i]
    /\ now' = [now EXCEPT ![r] = clock]
    /\ UNCHANGED <<clock, bucket, ledger>>

\* The local guard, under its lock, charges the request first ...
GuardAdmits_NotCharged(r) ==
    /\ pc[r] = "guard"
    /\ Allows(instance[r], bucket[instance[r]], now[r])
    /\ pc' = [pc EXCEPT ![r] = "store"]
    /\ UNCHANGED <<clock, bucket, instance, now, ledger>>

GuardAdmits(r) ==
    /\ pc[r] = "guard"
    /\ Consume(instance[r], now[r])
    /\ pc' = [pc EXCEPT ![r] = "store"]
    /\ UNCHANGED <<clock, instance, now, passed>>

\* ... or answers 429.
GuardRejects(r) ==
    LET i == instance[r] IN
    /\ pc[r] = "guard"
    /\ ~Allows(i, bucket[i], now[r])
    /\ Finish(r)
    /\ UNCHANGED <<bucket, ledger>>

\* The Firestore transaction is atomic.
StoreAdmits(r) ==
    /\ pc[r] = "store"
    /\ Consume(Shared, now[r])
    /\ Pass(r)
    /\ Finish(r)

\* The guard's token is not given back.
StoreRejects(r) ==
    /\ pc[r] = "store"
    /\ ~Allows(Shared, bucket[Shared], now[r])
    /\ Finish(r)
    /\ UNCHANGED <<bucket, ledger>>

\* consume raises: the request goes through on the guard alone ...
StoreFails(r) ==
    /\ pc[r] = "store"
    /\ Pass(r)
    /\ Finish(r)
    /\ UNCHANGED <<bucket, granted, first, rewound, upTo>>

\* ... also when the transaction was committed before its answer was lost.
StoreFailsAfterCommit(r) ==
    /\ pc[r] = "store"
    /\ Consume(Shared, now[r])
    /\ Pass(r)
    /\ Finish(r)

Tick ==
    /\ clock < MaxTime
    /\ clock' = clock + 1
    /\ UNCHANGED <<bucket, pc, instance, now, ledger>>

\* An instance is replaced: its guard and its open requests are lost, the
\* Firestore bucket is not.
Restart(i) ==
    /\ bucket' = [bucket EXCEPT ![i] = NoState]
    /\ granted' = [granted EXCEPT ![i] = 0]
    /\ first' = [first EXCEPT ![i] = 0]
    /\ rewound' = [rewound EXCEPT ![i] = 0]
    /\ passed' = [passed EXCEPT ![i] = 0]
    /\ pc' = [r \in Requests |-> IF instance[r] = i THEN "idle" ELSE pc[r]]
    /\ now' = [r \in Requests |-> IF instance[r] = i THEN 0 ELSE now[r]]
    /\ UNCHANGED <<clock, instance, upTo>>

Next ==
    \/ \E r \in Requests :
        \/ \E i \in Instances : Arrive(r, i)
        \/ GuardAdmits(r) \/ GuardRejects(r)
        \/ StoreAdmits(r) \/ StoreRejects(r)
        \/ StoreFails(r) \/ StoreFailsAfterCommit(r)
    \/ Tick
    \/ \E i \in Instances : Restart(i)

Spec == Init /\ [][Next]_vars

-----------------------------------------------------------------------------
(* Properties *)

\* Every variable keeps its type; a bucket is never overdrawn or overfull.
TypeOK ==
    /\ clock \in Time
    /\ bucket \in [Buckets -> [tokens : Nat, lastRefill : Time, expiresAt : Nat]]
    /\ \A b \in Buckets : bucket[b].tokens <= Full(b)
    /\ pc \in [Requests -> {"idle", "guard", "store"}]
    /\ instance \in [Requests -> Instances]
    /\ now \in [Requests -> Time]
    /\ granted \in [Buckets -> Nat]
    /\ first \in [Buckets -> Time]
    /\ rewound \in [Buckets -> Nat]
    /\ upTo \in [Time -> Nat]
    /\ passed \in [Instances -> Nat]

\* Every grant beyond the capacity was paid for by the clock, or by samples
\* that reached the bucket out of order: nothing else creates tokens, neither
\* expiry, nor an outage, nor a lost commit.
GrantsArePaid ==
    \A b \in Buckets :
        granted[b] * Refill(b) + bucket[b].tokens
            <= Full(b) + (bucket[b].lastRefill - first[b]) + rewound[b]

\* rate_limit.py lines 54-55: while Firestore is down the local guard still
\* bounds what one instance lets through.
FallbackBounded ==
    \A i \in Instances :
        passed[i] * Refill(i)
            <= Full(i) + (bucket[i].lastRefill - first[i]) + rewound[i]

\* How many shared grants carry a sample from s to t
GrantsBetween(s, t) == upTo[t] - (IF s = 0 THEN 0 ELSE upTo[s - 1])

\* The sustained limit: over any interval the shared bucket lets through its
\* capacity and what refills in the interval.
SustainedLimit ==
    \A s, t \in Time :
        s <= t => GrantsBetween(s, t) * Refill(Shared) <= Full(Shared) + (t - s)

\* As long as samples reach Firestore in the order they were taken, all
\* instances together keep the sustained limit, through restarts and outages.
OrderedSamplesKeepLimit == rewound[Shared] = 0 => SustainedLimit

\* The client counts its wait, of whole seconds, from when the refusal reaches
\* it.
WaitSuffices(b, t) ==
    Allows(b, bucket[b], clock + RetryAfter(b, bucket[b], t) * PerSecond)

\* A client that was told to wait and does, while nobody else draws from the
\* bucket that refused it, is not refused by that bucket again, whatever part
\* of a second its token lacked.
RetryAfterSuffices ==
    [][\A r \in Requests :
        /\ GuardRejects(r) => WaitSuffices(instance[r], now[r])
        /\ StoreRejects(r) => WaitSuffices(Shared, now[r])]_vars
=============================================================================
