# A formal model of wildfire-tracker

TLA+ modules, TLC configurations and TLAPS proofs for the parts of
wildfire-tracker whose correctness depends on what happens at the same time,
in which order, or in spite of a failure: the access policy in front of NASA
FIRMS, one query to it from the connection to the incidents made of its answer,
the distributed rate limiter, the hourly ingestion into BigQuery, and the data
hooks of the browser with the page over them.

Paths below are relative to the repository's root; `backend/` and `frontend/`
are its two programs.

## 1. The system

```
 browser tab                      API instance (Cloud Run, several)
 ------------------------         ----------------------------------------
 App.jsx  ControlDeck             main.py routes (a thread per request)
   |  days, layer, refresh          |  rate_limit.py: local guard + Firestore
 useFireData  useIncidentData       |  fire_data.py: cache, lock, backoff
   |  cache in localStorage         |      nasa_client.py -> NASA FIRMS
   +-- fireApi.js  --- HTTP --->    |      fire_data_validation.py
                                    |  incident_clustering.py (pure)
 Cloud Scheduler --- POST ----->    +- historical_ingest.py
                                           historical_models.py (identity)
                                           bigquery_repository.py -> BigQuery
```

| Component | State it keeps | Operations that change it | Correct when |
| --- | --- | --- | --- |
| NASA access policy, `fire_data.py` | per window: frame, last attempt, backoff; one lock; the locals of every thread | arrive, unlocked cache hit, lock, re-check, backoff or throttle answer, fetch, success, failure; restart | NASA sees one spaced query at a time, labels are honest, the last good frame survives outages, nobody waits for ever |
| Rate limiter, `rate_limit.py`, `rate_limit_store.py` | a bucket per instance (guard) and one in Firestore, each with tokens, last refill, expiry | guard charge or refusal, shared charge or refusal, Firestore failure before or after its commit; restart | no tokens from nowhere, the guard bounds what an outage lets through, Retry-After is long enough |
| Historical ingestion, `historical_ingest.py`, `historical_models.py`, `bigquery_repository.py`, `sql/*.sql` | tables `fire_clusters` and `fire_detections`; each attempt's frame, hour and assignments read | fetch, stamp, read assignments, build and validate, transaction; give up, restart | keys unique, references resolve, cluster identity survives merges and splits, retries do not duplicate |
| Map data hooks, `useFireData.js`, `useIncidentData.js` and the services under them | per layer: visible data and its label, loading, error, the active request, the browser cache | load from cache, request, answer, error, superseded answer, first-render timer, expiry, cleanup | the latest choice wins, labels match, a refresh never empties the map, loading ends |
| Map page, `App.jsx`, `ControlDeck.jsx`, `refreshAllLayers.js` | window, visible layer, refresh in progress, selected result | change window, change layer, refresh both, select | the visible layer is of the chosen window, a selection is of what is displayed, controls come back |
| Incident clustering, `incident_clustering.py` | of one call: the sorted rows, the union-find, the groups | pair search, find, union, grouping; then one incident per component | incidents are the connected components of the 2 km / 24 h relation, whatever the order of rows, with IDs that identify and boundaries that enclose them |
| NASA client, `nasa_client.py` | of one query: the open response, the bytes held | connect, headers, chunks, end, parse, each with its failures | no server makes a query hold more than the limit, and every exit closes the response |
| Fire data validation, `fire_data_validation.py` | of one payload: the canonical row of each identity, the issue counters | drop, keep or merge a row; refuse, or return frame and report | bad rows are dropped and counted once, duplicates resolve without their order, no bad payload becomes an empty frame |
| Client identity and App Check in the browser | `localStorage` ID; memoised initialisation | create, reuse, initialise once | one ID per installation, one initialisation |
| Request admission, `client_identity.py`, `firebase_security.py`, `scheduler_auth.py` | none | check one request | stateless, decided by external verifiers |
| HTTP composition, logging, SQL templates, configuration, presentation | none of interest | | |

Interactions that matter: the threads of one instance share the dictionaries
and the lock of `fire_data.py`; instances share nothing but Firestore and
BigQuery; the clock is sampled before a lock or a transaction and used after
it; the ingestion calls `fetch_fires` like any request and refuses a stale
answer; the hooks share a page whose controls are disabled while they load.

Where it is hard: a thread waiting through another's slow exchange; failures
that leave an attempt recorded but no data; samples of the clock that arrive
at a bucket out of order; a commit whose answer is lost; a Scheduler retry that
overlaps the attempt it retries; clusters that merge, outlive their oldest
members and split again; answers in the browser that arrive in another order
than their requests. `PROJECT.json` lists every hazard at its line with the
properties that would notice it.

## 2. Modules

| Module | What it is | Code |
| --- | --- | --- |
| `NasaProtection` | abstract: what NASA is promised, without threads, locks or caches | `fetch_fires`, its constants |
| `NasaAccess` | detailed: the threads of one instance in `fetch_fires` | `fire_data.py` |
| `MCNasaAccess`, `MCNasaAccessLive` | instances; the latter bounds the stream of requests for liveness | |
| `NasaAccessProofs` | theorems about `NasaAccess`, for any constants | |
| `RateLimit`, `MCRateLimit`, `RateLimitProofs` | one client's guard buckets and shared bucket | `rate_limit.py`, `rate_limit_store.py` |
| `HistoryIngest`, `MCHistoryIngest`, `HistoryIngestProofs` | overlapping ingestion attempts and the two tables | `historical_*.py`, `bigquery_repository.py`, `sql/` |
| `MapData`, `MCMapData` | the two data hooks, called at any time | `hooks/`, `services/requestLifecycle.js`, `cacheStorage.js` |
| `MapPage`, `MCMapPage` | the page, composed over `MapData` | `App.jsx`, `ControlDeck.jsx`, `refreshAllLayers.js` |
| `MapProofs` | theorems about `MapData` and `MapPage` | |
| `NasaPayload`, `PayloadProofs` | one download and its validation, chunk by chunk and row by row | `nasa_client.py`, `fire_data_validation.py` |
| `Clustering`, `ClusteringProofs` | the search for components, one turn of a loop at a time | `_build_components`, `UnionFind` |
| `Incidents` | what is said of a component, as operators over the state of `Clustering` | the rest of `incident_clustering.py` |
| `Rounding` | the two ways to five decimals, `round(x, 5)` and `:.5f` | `fire_data_validation.py`, `incident_clustering.py` |
| `FirePipeline`, `MCFirePipeline`, `FirePipelineProofs` | a cold `GET /incidents`: `NasaPayload`, then `Clustering`, then `Incidents` | the `incidents` route of `main.py` |
| `HullProofs` | that the hull of `Incidents` is one, with the lemmas on numbers, sums and finite orders it shares with `FirePipelineProofs` | `_convex_hull`, `_observation_envelope` |

`PROJECT.json` maps every definition to the lines it stands for. Operators
named `Name_Variant` (`Acquire_NoLock`, `Throttled_OnlyCold`, ...) are plausible
mistakes in `Name`; no specification uses them. Each property of a passing run
is shown to notice one of them.

### NasaAccess

One action is one stretch of `fetch_fires` between two points where another
thread can be seen: `Arrive` (sample the clock), `CacheHit` / `CacheMiss` (the
unlocked look), `Acquire` (the lock and the second sample), then one locked
outcome: `HitAfterWait`, `BackoffActive`, `RefreshThrottled`, `StartFetch`, and
the end of the exchange: `FetchSucceeds`, `FetchFailsStale`, `FetchFailsCold`.
`Tick` advances the clock between any two of them, so an exchange may last any
time, and `Restart` is the replacement of the process. Every exception of the
download, the parse and the validation is the failure of the exchange.
A frame is its stored time and, as a history component, the instant NASA was
asked; `force_refresh` is absent because `fetch_fires` deletes it unused.

`monotonic()` is a float. The clock counts ticks of which `PerSecond` make a
second; the settings and what a client is told are whole seconds. `RetryAfter`
drops the fraction of what is left, as `int()` does, and adds one second, as the
code does; without that second (`RetryAfter_Truncated`) a client comes back too
early by part of a second.

### RateLimit

The clock counts ticks of which `PerSecond` make a second, because `time()` is a
float; the settings and a Retry-After are whole seconds. A bucket counts in the
units that one tick refills, so that a request costs as many as there are ticks
in `refill_seconds`. That keeps the arithmetic of `consume_bucket` exact: the
error of the floats is left out, the rounding of Retry-After is not (`Ceiling`).
`Arrive` samples `time()`; the guard and the Firestore transaction are
later steps with that sample. The store fails before (`StoreFails`) or after
(`StoreFailsAfterCommit`) its commit. Buckets of different clients are different
documents, so one client is modelled. `upTo`, a history variable, counts for
each instant the shared grants whose sample is that instant or an earlier one,
so that the grants of any interval are a difference of two of them. All
instances read one clock: drift
between them would only add to the reordering of samples the model has.

### HistoryIngest

Detections are numbers; the cluster ID that the code derives by hashing a
detection's ID is that detection, so the order of hashes is the order of numbers
and equality of hashes is equality. The order of incident IDs (a hash of the
members) is the operator constant `IncidentRank`, a number; the proofs do not
assume that different components have different ones. `Components` are the
connected components by definition. `Consumed` states in closed form what the
loop of `build_ingestion_batch` leaves in `consumed_cluster_ids`.
`MergeClusters` and `MergeDetections` are the two MERGE statements and `Commit`
the transaction around them; a lost answer after the commit ends the attempt
like a success, and the next attempt is the retry. A slot of `Runs` is an
attempt on an instance with its own NASA frame; the frame may be up to an hour
old, as the cache allows. Measurements (position, FRP, confidence, trend) are
left out: nothing here depends on them.

### MapData and MapPage

JavaScript runs one callback at a time, so an action is a callback: a load up to
its `await`, the settling of a promise, the timer of the first render. A dataset
is its window, the number of its request and whether the API served it stale. A
request is aborted exactly when it is no longer `active`, so the two conditions
of `isCurrentRequest` are one. `MapPage` adds the state of `App` and calls the
hooks as its handlers do, guarded by the `disabled` attribute of every control;
markers and list entries have none, so `Select` is possible at any time. A
selection is the layer and the window of the result it was made on: a result
that a refresh of the same window drops is merely not found, which the code
allows for. React applies all state changes of one callback together.

### NasaPayload

The server is not trusted. It may declare any length or none, send the body in
any chunks, stop at any time, and send any rows; the actions from
`HeadersArrive` to `BodyParsed` are the exits and turns of `fetch_nasa_csv`, and
`Fail` is an exception with the `finally` around it. `DropRow`, `KeepRow` and
`MergeRow` are the three ways through one turn of the loop of
`normalize_fire_data`. Texts are cleaned by the constant function `CleanText`,
and the order of `repr(sorted(item.items()))` is the constant `ReprOrder`, of
which only injectivity is assumed. A place is a pair of whole numbers of a grid
finer than the fifth decimal, and a kept row has the place that was sent;
`SameIdentity` rounds it. `str()` turns a missing satellite into the text "nan",
which is valid text: it is one more satellite here, as it is in the code.

### Clustering and Incidents

An action is one turn of a loop: of the pair search, of a `find` (`Halve`), of
the grouping. `StartClustering` sorts the rows by time and leaves rows of equal
times in any order, as `sort_values` may (its default sort is not stable).
Whether two places are within the radius is the constant relation `Near`; only
its symmetry is assumed, so nothing depends on the haversine formula. `Linked`
and `ComponentOf` define the result without search, order or forest.

`Incidents` has places in a plane and power in whole megawatts, so means, sums
and cross products are exact, and means are compared with a common denominator.
`IncidentId` is the set of fingerprints that the code hashes; a `Fingerprint`
formats the place of a row with `:.5f`, apart from the identity of the
validation, which rounded it. A trend is that of
the rows in the order they were sorted; where a component has equal times on
both sides of its middle, the other order may give another trend. `TotalFrp`
adds up the rows one after the other, as a function on their numbers. The centre,
the duration, the number of detections and the dominant confidence are read off
one component and left out.

The plane is that of pairs of integers, so cross products are exact; the code's
are of floats. `Envelope` is the ring that is served: the hull of the buffers,
every corner rounded to five decimals (`GridPoint`). After that, corners may
coincide and the ring need not be convex, which is why `EnvelopesEnclose` does
not ask for it. `BufferOffsets` gives each place its buffer, since the code's is
wider in degrees of longitude at a higher latitude. `PlaneAssumption` keeps of
the twelve equal steps that four lie on the axes, opposite each other, and that
the radius is more than five decimals tell apart: steps 0 and 6, 3 and 9.
`Chain` is either loop, `Extend` one turn of it.

### Rounding

`FiveDecimals` is 0.00001 degrees in steps of the grid. `Rounded` is `round(x, 5)`
and `Fixed` the format `:.5f`: both go to the nearest decimal, and halfway to the
even one, as Python does for floats. They differ in one thing: the format keeps
the sign of what it rounds to zero, so `Fixed` is a sign and digits. A coordinate
that is itself a negative zero does not exist in the model: it would make two
texts of one place, never one of two.

### FirePipeline

`Query` is a step of `NasaPayload`, `Group` hands the frame to the clustering,
`Cluster` is one of its steps, `Respond` answers; `Refuse` is every failure of
the query. What a request may find instead of this query (a frame, a throttle, a
backoff, a lock) is `NasaAccess`, where this query is `FetchSucceeds` or one of
the failures; the two are kept apart because one asks about many threads and
the other about one payload.

## 3. What the runs check

Passing runs:

| Run | Question and bounds |
| --- | --- |
| `nasa_access` | Two threads, two windows behind the one lock, two ticks in a second: an interval of two seconds, a backoff of one that grows to its cap of two, time to three seconds. A frame expires and is replaced, the second failure in a row reaches the cap, an exchange may outlast interval and backoff, and every wait may be left with half a second. Two threads are enough for every pair of positions around the lock. Types, the throttle's data, the honesty of labels and of Retry-After, the action properties on kept frames and current replies, and the refinement of `NasaProtection`. |
| `nasa_live` | Three threads contend for the lock; every request is answered. |
| `rate_limit` | Two instances with a guard each and one shared bucket, two requests in flight, two ticks in a second, time to 2.5 seconds: all buckets run dry, refill and expire, samples arrive in any order. A token takes two seconds of the shared bucket and one of a guard, so a part of a token and a part of a second are values that occur. |
| `history` | One attempt at a time over a chain of three detections, an hour apart, five hours: clusters form, grow in any order, merge and split when the first detection leaves the window; hours are ingested several times; publication is late. Overlapping attempts are left to the theorems (and to `history_retry`). |
| `map_data` | One hook, two windows, three requests, every initial content of the browser cache, calls at any time. |
| `map_page` | Both hooks under the page, two windows, three requests per layer, a selection at any time. The page opens with at most the entry it looks for in the browser cache and fills the rest itself; `map_data` starts from every content of it. Answers are all fresh here: staleness is a label only `page_notice` reads. |
| `fire_pipeline` | A limit of three bytes, chunks of one and two, declared lengths that are missing, small and too large; a limit of four rows and a payload of five. Payloads are of two kinds: up to three rows, in every order, out of three rows that are one detection to five decimals (rounded down, from halfway, and with a minus sign), one row a decimal away, and five with a fault each (place, time before and after the window, satellite, confidence with power); and every set of up to four detections on five places at three times, where neighbours are linked and the next but one is not, in space and in time. Four rows make chains, two pairs, a star, unions of trees of equal and of different rank, and components of an odd size; all orders of equal times are tried. A step of the fifth decimal is four steps of the grid, so that corners are rounded up, down and from halfway. Buffers overlap, have corners in common and on one line, and those of the upper row are wider. |

Violation runs, each a statement of the repository that the code does not keep:

| Run | Statement | What happens |
| --- | --- | --- |
| `nasa_interval` | `backend/config.py:52`: NASA is queried at most once per interval by an instance | the interval is kept per window; another window is queried at once (retries of a cold instance, which line 54 excepts, are not counted) |
| `rate_sustained` | `README.md:243-244`: a sustained limit shared by all instances | an older sample sets `last_refill` back and the same seconds refill twice |
| `history_retry` | `architecture.md:138-139`: retries update the same logical records | an overlapping retry with a newer frame puts a detection in two active clusters of one snapshot |
| `history_split` | `backend/historical_models.py:257-259`: a split preserves the composite key | the part that loses the ID is named after the very detection the old ID came from; the validation refuses the batch, hour after hour |
| `page_notice` | `StaleDataNotice.jsx:9-10`: "Showing the last successful source update" | after a failed load of another window the notice stands over an empty map |

`CHECK_DEADLOCK FALSE` is said where the system may stop: a page that was
closed, a request that was answered, and the history when hours and detections
of the bound are used up and every attempt is over.

Two more remarks. On `README.md:285-286` ("Every detection points to its latest"
snapshot): a second attempt of an hour, with a frame from which a detection has
gone, rewrites the row that detection points to without it. The record and the
row remain, the row no longer lists the detection. `CommitKeepsLists` states what
does hold: only a rewrite of the same hour does this, and never to a detection of
the frame that is written.

On `fire_data.py:20-21` ("only the first request reaches
NASA"): a failed cold exchange that lasts as long as its backoff leaves none to
the thread that queued behind it, which then asks NASA again. `NasaProtection`
states what does hold: attempts of a window are spaced by the interval, or by
the backoff while there is no data.

## 4. Fairness

`NasaAccess` assumes weak fairness of each thread's steps: the operating system
runs every thread, and the read timeout of the HTTP client ends an exchange that
NASA does not. Python's `Lock` promises no order among waiters, so an endless
stream of newcomers might overtake one of them for ever; `MCNasaAccessLive` says
so by bounding the number of requests instead of assuming a strong fairness the
code does not have.

`MapData` assumes weak fairness of the timer and of the settling of requests:
the event loop runs what is due, and a browser request ends by an answer, an
abort or the failure of its connection. `MapPage` adds the continuation of
`Promise.allSettled`.

`FirePipeline` assumes weak fairness of its one thread: it runs, and every read
of the body ends by data, the end of the body, an error or the read timeout.
That a server sends for ever is not excluded; `RequestEnds` holds because the
byte limit cuts it off.

The safety runs assume no fairness. There is no liveness property of the
ingestion: its retries are configured at the Scheduler, outside the repository.

## 5. What is proved

All for any value of the constants (the numbers of threads, windows, requests,
attempts and detections, the intervals and capacities), under the named
assumptions beside them, which TLC evaluates in every run.

*NASA access* (`NasaAccessProofs`). The invariant is `TypeOK /\ Coherent`:
`LockOwned`, `NothingInTheFuture`, `FrameOfAnAttempt`, `ColdAttemptBackedOff`,
`FetchIsCurrent`. No single one is inductive: that a throttled request has data
follows from "an attempt without a frame left a backoff of its own time", which
survives a fetch only because the fetching thread owns the lock and still holds
the frame the cache holds. With it: types, coherence, the throttle's data, the
honesty of fresh labels, and that every step is a step of `NasaProtection` or
leaves it unchanged (`InstanceProtectsNasa`). The three action properties follow
from the same invariant. `LastGoodAlwaysKept` needs that a thread about to fetch
has seen the frame of its window expire (`FetchingOverExpired`) and that its
query is later than the one the frame came from; `RepliesAlwaysCurrent` that
what a thread serves is what the cache holds at that step (`DataIsHeld`), which
for the unlocked look holds because look and answer are one step.
`RetryAfterAlwaysSuffices` has an invariant of its own on top, `WaitsCovered`:
until the announced wait is over a refused client has the backoff it was told
of, and whatever ends that backoff earlier is a newer attempt or a frame. That
the wait is long enough when it is announced is `SecondsLost`: truncating to
seconds loses less than the second that is added, however fine the clock is.
`PowersOfTwo` states for the 31 exponents of the code that a power of two is
positive; the provers know nothing of `^`, TLC checks it.

*Rate limiter* (`RateLimitProofs`). The invariant is an equation-like ledger
(`GrantsArePaid`) with the facts that tie `lastRefill` and `first` to the grants
made. Out-of-order samples are accounted for by `rewound`; the expiry of a
bucket adds nothing because of `ExpiryAssumption`. `FallbackAlwaysBounded`
counts, beside what an instance let through, the requests it has admitted and
that still wait for Firestore (`PassesAreGranted`): each has a grant of the
guard of its own. `RetryAfterAlwaysSuffices` needs that samples are of the past
and that whole seconds rounded up are no less than the ticks they stand for
(`CeilingCovers`). `OrderedSamplesAlwaysKeepLimit` needs the limit over the
intervals that end at the last sample, with the tokens that are left, and over
every interval behind it (`OrderedAccount`): neither is inductive without the
other.

*History* (`HistoryIngestProofs`). For any number of overlapping attempts: types
and, for the tables, unique keys, existing targets and resolving tombstones
together. The proof shows that the batch is internally consistent (every
tombstone points to an active row of the batch; a valid batch has unique keys)
and that replacing rows by key keeps the rest. `TombstonesResolve` is stated as
well-foundedness: every set of tombstones has one that leaves it.
`CommitAlwaysKeepsLists` is proved without a restriction on overlaps too: the
row a detection of the batch points to is the one of its component, and a MERGE
replaces rows of its own hour only. What the hour that is written may lose is
the first remark at the end of section 3; it is why `PointsToLatest` says that
every row that lists a detection is the one its record points to or an earlier
one, and not that the row pointed to lists it.

Three results hold while attempts do not overlap, and have that as a hypothesis:
`Spec /\ []NoOverlap`, for any number of instances that make them one after the
other (`history_retry` shows what happens otherwise). Their invariant says that
what an attempt has read is still so when it commits, that no stored record is
later than its hour (`ReadsAreFresh`), and that a record follows the latest row
that lists its detection and names that row's cluster (`RecordsFollow`). The
lemma they rest on is `NoIdLost`: of the components that hold an old ID the
first in order finds it available and keeps it or buries it, so the batch has a
row for it, and that row replaces the one of an earlier attempt in the same
hour. The first component exists because the order is one of pairs of numbers
(`LeastPair`); that a detection is in one row only is `ComponentOfMember`, the
symmetry of the links.

*Map* (`MapProofs`). `HookInv` says of each hook that a pending request that is
current is the last one sent and is for the chosen window. Latest-wins, labels,
the settled view, the cache and the refresh follow. The page's invariant says
that its window is that of the visible layer's last call and that while the
first-render timer is pending nothing else has happened; so the page only takes
steps of `MapData` (`PageUsesHooks`) and inherits the rest, and the visible
layer is always of the chosen window. A selection stays valid because no step
but a choice of the page empties the visible layer (`StepKeepsData`).
`OneRequestPerLayer` needs `QueueInv`: a layer's one request is the one it
waits for, and that of the hidden layer is one the refresh waits for as well,
so that enabled controls find nothing open.

*Clustering* (`ClusteringProofs`). For any rows, any symmetric `Near` and any
limit, `_build_components` returns the connected components. An argument along
paths, through the forest or through the links, would be an induction over data;
the invariant says instead that some map from rows to roots (`Witness`) is the
identity on roots, is shared by every row with its parent, agrees on all linked
pairs the search has looked at, and divides no set that is closed under links.
Halving keeps the map, joining redirects one root in it. When the search is
over, the order of the rows shows that the pairs it broke off before were not
linked. `RanksAlwaysClimb` shows that the forest has no cycle.

*One query* (`PayloadProofs`). `MemoryStaysBounded` is part of the invariant.
`DuplicatesResolve` states what the loop has kept without its order: of the rows
seen so far, the least of each identity; the step needs that identity is an
equivalence (`IdentityIsEquivalence`: rounding is a function), that every row
seen is represented, and that the order is injective. `FramesAreClean` has the
balance of the report from its form in the middle of the loop (`Balanced`: the
rows so far are kept, merged or dropped) and adds the stages.

*A request* (`FirePipelineProofs`). The pipeline implements both of its parts
(`PipelineQueries`, `PipelineClusters`): the query takes steps of `NasaPayload`
only, and what it accepts is a finite set of detections the search may be given.
So their theorems hold of a request (`PartsKeepPromises`). `Handover` adds that
the rows of the search are the kept ones, which stay because an accepted query
takes no further step. With it `IdsAlwaysIdentify`: two rows of one fingerprint
would be two kept rows of one identity, because texts that are equal are of
coordinates that round equally (`FixedIsFiner`). `SteadyFiresAreStable` is about
sums: whichever rows of a half are measured, their total is the power times
their number, so the two products that `Trend` compares are equal; a half
without any is stable by the comparison with NaN. `ListAlwaysComplete` and the
positions in the list rest on `BeforeOrders` (ties are broken by the first rows,
and components are disjoint) and on `EveryPosition`: in a finite set under a
strict total order each number below its size counts the elements before exactly
one.

*The envelope* (`HullProofs`). `HullIsConvex` is about any finite set of points,
with any number on one line. After each point of a loop its chain runs in the
direction of the sort between the first and the last point so far (`Spans`),
turns left at every corner towards every other one (`Bends`) and leaves no
point seen so far on its right (`Covers`); each part is needed for the step of
another. `ChainGrows` is that step. For points before the corner at which the
loop stops popping it rests on `Pivot`: what is not right of one edge is left of
the next, if that turns left. For points behind that corner it rests on
`Sideways`, because a popped corner did not turn left. The two chains are put
together by `CornersLeft`: a chain covers the ends of the other, whose inner
corners lie beyond the chord between those ends (`LeftOfChord`).
`RingOfChains` shows that `lower[:-1] + upper[:-1]` has each edge once. A
detection is strictly inside (`BufferedIsLeft`): it is the middle of two opposite
corners, none of them right of an edge, so it is left of the edge unless both lie
on its line, and that cannot be so in two directions.

What a client gets has its corners rounded, and a ring of rounded corners may be
neither convex nor without repetition. What remains true is `GoesAround`: exactly
one edge passes the detection below it, rightwards, and exactly one above it,
back. Rounding is monotone (`RoundedKeepsOrder`), so the lower chain still runs
right and the upper one back (`RunsAround`), and each crosses the detection's
vertical once. It moves a corner by no more than half of a fifth decimal on each
axis (`RoundedIsNear`), and the buffer is wider than that on both sides, so an
edge that has the buffer on its left still has the detection there
(`StillOutside`, `RoundedEdgePasses`, `ServedRingGoesAround`).
`EnvelopesAlwaysEnclose` follows for every boundary a client is shown.

Induction over data is out of the prover's reach where its theorem takes the
property as an operator; over the natural numbers `SetInduction` states it with
a set, which is what sums and prefixes need.

Only model-checked: liveness (`AlwaysAnswered`, `LoadingEnds`,
`ControlsComeBack`, `RequestEnds`), which is out of the prover's reach, as is
`ENABLED`. Every invariant and every action property of the passing runs is a
theorem. Proved for any constants and not run besides:
`Coherent`, `RanksClimb`, `ListedByPower` and `TypeOK` of `MapData`.

## 6. Not modelled

- Request admission: a UUID and an HMAC, an App Check token, an OIDC token,
  each decided for one request by an external verifier. Nothing is kept, so
  putting it in front of the rate limiter would only add a guard to `Arrive`.
- Client identity and App Check in the browser: a string in `localStorage` and
  one memoised promise. The page sees them as requests that fail, which
  `MapData` has at any time.
- The error of floating-point arithmetic: clocks and tokens are exact, cross
  products and means too. Conversions to whole seconds and to five decimals are
  modelled.
- The routes other than the incidents, and `summarize_fires`: one call each.
- SQL templates and DDL, configuration, logging, presentation.
- Two tabs on one browser cache; React's double mount in development.
- Sizes other than those of the download (the storage guard, the memory of the
  in-memory store): the first is a failure that may happen at any time, the
  second grows with the number of clients and is bounded by nothing.
- How long a thread waits behind a slow exchange for another window: the lock
  is one for all windows, so it may be long; that it ends is `AlwaysAnswered`.
- That a throttled instance serves its stale frame, which the ingestion refuses,
  so that the hour has no snapshot unless a retry comes after the interval: the
  retries are configured outside the repository.

## 7. Plan

In order of importance; all of it is done.

1. `NasaProtection`, `NasaAccess`: policy, refinement, proofs.
2. `RateLimit`: both buckets, ledger, proofs.
3. `HistoryIngest`: identity, tables, overlapping attempts, proofs, and the
   proofs for attempts that do not overlap.
4. `MapData`, `MapPage`: hooks, page, selection, proofs.
5. `Clustering`, `Incidents`: the union-find against the components, proofs.
6. `Rounding`, `NasaPayload`, `FirePipeline`: one query and what is made of it,
   proofs.
7. `HullProofs`: the convex hull, and with it `EnvelopesEnclose`.

## 8. Running

```
tlc -workers 2 -config MCNasaAccess.cfg MCNasaAccess
tlapm NasaAccessProofs.tla
```

and likewise for the other configurations and proof modules.
