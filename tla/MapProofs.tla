------------------------------ MODULE MapProofs ------------------------------
(***************************************************************************)
(* MapData for any layers, windows and number of requests: the invariant   *)
(* HookInv is inductive, and it implies what the hooks promise.  The page  *)
(* of MapPage only takes steps of MapData, so it inherits all of it.       *)
(***************************************************************************)
EXTENDS MapPage, FiniteSetTheorems, TLAPS

\* What one hook keeps between two callbacks: a pending request that is
\* current is for the chosen window and is the last one sent.
HookOK(l) ==
    /\ \A r \in open[l] :
          /\ r.id <= issued[l]
          /\ r.id = active[l] => r.days = chosen[l]
    /\ active[l] \in {None, issued[l]}
    /\ \A d \in Windows : stored[l][d].id <= issued[l]
    /\ shown[l] # Nothing =>
          /\ shown[l].days = chosen[l]
          /\ label[l] = shown[l]
          /\ loadedDays[l] = shown[l].days
    /\ mounted /\ ~loading[l] /\ ~failed[l] /\ chosen[l] # None
          => shown[l].days = chosen[l]

HookInv == TypeOK /\ \A l \in Layers : HookOK(l)

\* Nothing is not a dataset, since windows are positive.
LEMMA NothingIsNoDataset == Nothing \notin Dataset
BY MapAssumption DEF Nothing, Dataset, None

LEMMA NothingFields ==
    Nothing.days = None /\ Nothing.id = None
BY DEF Nothing

LEMMA DatasetFields ==
    ASSUME NEW x \in Dataset
    PROVE  x.days \in Windows /\ x.id \in 0..MaxRequests
BY DEF Dataset

\* A readable entry is a dataset of its window.
LEMMA EntryIsDataset ==
    ASSUME TypeOK, NEW l \in Layers, NEW d \in Windows, Entry(l, d) # Nothing
    PROVE  Entry(l, d) \in Dataset /\ Entry(l, d).days = d
<1>1. Entry(l, d) \in Dataset
  BY DEF TypeOK, Entry, CacheKey
<1>2. Entry(l, d).days # None
  BY <1>1, DatasetFields, MapAssumption DEF None
<1> QED
  BY <1>1, <1>2 DEF TypeOK, Entry, CacheKey

LEMMA InitHolds == Init => HookInv
<1> SUFFICES ASSUME Init PROVE HookInv
  OBVIOUS
<1>1. stored \in [Layers -> [Windows -> Dataset \cup {Nothing}]]
  BY DEF Init
<1>2. ASSUME NEW l \in Layers, NEW d \in Windows
      PROVE  stored[l][d].days \in {d, None} /\ stored[l][d].id = 0
  BY <1>2, NothingFields DEF Init, None
<1>3. ASSUME NEW l \in Layers
      PROVE  /\ AtStart(l) \in Dataset \cup {Nothing}
             /\ AtStart(l).days \in Windows \cup {None}
             /\ AtStart(l) # Nothing => /\ l \in EagerLayers
                                        /\ AtStart(l).days = DefaultWindow
  <2>1. AtStart(l) \in Dataset \cup {Nothing}
    BY <1>1, <1>3, MapAssumption DEF AtStart, Entry, CacheKey
  <2>2. AtStart(l).days \in Windows \cup {None}
    BY <2>1, DatasetFields, NothingFields
  <2>3. AtStart(l) # Nothing => l \in EagerLayers
    BY DEF AtStart
  <2>4. AtStart(l) # Nothing => AtStart(l).days = DefaultWindow
    BY MapAssumption DEF AtStart, Entry, CacheKey, Init
  <2> QED
    BY <2>1, <2>2, <2>3, <2>4
<1>4. TypeOK
  BY <1>1, <1>2, <1>3, MapAssumption DEF Init, TypeOK, None
<1>5. ASSUME NEW l \in Layers PROVE HookOK(l)
  <2>1. shown[l] = AtStart(l) /\ label[l] = AtStart(l)
    BY <1>5 DEF Init
  <2>2. open[l] = {} /\ active[l] = None /\ issued[l] = 0
    BY <1>5 DEF Init
  <2>3. loadedDays[l] = AtStart(l).days
    BY <1>5 DEF Init
  <2>4. chosen[l] = IF l \in EagerLayers THEN DefaultWindow ELSE None
    BY <1>5 DEF Init
  <2>5. ~loading[l] /\ l \in EagerLayers => AtStart(l) # Nothing
    BY <1>5 DEF Init
  <2> QED
    BY <1>2, <1>3, <1>5, <2>1, <2>2, <2>3, <2>4, <2>5 DEF HookOK, None
<1> QED
  BY <1>4, <1>5 DEF HookInv

-----------------------------------------------------------------------------
\* Each part of a callback preserves the invariant.

LEMMA ServeCachedKeeps ==
    ASSUME HookInv, NEW l \in Layers, NEW d \in Windows, ServeCached(l, d),
           mounted' = mounted, timer' \subseteq EagerLayers
    PROVE  HookInv'
<1> DEFINE e == Entry(l, d)
<1>1. e \in Dataset /\ e.days = d
  BY EntryIsDataset DEF HookInv, ServeCached
<1>2. d # None
  BY MapAssumption DEF None
<1>3. TypeOK'
  BY <1>1, MapAssumption DEF HookInv, TypeOK, ServeCached, None
<1>4. ASSUME NEW k \in Layers PROVE HookOK(k)'
  <2>1. HookOK(k) /\ TypeOK
    BY DEF HookInv
  <2>2. CASE k # l
    BY <2>1, <2>2 DEF HookOK, TypeOK, ServeCached
  <2>3. CASE k = l
    <3>1. /\ shown'[k] = e /\ label'[k] = e /\ loadedDays'[k] = d
          /\ chosen'[k] = d /\ active'[k] = None
          /\ open'[k] = open[k] /\ issued'[k] = issued[k]
          /\ stored'[k] = stored[k]
      BY <2>3 DEF HookInv, TypeOK, ServeCached
    <3>2. \A r \in open[k] : r.id # None
      BY DEF HookInv, TypeOK, Requests, None
    <3> QED
      BY <1>1, <2>1, <3>1, <3>2 DEF HookOK
  <2> QED
    BY <2>2, <2>3
<1> QED
  BY <1>3, <1>4 DEF HookInv

LEMMA RequestKeeps ==
    ASSUME HookInv, NEW S \in SUBSET Layers, NEW d \in Windows, Request(S, d),
           mounted' = mounted, timer' \subseteq EagerLayers
    PROVE  HookInv'
<1>1. d # None
  BY MapAssumption DEF None
<1>2. TypeOK'
  <2>1. \A l \in S : issued[l] + 1 \in 1..MaxRequests
    BY MapAssumption DEF HookInv, TypeOK, Request
  <2>2. issued' \in [Layers -> 0..MaxRequests]
    BY <2>1, MapAssumption DEF HookInv, TypeOK, Request
  <2>3. active' \in [Layers -> 0..MaxRequests]
    BY <2>1, MapAssumption DEF HookInv, TypeOK, Request
  <2>4. open' \in [Layers -> SUBSET Requests]
    <3>1. \A l \in S : [id |-> issued[l] + 1, days |-> d] \in Requests
      BY <2>1 DEF Requests
    <3> QED
      BY <3>1 DEF HookInv, TypeOK, Request
  <2>5. shown' \in [Layers -> Dataset \cup {Nothing}]
    BY DEF HookInv, TypeOK, Request
  <2>6. loading' \in [Layers -> BOOLEAN] /\ failed' \in [Layers -> BOOLEAN]
    BY DEF HookInv, TypeOK, Request
  <2>7. chosen' \in [Layers -> Windows \cup {None}]
    BY DEF HookInv, TypeOK, Request
  <2> QED
    BY <2>2, <2>3, <2>4, <2>5, <2>6, <2>7 DEF HookInv, TypeOK, Request
<1>3. ASSUME NEW k \in Layers PROVE HookOK(k)'
  <2>1. HookOK(k) /\ TypeOK
    BY DEF HookInv
  <2>2. CASE k \notin S
    BY <2>1, <2>2 DEF HookOK, TypeOK, Request
  <2>3. CASE k \in S
    <3>1. /\ active'[k] = issued[k] + 1 /\ issued'[k] = issued[k] + 1
          /\ chosen'[k] = d /\ loading'[k] = TRUE
          /\ open'[k] = open[k] \cup {[id |-> issued[k] + 1, days |-> d]}
          /\ stored'[k] = stored[k] /\ label'[k] = label[k]
          /\ loadedDays'[k] = loadedDays[k]
      BY <2>3 DEF Request
    <3>2. shown'[k] = IF loadedDays[k] # d THEN Nothing ELSE shown[k]
      BY <2>3 DEF Request, ShouldClear
    <3>3. issued[k] \in Nat
      BY <2>1 DEF TypeOK
    <3>4. \A r \in open'[k] :
            r.id <= issued'[k] /\ (r.id = active'[k] => r.days = chosen'[k])
      <4>1. \A r \in open[k] : r.id \in Nat /\ r.id <= issued[k]
        BY <2>1 DEF TypeOK, HookOK, Requests
      <4> QED
        BY <3>1, <3>3, <4>1
    <3>5. \A w \in Windows : stored'[k][w].id <= issued'[k]
      <4>1. \A w \in Windows : stored[k][w].id \in Nat
        BY <2>1, DatasetFields, NothingFields DEF TypeOK, None
      <4> QED
        BY <2>1, <3>1, <3>3, <4>1 DEF HookOK
    <3>6. shown'[k] # Nothing => /\ shown'[k].days = chosen'[k]
                                 /\ label'[k] = shown'[k]
                                 /\ loadedDays'[k] = shown'[k].days
      BY <2>1, <3>1, <3>2 DEF HookOK
    <3> QED
      BY <3>1, <3>4, <3>5, <3>6 DEF HookOK
  <2> QED
    BY <2>2, <2>3
<1> QED
  BY <1>2, <1>3 DEF HookInv

LEMMA SucceedKeeps ==
    ASSUME HookInv, NEW l \in Layers, NEW r \in open[l], Succeed(l, r)
    PROVE  HookInv'
<1>1. PICK stale \in StaleAnswers :
         LET data == [days |-> r.days, id |-> r.id, stale |-> stale] IN
         /\ \E entry \in {data, Entry(l, r.days)} :
              stored' = [stored EXCEPT ![l][CacheKey(r.days)] = entry]
         /\ shown' = [shown EXCEPT ![l] = data]
         /\ label' = [label EXCEPT ![l] = data]
  BY DEF Succeed
<1> DEFINE data == [days |-> r.days, id |-> r.id, stale |-> stale]
<1>2. r \in Requests /\ r.days \in Windows /\ r.id \in 1..MaxRequests
  BY DEF HookInv, TypeOK, Requests
<1>3. data \in Dataset /\ data.days = r.days /\ data.id = r.id
  BY <1>2, MapAssumption DEF Dataset
<1>4. PICK entry \in {data, stored[l][r.days]} :
         stored' = [stored EXCEPT ![l][r.days] = entry]
  BY <1>1 DEF Entry, CacheKey
<1>5. /\ shown' = [shown EXCEPT ![l] = data]
      /\ label' = [label EXCEPT ![l] = data]
      /\ loadedDays' = [loadedDays EXCEPT ![l] = r.days]
      /\ active[l] = r.id
      /\ open' = [open EXCEPT ![l] = @ \ {r}]
      /\ active' = [active EXCEPT ![l] = None]
      /\ loading' = [loading EXCEPT ![l] = FALSE]
      /\ UNCHANGED <<failed, timer, mounted, issued, chosen>>
  BY <1>1 DEF Succeed, Finally, IsCurrent
<1>6. entry \in Dataset \cup {Nothing} /\ entry.days \in {r.days, None}
  BY <1>2, <1>3 DEF HookInv, TypeOK
<1>7. r.id = issued[l] /\ r.days = chosen[l]
  BY <1>2, <1>5 DEF HookInv, HookOK, None
<1>8. TypeOK'
  <2>1. stored' \in [Layers -> [Windows -> Dataset \cup {Nothing}]]
    BY <1>2, <1>4, <1>6 DEF HookInv, TypeOK
  <2>2. ASSUME NEW k \in Layers, NEW d \in Windows
        PROVE  stored'[k][d].days \in {d, None}
    BY <1>2, <1>4, <1>6 DEF HookInv, TypeOK
  <2>3. shown' \in [Layers -> Dataset \cup {Nothing}]
        /\ label' \in [Layers -> Dataset \cup {Nothing}]
    BY <1>3, <1>5 DEF HookInv, TypeOK
  <2> QED
    BY <1>2, <1>5, <2>1, <2>2, <2>3, MapAssumption DEF HookInv, TypeOK, None
<1>9. ASSUME NEW k \in Layers PROVE HookOK(k)'
  <2>1. HookOK(k) /\ TypeOK
    BY DEF HookInv
  <2>2. CASE k # l
    <3>1. stored'[k] = stored[k]
      BY <1>4, <2>1, <2>2 DEF TypeOK
    <3> QED
      BY <1>5, <2>1, <2>2, <3>1 DEF HookOK, TypeOK
  <2>3. CASE k = l
    <3>1. /\ shown'[k] = data /\ label'[k] = data /\ loadedDays'[k] = r.days
          /\ active'[k] = None /\ open'[k] = open[k] \ {r}
          /\ issued'[k] = issued[k] /\ chosen'[k] = chosen[k]
      BY <1>5, <2>1, <2>3 DEF TypeOK
    <3>2. \A q \in open[k] : q.id # None
      BY <2>1 DEF TypeOK, Requests, None
    <3>3. entry.id <= issued[k]
      BY <1>3, <1>7, <1>2, <2>1, <2>3 DEF HookOK
    <3>4. \A d \in Windows : stored'[k][d].id <= issued'[k]
      BY <1>4, <1>2, <2>1, <2>3, <3>1, <3>3 DEF HookOK, TypeOK
    <3> QED
      BY <1>3, <1>7, <2>1, <2>3, <3>1, <3>2, <3>4 DEF HookOK
  <2> QED
    BY <2>2, <2>3
<1> QED
  BY <1>8, <1>9 DEF HookInv

LEMMA FailKeeps ==
    ASSUME HookInv, NEW l \in Layers, NEW r \in open[l], Fail(l, r)
    PROVE  HookInv'
<1>1. /\ failed' = [failed EXCEPT ![l] = TRUE]
      /\ open' = [open EXCEPT ![l] = @ \ {r}]
      /\ active' = [active EXCEPT ![l] = None]
      /\ loading' = [loading EXCEPT ![l] = FALSE]
      /\ UNCHANGED <<stored, shown, label, loadedDays, timer, mounted, issued,
                     chosen>>
  BY DEF Fail, Finally, IsCurrent
<1>2. TypeOK'
  BY <1>1, MapAssumption DEF HookInv, TypeOK, None
<1>3. ASSUME NEW k \in Layers PROVE HookOK(k)'
  <2>1. \A q \in open[k] : q.id # None
    BY DEF HookInv, TypeOK, Requests, None
  <2> QED
    BY <1>1, <2>1 DEF HookInv, HookOK, TypeOK
<1> QED
  BY <1>2, <1>3 DEF HookInv

LEMMA DiscardKeeps ==
    ASSUME HookInv, NEW l \in Layers, NEW r \in open[l], Discard(l, r)
    PROVE  HookInv'
<1>1. /\ open' = [open EXCEPT ![l] = @ \ {r}]
      /\ UNCHANGED <<stored, shown, label, loadedDays, failed, timer, mounted,
                     issued, chosen>>
  BY DEF Discard, Finally
<1>2. active' = active /\ loading' = loading
  BY DEF Discard, Finally, IsCurrent, HookInv, TypeOK
<1>3. TypeOK'
  BY <1>1, <1>2 DEF HookInv, TypeOK
<1>4. ASSUME NEW k \in Layers PROVE HookOK(k)'
  BY <1>1, <1>2 DEF HookInv, HookOK, TypeOK
<1> QED
  BY <1>3, <1>4 DEF HookInv

LEMMA ExpireKeeps ==
    ASSUME HookInv, NEW l \in Layers, NEW d \in Windows, Expire(l, d)
    PROVE  HookInv'
<1>1. stored' = [stored EXCEPT ![l][d] = Nothing]
  BY DEF Expire
<1>2. TypeOK'
  BY <1>1, NothingFields DEF Expire, HookInv, TypeOK, view
<1>3. ASSUME NEW k \in Layers PROVE HookOK(k)'
  <2>1. ASSUME NEW e \in Windows PROVE stored'[k][e].id <= issued[k]
    BY <1>1, NothingFields DEF HookInv, HookOK, TypeOK, None
  <2> QED
    BY <2>1 DEF Expire, HookInv, HookOK, view
<1> QED
  BY <1>2, <1>3 DEF HookInv

LEMMA UnmountKeeps == HookInv /\ Unmount => HookInv'
<1> SUFFICES ASSUME HookInv, Unmount PROVE HookInv'
  OBVIOUS
<1>1. TypeOK'
  <2>1. active' \in [Layers -> 0..MaxRequests]
    BY MapAssumption DEF Unmount, None
  <2>2. UNCHANGED <<stored, shown, label, loadedDays, loading, failed, open,
                    issued, chosen>>
    BY DEF Unmount, view
  <2>3. timer' \subseteq EagerLayers /\ mounted' \in BOOLEAN
    BY DEF Unmount
  <2> QED
    BY <2>1, <2>2, <2>3 DEF HookInv, TypeOK
<1>2. ASSUME NEW k \in Layers PROVE HookOK(k)'
  <2>1. \A q \in open[k] : q.id # None
    BY DEF HookInv, TypeOK, Requests, None
  <2> QED
    BY <2>1 DEF Unmount, HookInv, HookOK, view
<1> QED
  BY <1>1, <1>2 DEF HookInv

LEMMA LoadKeeps ==
    ASSUME HookInv, NEW l \in Layers, NEW d \in Windows, Load(l, d),
           mounted' = mounted, timer' \subseteq EagerLayers
    PROVE  HookInv'
BY ServeCachedKeeps, RequestKeeps DEF Load

LEMMA NextKeeps == HookInv /\ [Next]_hookVars => HookInv'
<1> SUFFICES ASSUME HookInv, [Next]_hookVars PROVE HookInv'
  OBVIOUS
<1>1. ASSUME NEW l \in Layers, TimerFires(l) PROVE HookInv'
  <2>1. timer' \subseteq EagerLayers
    BY <1>1 DEF TimerFires, HookInv, TypeOK
  <2> QED
    BY <1>1, <2>1, LoadKeeps, MapAssumption DEF TimerFires
<1>2. ASSUME NEW l \in Layers, Settle(l) PROVE HookInv'
  BY <1>2, SucceedKeeps, FailKeeps, DiscardKeeps DEF Settle
<1>3. ASSUME NEW l \in Layers, NEW d \in Windows, Expire(l, d) PROVE HookInv'
  BY <1>3, ExpireKeeps
<1>4. CASE Unmount
  BY <1>4, UnmountKeeps
<1>5. CASE Call
  <2>1. mounted' = mounted /\ timer' \subseteq EagerLayers
    BY <1>5 DEF Call, HookInv, TypeOK
  <2>2. ASSUME NEW l \in Layers, NEW d \in Windows, Load(l, d) PROVE HookInv'
    BY <2>1, <2>2, LoadKeeps
  <2>3. ASSUME NEW S \in SUBSET Layers, NEW d \in Windows, Request(S, d)
        PROVE  HookInv'
    BY <2>1, <2>3, RequestKeeps
  <2> QED
    BY <1>5, <2>2, <2>3 DEF Call
<1>6. CASE UNCHANGED hookVars
  <2>1. UNCHANGED <<stored, shown, label, loadedDays, loading, failed, active,
                    open, timer, mounted, issued, chosen>>
    BY <1>6 DEF hookVars, view
  <2>2. TypeOK'
    BY <2>1 DEF HookInv, TypeOK
  <2>3. ASSUME NEW k \in Layers PROVE HookOK(k)'
    BY <2>1 DEF HookInv, HookOK
  <2> QED
    BY <2>2, <2>3 DEF HookInv
<1> QED
  BY <1>1, <1>2, <1>3, <1>4, <1>5, <1>6 DEF Next, Background

LEMMA HookInvHolds == Spec => []HookInv
BY InitHolds, NextKeeps, PTL DEF Spec

-----------------------------------------------------------------------------
\* useFireData, useIncidentData: every variable keeps its type, and an entry
\* of the browser cache is of the window it is stored for.
THEOREM TypeCorrect == Spec => []TypeOK
<1>1. HookInv => TypeOK
  BY DEF HookInv
<1> QED
  BY <1>1, HookInvHolds, PTL

\* Latest request wins, with its own label, for any number of calls, requests
\* and windows.
THEOREM LatestRequestWins == Spec => []VisibleIsChosen
<1>1. HookInv => VisibleIsChosen
  BY DEF HookInv, HookOK, VisibleIsChosen
<1> QED
  BY <1>1, HookInvHolds, PTL

\* When nothing loads and nothing failed, the chosen window is displayed.
THEOREM SettledAlwaysShowsChosen == Spec => []SettledShowsChosen
<1>1. HookInv => SettledShowsChosen
  BY DEF HookInv, HookOK, SettledShowsChosen
<1> QED
  BY <1>1, HookInvHolds, PTL

-----------------------------------------------------------------------------
LEMMA StepKeepsData ==
    ASSUME HookInv, [Next]_hookVars, NEW l \in Layers,
           shown[l] # Nothing, shown'[l] = Nothing
    PROVE  chosen'[l] # shown[l].days
<1> DEFINE Keeps == chosen'[l] # shown[l].days
<1>1. ASSUME NEW k \in Layers, NEW d \in Windows, ServeCached(k, d)
      PROVE  Keeps
  BY <1>1 DEF ServeCached, HookInv, TypeOK
<1>2. ASSUME NEW S \in SUBSET Layers, NEW d \in Windows, Request(S, d)
      PROVE  Keeps
  BY <1>2 DEF Request, ShouldClear, HookInv, HookOK
<1>3. ASSUME NEW k \in Layers, NEW d \in Windows, Load(k, d)
      PROVE  Keeps
  BY <1>1, <1>2, <1>3 DEF Load
<1>4. ASSUME NEW k \in Layers, NEW r \in open[k], Succeed(k, r)
      PROVE  Keeps
  <2>1. r \in Requests
    BY <1>4 DEF HookInv, TypeOK
  <2>2. PICK stale \in StaleAnswers :
           shown' = [shown EXCEPT
                       ![k] = [days |-> r.days, id |-> r.id, stale |-> stale]]
    BY <1>4 DEF Succeed
  <2>3. [days |-> r.days, id |-> r.id, stale |-> stale] # Nothing
    BY <2>1, <2>2, MapAssumption DEF Nothing, None, Requests
  <2> QED
    BY <2>2, <2>3 DEF HookInv, TypeOK
<1>5. shown' # shown
  OBVIOUS
<1>6. CASE Background
  BY <1>3, <1>4, <1>5, <1>6, MapAssumption
     DEF Background, TimerFires, Settle, Fail, Discard, Expire, Unmount, view
<1>7. CASE Call
  BY <1>2, <1>3, <1>7 DEF Call
<1>8. CASE UNCHANGED hookVars
  BY <1>5, <1>8 DEF hookVars, view
<1> QED
  BY <1>6, <1>7, <1>8 DEF Next

\* Visible data is cleared only for another window: no refresh and no failure
\* empties the map.
THEOREM RefreshAlwaysKeepsData == Spec => RefreshKeepsData
<1>1. HookInv /\ [Next]_hookVars
        => [\A l \in Layers : shown[l] # Nothing /\ shown'[l] = Nothing
                                => chosen'[l] # shown[l].days]_hookVars
  BY StepKeepsData
<1> QED
  BY <1>1, HookInvHolds, PTL DEF Spec, RefreshKeepsData

\* No late answer replaces a newer entry of the browser cache: the current
\* request is the last one sent, and the entries are of earlier ones.
THEOREM CacheOnlyGoesForward == Spec => CacheNeverGoesBack
<1> DEFINE Forward(l, d) == stored[l][d] # Nothing /\ stored'[l][d] # Nothing
                              => stored'[l][d].id >= stored[l][d].id
<1>1. ASSUME HookInv, Next, NEW l \in Layers, NEW d \in Windows
      PROVE  Forward(l, d)
  <2>1. stored[l][d].id \in Nat
    BY <1>1, DatasetFields, NothingFields DEF HookInv, TypeOK, None
  <2>2. stored' = stored => Forward(l, d)
    BY <2>1
  <2>3. ASSUME NEW k \in Layers, NEW r \in open[k], Succeed(k, r)
        PROVE  Forward(l, d)
    <3>1. r \in Requests /\ r.id = issued[k]
      BY <1>1, <2>3 DEF HookInv, HookOK, TypeOK, Succeed, IsCurrent, Requests, None
    <3>2. PICK stale \in StaleAnswers :
             \E entry \in {[days |-> r.days, id |-> r.id, stale |-> stale],
                           stored[k][r.days]} :
                stored' = [stored EXCEPT ![k][r.days] = entry]
      BY <2>3 DEF Succeed, Entry, CacheKey
    <3>3. PICK entry \in {[days |-> r.days, id |-> r.id, stale |-> stale],
                          stored[k][r.days]} :
             stored' = [stored EXCEPT ![k][r.days] = entry]
      BY <3>2
    <3>4. stored'[l][d] = IF l = k /\ d = r.days THEN entry ELSE stored[l][d]
      BY <1>1, <3>1, <3>3 DEF HookInv, TypeOK, Requests
    <3>5. entry = stored[k][r.days] \/ entry.id = issued[k]
      BY <3>1, <3>3
    <3>6. stored[l][d].id <= issued[l]
      BY <1>1 DEF HookInv, HookOK
    <3> QED
      BY <2>1, <3>4, <3>5, <3>6
  <2>4. ASSUME NEW k \in Layers, NEW e \in Windows, Expire(k, e)
        PROVE  Forward(l, d)
    BY <1>1, <2>1, <2>4 DEF Expire, HookInv, TypeOK
  <2>5. ASSUME NEW k \in Layers, NEW e \in Windows, Load(k, e)
        PROVE  stored' = stored
    BY <2>5 DEF Load, ServeCached, Request
  <2>6. CASE Background
    BY <2>2, <2>3, <2>4, <2>5, <2>6, MapAssumption
       DEF Background, TimerFires, Settle, Fail, Discard, Unmount
  <2>7. CASE Call
    BY <2>2, <2>5, <2>7 DEF Call, Request
  <2> QED
    BY <1>1, <2>6, <2>7 DEF Next
<1>2. HookInv /\ [Next]_hookVars
        => [\A l \in Layers, d \in Windows :
              stored[l][d] # Nothing /\ stored'[l][d] # Nothing
                => stored'[l][d].id >= stored[l][d].id]_hookVars
  BY <1>1
<1> QED
  BY <1>2, HookInvHolds, PTL DEF Spec, CacheNeverGoesBack

-----------------------------------------------------------------------------
\* What the page adds: the visible layer's last call was for the chosen window,
\* and until the first request is sent nothing else has happened.
PageInv ==
    /\ days \in Windows
    /\ layer \in Layers
    /\ chosen[layer] = days
    /\ \A l \in timer :
          /\ l = layer
          /\ days = DefaultWindow
          /\ loading[l]
          /\ open[l] = {}

LEMMA PageInitHolds == PageInit => Init /\ PageInv
<1> SUFFICES ASSUME PageInit PROVE Init /\ PageInv
  OBVIOUS
<1>1. Init /\ days = DefaultWindow /\ layer \in EagerLayers
  BY DEF PageInit
<1>2. layer \in Layers /\ days \in Windows
  BY <1>1, MapAssumption
<1>3. chosen[layer] = days
  BY <1>1, <1>2 DEF Init
<1>4. ASSUME NEW l \in timer PROVE l = layer /\ loading[l] /\ open[l] = {}
  <2>1. l \in EagerLayers /\ l \in Layers
    BY <1>1, MapAssumption DEF Init
  <2>2. l = layer
    BY <1>1, <2>1, PageAssumption
  <2>3. loading[l] = (l \in timer)
    BY <1>1, <2>1 DEF Init
  <2>4. open[l] = {}
    BY <1>1, <2>1 DEF Init
  <2> QED
    BY <2>2, <2>3, <2>4
<1> QED
  BY <1>1, <1>2, <1>3, <1>4 DEF PageInv

\* An enabled control finds no timer pending, so every call is one of MapData.
LEMMA PageStepIsHookStep ==
    ASSUME HookInv, PageInv, PageNext
    PROVE  [Next]_hookVars
<1>1. Enabled => timer = {}
  BY DEF Enabled, Busy, PageInv
<1>2. ASSUME NEW d \in Windows, ChangeDays(d) PROVE Next
  BY <1>1, <1>2 DEF ChangeDays, Enabled, PageInv, Call, Next
<1>3. ASSUME NEW l \in Layers, ChangeLayer(l) PROVE Next
  BY <1>1, <1>3 DEF ChangeLayer, Enabled, PageInv, Call, Next
<1>4. CASE Refresh
  <2>1. Layers \in (SUBSET Layers) \ {{}}
    BY DEF PageInv
  <2>2. \A l \in Layers \cap timer : issued[l] + 1 < MaxRequests
    BY <1>1, <1>4 DEF Refresh
  <2> QED
    BY <1>4, <2>1, <2>2 DEF Refresh, Enabled, PageInv, Call, Next
<1>5. CASE RefreshEnds
  BY <1>5 DEF RefreshEnds
<1>6. CASE Background
  BY <1>6 DEF Next
<1>7. CASE Select
  BY <1>7 DEF Select
<1> QED
  BY <1>2, <1>3, <1>4, <1>5, <1>6, <1>7 DEF PageNext

LEMMA PageInvKept ==
    ASSUME HookInv, PageInv, PageNext
    PROVE  PageInv'
<1> USE DEF HookInv, TypeOK
<1>1. Enabled => timer = {}
  BY DEF Enabled, Busy, PageInv
<1>2. ASSUME NEW l \in Layers, NEW d \in Windows, Load(l, d)
      PROVE  chosen'[l] = d /\ \A k \in Layers : k # l => chosen'[k] = chosen[k]
  BY <1>2 DEF Load, ServeCached, Request
<1>3. ASSUME NEW d \in Windows, ChangeDays(d) PROVE PageInv'
  BY <1>1, <1>2, <1>3 DEF ChangeDays, PageInv
<1>4. ASSUME NEW l \in Layers, ChangeLayer(l) PROVE PageInv'
  BY <1>1, <1>2, <1>4 DEF ChangeLayer, PageInv
<1>5. CASE Refresh
  BY <1>1, <1>5 DEF Refresh, Request, PageInv
<1>6. CASE RefreshEnds
  <2>1. UNCHANGED <<chosen, timer, loading, open, days, layer>>
    BY <1>6 DEF RefreshEnds, hookVars, view
  <2> QED
    BY <2>1 DEF PageInv
<1>7. CASE Background /\ UNCHANGED <<days, layer, refreshing, selected>>
  <2>1. ASSUME NEW l \in Layers, TimerFires(l) PROVE PageInv'
    <3>1. l = layer /\ days = DefaultWindow /\ timer' = {}
      BY <2>1 DEF TimerFires, PageInv
    <3>2. chosen'[l] = DefaultWindow
      BY <1>2, <2>1, MapAssumption DEF TimerFires
    <3> QED
      BY <1>7, <3>1, <3>2 DEF PageInv
  <2>2. ASSUME NEW l \in Layers, Settle(l) PROVE PageInv'
    <3>1. UNCHANGED <<timer, chosen>> /\ l \notin timer
      BY <2>2 DEF Settle, Succeed, Fail, Discard, PageInv
    <3>2. ASSUME NEW k \in Layers, k # l
          PROVE  loading'[k] = loading[k] /\ open'[k] = open[k]
      BY <2>2, <3>2 DEF Settle, Succeed, Fail, Discard, Finally
    <3> QED
      BY <1>7, <3>1, <3>2 DEF PageInv
  <2>3. ASSUME NEW l \in Layers, NEW d \in Windows, Expire(l, d) PROVE PageInv'
    BY <1>7, <2>3 DEF Expire, PageInv, view
  <2>4. CASE Unmount
    BY <1>7, <2>4 DEF Unmount, PageInv, view
  <2> QED
    BY <1>7, <2>1, <2>2, <2>3, <2>4 DEF Background
<1>8. CASE Select
  <2>1. UNCHANGED <<chosen, timer, loading, open, days, layer>>
    BY <1>8 DEF Select, hookVars, view
  <2> QED
    BY <2>1 DEF PageInv
<1> QED
  BY <1>3, <1>4, <1>5, <1>6, <1>7, <1>8 DEF PageNext

LEMMA PageKeeps ==
    HookInv /\ PageInv /\ [PageNext]_pageVars => [Next]_hookVars /\ PageInv'
<1> SUFFICES ASSUME HookInv, PageInv, [PageNext]_pageVars
             PROVE  [Next]_hookVars /\ PageInv'
  OBVIOUS
<1>1. CASE PageNext
  BY <1>1, PageStepIsHookStep, PageInvKept
<1>2. CASE UNCHANGED pageVars
  <2>1. UNCHANGED hookVars
    BY <1>2 DEF pageVars
  <2>2. UNCHANGED <<chosen, timer, loading, open, days, layer>>
    BY <1>2 DEF pageVars, hookVars, view
  <2> QED
    BY <2>1, <2>2 DEF PageInv
<1> QED
  BY <1>1, <1>2

LEMMA PageInvHolds == PageSpec => [](HookInv /\ PageInv)
BY PageInitHolds, InitHolds, PageKeeps, NextKeeps, PTL DEF PageSpec

\* The page calls the hooks only as MapData allows, so every property of
\* MapData holds on the page.
THEOREM PageUsesHooks == PageSpec => Spec
BY PageInitHolds, PageInvHolds, PageKeeps, PTL DEF PageSpec, Spec

\* The visible layer displays the window the control shows, through layer
\* switches, failed loads and refreshes.
THEOREM PageAlwaysShowsWindow == PageSpec => []VisibleIsForWindow
<1>1. HookInv /\ PageInv => VisibleIsForWindow
  <2> SUFFICES ASSUME HookInv, PageInv PROVE VisibleIsForWindow
    OBVIOUS
  <2>1. HookOK(layer) /\ chosen[layer] = days /\ days # None
    BY MapAssumption DEF HookInv, PageInv, None
  <2>2. Enabled => mounted /\ ~loading[layer]
    BY DEF Enabled, Busy
  <2> QED
    BY <2>1, <2>2, NothingFields DEF HookOK, VisibleIsForWindow
<1> QED
  BY <1>1, PageInvHolds, PTL

\* What the page keeps of the selection
SelectionInv ==
    selected # NoSelection =>
        selected = <<layer, days>> /\ shown[layer] # Nothing

LEMMA SelectionKeeps ==
    ASSUME HookInv, PageInv, HookInv', PageInv', SelectionInv,
           [PageNext]_pageVars, [Next]_hookVars
    PROVE  SelectionInv'
<1>1. layer \in Layers /\ chosen[layer] = days /\ chosen'[layer'] = days'
  BY DEF PageInv
<1>2. shown[layer] # Nothing => shown[layer].days = days
  BY <1>1 DEF HookInv, HookOK
<1>3. ASSUME UNCHANGED <<layer, days, selected>> PROVE SelectionInv'
  <2>1. shown[layer] # Nothing => shown'[layer] # Nothing
    BY <1>1, <1>2, <1>3, StepKeepsData
  <2> QED
    BY <1>3, <2>1 DEF SelectionInv
<1>4. ASSUME NEW d \in Windows, ChangeDays(d) PROVE SelectionInv'
  BY <1>4 DEF ChangeDays, SelectionInv
<1>5. ASSUME NEW l \in Layers, ChangeLayer(l) PROVE SelectionInv'
  BY <1>5 DEF ChangeLayer, SelectionInv
<1>6. CASE Refresh \/ RefreshEnds \/ UNCHANGED pageVars
  BY <1>3, <1>6 DEF Refresh, RefreshEnds, pageVars
<1>7. CASE Background /\ UNCHANGED <<days, layer, refreshing, selected>>
  BY <1>3, <1>7
<1>8. CASE Select
  <2>1. /\ selected' = <<layer, days>>
        /\ shown[layer] # Nothing
        /\ UNCHANGED <<layer, days>>
    BY <1>2, <1>8 DEF Select
  <2>2. UNCHANGED shown
    BY <1>8 DEF Select, hookVars, view
  <2> QED
    BY <2>1, <2>2 DEF SelectionInv
<1> QED
  BY <1>4, <1>5, <1>6, <1>7, <1>8 DEF PageNext

\* A selected result is of the layer and the window that are displayed, for
\* any layers and windows and any number of requests.
THEOREM SelectionAlwaysShown == PageSpec => []SelectionIsShown
<1>1. PageInit => SelectionInv
  BY DEF PageInit, SelectionInv
<1>2. HookInv /\ PageInv /\ SelectionInv => SelectionIsShown
  <2> SUFFICES ASSUME HookInv, PageInv, SelectionInv, selected # NoSelection
               PROVE  /\ selected[1] = layer
                      /\ shown[layer] # Nothing
                      /\ shown[layer].days = selected[2]
    BY DEF SelectionIsShown
  <2>1. selected = <<layer, days>> /\ shown[layer] # Nothing
    BY DEF SelectionInv
  <2>2. shown[layer].days = days
    BY <2>1 DEF HookInv, HookOK, PageInv
  <2> QED
    BY <2>1, <2>2
<1>3. /\ HookInv /\ PageInv /\ HookInv' /\ PageInv' /\ SelectionInv
      /\ [PageNext]_pageVars /\ [Next]_hookVars
      => SelectionInv'
  BY SelectionKeeps
<1> QED
  BY <1>1, <1>2, <1>3, PageInvHolds, PageKeeps, PTL DEF PageSpec

-----------------------------------------------------------------------------
\* A layer's requests: one at most, which is the one it waits for, and for the
\* hidden layer one that the refresh waits for as well.
QueueOK(l) ==
    /\ \A r, s \in open[l] : r = s
    /\ mounted =>
          /\ \A r \in open[l] : loading[l] /\ r.id = active[l]
          /\ loading[l] => open[l] # {} \/ l \in timer
          /\ l # layer => \A r \in open[l] : <<l, r.id>> \in refreshing

QueueInv == \A l \in Layers : QueueOK(l)

\* No request is open when a control is enabled.
LEMMA EnabledIsQuiet ==
    ASSUME QueueInv, PageInv, Enabled, NEW l \in Layers
    PROVE  open[l] = {} /\ ~loading[l] /\ l \notin timer
<1>1. mounted /\ refreshing = {} /\ ~loading[layer] /\ layer \in Layers
  BY DEF Enabled, Busy, PageInv
<1>2. timer = {}
  BY <1>1 DEF PageInv
<1>3. open[l] = {}
  BY <1>1 DEF QueueInv, QueueOK
<1> QED
  BY <1>1, <1>2, <1>3 DEF QueueInv, QueueOK

\* A call of a hook while nothing is open
LEMMA LoadKeepsQueue ==
    ASSUME TypeOK, NEW l \in Layers, NEW d \in Windows, Load(l, d),
           \A k \in Layers : open[k] = {} /\ (k # l => ~loading[k]),
           layer' = l
    PROVE  QueueInv'
<1>1. ASSUME NEW k \in Layers, k # l PROVE open'[k] = {} /\ ~loading'[k]
  <2>1. CASE ServeCached(l, d)
    BY <1>1, <2>1 DEF ServeCached, TypeOK
  <2>2. CASE Request({l}, d)
    BY <1>1, <2>2 DEF Request
  <2> QED
    BY <2>1, <2>2 DEF Load
<1>2. CASE ServeCached(l, d)
  BY <1>1, <1>2 DEF ServeCached, QueueInv, QueueOK, TypeOK
<1>3. CASE Request({l}, d)
  <2>1. /\ open'[l] = {[id |-> issued[l] + 1, days |-> d]}
        /\ active'[l] = issued[l] + 1
        /\ loading'[l]
    BY <1>3 DEF Request, TypeOK
  <2>2. QueueOK(l)'
    BY <2>1 DEF QueueOK
  <2>3. ASSUME NEW k \in Layers, k # l PROVE QueueOK(k)'
    BY <1>1, <2>3 DEF QueueOK
  <2> QED
    BY <2>2, <2>3 DEF QueueInv
<1> QED
  BY <1>2, <1>3 DEF Load

LEMMA SettleKeepsQueue ==
    ASSUME TypeOK, QueueInv, NEW l \in Layers, Settle(l),
           UNCHANGED <<layer, refreshing>>
    PROVE  QueueInv'
<1>1. PICK r \in open[l] : Succeed(l, r) \/ Fail(l, r) \/ Discard(l, r)
  BY DEF Settle
<1>2. /\ open' = [open EXCEPT ![l] = @ \ {r}]
      /\ active' = [active EXCEPT ![l] = IF @ = r.id THEN None ELSE @]
      /\ loading' = [loading EXCEPT ![l] = IF active[l] = r.id THEN FALSE ELSE @]
      /\ UNCHANGED <<timer, mounted>>
  BY <1>1 DEF Succeed, Fail, Discard, Finally
<1>3. ASSUME NEW k \in Layers, k # l PROVE QueueOK(k)'
  <2>1. /\ open'[k] = open[k] /\ active'[k] = active[k]
        /\ loading'[k] = loading[k]
    BY <1>2, <1>3 DEF TypeOK
  <2>2. QueueOK(k) /\ UNCHANGED <<timer, mounted, layer, refreshing>>
    BY <1>2 DEF QueueInv
  <2> QED
    BY <2>1, <2>2 DEF QueueOK
<1>4. QueueOK(l)'
  <2>1. open'[l] = {}
    BY <1>2 DEF QueueInv, QueueOK, TypeOK
  <2>2. mounted => ~loading'[l]
    BY <1>2 DEF QueueInv, QueueOK, TypeOK
  <2> QED
    BY <1>2, <2>1, <2>2 DEF QueueOK
<1> QED
  BY <1>3, <1>4 DEF QueueInv

LEMMA QueueKeeps ==
    ASSUME HookInv, PageInv, QueueInv, [PageNext]_pageVars
    PROVE  QueueInv'
<1> USE DEF HookInv
<1>1. ASSUME UNCHANGED <<open, active, loading, timer, mounted, layer, refreshing>>
      PROVE  QueueInv'
  BY <1>1 DEF QueueInv, QueueOK
<1>2. ASSUME NEW d \in Windows, ChangeDays(d) PROVE QueueInv'
  <2>1. layer \in Layers /\ Enabled /\ Load(layer, d) /\ layer' = layer
    BY <1>2 DEF ChangeDays, PageInv
  <2> QED
    BY <2>1, EnabledIsQuiet, LoadKeepsQueue
<1>3. ASSUME NEW l \in Layers, ChangeLayer(l) PROVE QueueInv'
  <2>1. Enabled /\ Load(l, days) /\ layer' = l /\ days \in Windows
    BY <1>3 DEF ChangeLayer, PageInv
  <2> QED
    BY <2>1, EnabledIsQuiet, LoadKeepsQueue
<1>4. CASE Refresh
  <2>1. ASSUME NEW l \in Layers
        PROVE  /\ open'[l] = {[id |-> issued[l] + 1, days |-> days]}
               /\ active'[l] = issued[l] + 1
               /\ loading'[l]
               /\ <<l, issued[l] + 1>> \in refreshing'
    BY <1>4, <2>1, EnabledIsQuiet DEF Refresh, Request
  <2>2. ASSUME NEW l \in Layers PROVE QueueOK(l)'
    <3> DEFINE r == [id |-> issued[l] + 1, days |-> days]
    <3>1. r.id = issued[l] + 1
      OBVIOUS
    <3> HIDE DEF r
    <3> QED
      BY <2>1, <2>2, <3>1 DEF QueueOK, r
  <2> QED
    BY <2>2 DEF QueueInv
<1>5. CASE RefreshEnds
  <2>1. UNCHANGED <<open, active, loading, timer, mounted, layer>>
    BY <1>5 DEF RefreshEnds, hookVars, view
  <2>2. ASSUME NEW l \in Layers, NEW r \in open[l], mounted, l # layer
        PROVE  FALSE
    <3> DEFINE p == <<l, r.id>>
    <3>1. p \in refreshing /\ p[1] = l /\ p[2] = r.id
      BY <2>2 DEF QueueInv, QueueOK
    <3>2. \A q \in refreshing : \A s \in open[q[1]] : s.id # q[2]
      BY <1>5 DEF RefreshEnds
    <3> HIDE DEF p
    <3> QED
      BY <3>1, <3>2
  <2> QED
    BY <2>1, <2>2 DEF QueueInv, QueueOK
<1>6. CASE Background /\ UNCHANGED <<days, layer, refreshing, selected>>
  <2>1. ASSUME NEW l \in Layers, TimerFires(l) PROVE QueueInv'
    <3>1. l = layer /\ open[l] = {} /\ timer' = {} /\ layer' = l
      BY <1>6, <2>1 DEF TimerFires, PageInv
    <3>2. Load(l, DefaultWindow) /\ DefaultWindow \in Windows
      BY <2>1, MapAssumption DEF TimerFires
    <3>3. ASSUME NEW k \in Layers, k # l
          PROVE  open'[k] = open[k] /\ loading'[k] = loading[k]
                 /\ active'[k] = active[k]
      BY <3>2, <3>3 DEF Load, ServeCached, Request, TypeOK
    <3>4. ASSUME NEW k \in Layers, k # l PROVE QueueOK(k)'
      <4>1. k \notin timer
        BY <3>1, <3>4 DEF PageInv
      <4>2. UNCHANGED <<mounted, layer, refreshing>>
        BY <1>6, <2>1 DEF TimerFires
      <4> QED
        BY <3>3, <3>4, <4>1, <4>2 DEF QueueInv, QueueOK
    <3>5. QueueOK(l)'
      <4>1. CASE ServeCached(l, DefaultWindow)
        BY <3>1, <4>1 DEF ServeCached, QueueOK, TypeOK
      <4>2. CASE Request({l}, DefaultWindow)
        <5>1. /\ open'[l] = {[id |-> issued[l] + 1, days |-> DefaultWindow]}
              /\ active'[l] = issued[l] + 1
              /\ loading'[l]
          BY <3>1, <4>2 DEF Request, TypeOK
        <5> QED
          BY <3>1, <5>1 DEF QueueOK
      <4> QED
        BY <3>2, <4>1, <4>2 DEF Load
    <3> QED
      BY <3>4, <3>5 DEF QueueInv
  <2>2. ASSUME NEW l \in Layers, Settle(l) PROVE QueueInv'
    BY <1>6, <2>2, SettleKeepsQueue
  <2>3. ASSUME NEW l \in Layers, NEW d \in Windows, Expire(l, d) PROVE QueueInv'
    BY <1>1, <1>6, <2>3 DEF Expire, view
  <2>4. CASE Unmount
    BY <1>6, <2>4 DEF Unmount, view, QueueInv, QueueOK
  <2> QED
    BY <1>6, <2>1, <2>2, <2>3, <2>4 DEF Background
<1>7. CASE Select \/ UNCHANGED pageVars
  BY <1>1, <1>7 DEF Select, pageVars, hookVars, view
<1> QED
  BY <1>2, <1>3, <1>4, <1>5, <1>6, <1>7 DEF PageNext

\* No call of the page supersedes another one, and only a refresh loads the
\* hidden layer.
THEOREM OneRequestAlways == PageSpec => []OneRequestPerLayer
<1>1. PageInit => QueueInv
  <2> SUFFICES ASSUME PageInit, NEW l \in Layers PROVE QueueOK(l)
    BY DEF QueueInv
  <2>1. open[l] = {} /\ loading[l] = (l \in timer)
    BY DEF PageInit, Init
  <2> QED
    BY <2>1 DEF QueueOK
<1>2. HookInv /\ PageInv /\ QueueInv => OneRequestPerLayer
  <2> SUFFICES ASSUME HookInv, PageInv, QueueInv PROVE OneRequestPerLayer
    OBVIOUS
  <2>1. ASSUME NEW l \in Layers PROVE Cardinality(open[l]) <= 1
    <3>1. CASE open[l] = {}
      BY <3>1, FS_EmptySet
    <3>2. CASE \E r : open[l] = {r}
      BY <3>2, FS_Singleton
    <3> QED
      BY <2>1, <3>1, <3>2 DEF QueueInv, QueueOK
  <2>2. ASSUME mounted, NEW l \in Layers, loading[l], l # layer
        PROVE  refreshing # {}
    <3>1. l \notin timer
      BY <2>2 DEF PageInv
    <3> QED
      BY <2>2, <3>1 DEF QueueInv, QueueOK
  <2> QED
    BY <2>1, <2>2 DEF OneRequestPerLayer
<1>3. HookInv /\ PageInv /\ QueueInv /\ [PageNext]_pageVars => QueueInv'
  BY QueueKeeps
<1> QED
  BY <1>1, <1>2, <1>3, PageInvHolds, PTL DEF PageSpec
=============================================================================
