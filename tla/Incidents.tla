------------------------------ MODULE Incidents ------------------------------
(***************************************************************************)
(* backend/incident_clustering.py: what is said of each component that     *)
(* Clustering found.  A place is a pair <<x, y>> of coordinates in a plane *)
(* and FRP is in whole megawatts, so that means and the cross products of  *)
(* the hull are exact; the rounding to five decimals of what is served is  *)
(* that of Rounding.  The buffer around a detection is a polygon of any    *)
(* number of corners, and may be wider at one place than at another, as    *)
(* the code's is by the latitude.                                          *)
(***************************************************************************)
EXTENDS Clustering, Rounding, FiniteSetsExt, SequencesExt

CONSTANT BufferOffsets  \* for each place, the corners of the buffer around it,
                        \* relative to it

\* Of the twelve steps around the detection four lie on the axes, and the radius
\* (config.CLUSTER_ENVELOPE_BUFFER_KM) is more than what five decimals tell apart.
ASSUME PlaneAssumption ==
    \A d \in Detections :
        LET corners == BufferOffsets[d.place]
        IN  /\ d.place \in Int \X Int
            /\ corners \in SUBSET (Int \X Int) /\ IsFiniteSet(corners)
            /\ \E east, north \in corners :
                  /\ east[1] > FiveDecimals /\ east[2] = 0
                  /\ north[1] = 0 /\ north[2] > FiveDecimals
                  /\ {<<-east[1], 0>>, <<0, -north[2]>>} \subseteq corners

\* The elements of S by a strict total order
InOrder(S, Precedes(_, _)) ==
    [n \in 1..Cardinality(S) |->
        CHOOSE x \in S : Cardinality({y \in S : Precedes(y, x)}) = n - 1]

\* A component is a set of row numbers; their order is chronological.
Times(g) == {rows[k].time : k \in g}
Measured(g) == {k \in g : rows[k].frp \in Nat}
TotalFrp(g) ==
    LET upTo[k \in 0..Size] ==
            IF k = 0 THEN 0
            ELSE upTo[k - 1] + (IF k \in Measured(g) THEN rows[k].frp ELSE 0)
    IN  upTo[Size]
MaximumFrp(g) == Max({rows[k].frp : k \in Measured(g)} \cup {0})

-----------------------------------------------------------------------------
(* _trend *)

EarlierHalf(g) ==
    {k \in g : Cardinality({b \in g : b < k}) < Cardinality(g) \div 2}

\* The halves are compared by their means over the measured detections, here
\* with a common denominator.  A half without any has the mean NaN, which
\* compares with nothing.
Trend_MissingAsZero(g) ==
    LET first == EarlierHalf(g)
        second == g \ first
        earlier == TotalFrp(first) * Cardinality(second)
        later == TotalFrp(second) * Cardinality(first)
    IN  IF Cardinality(g) < 3 \/ Cardinality(Times(g)) < 2 THEN "stable"
        ELSE IF 5 * later > 6 * earlier THEN "increasing"
        ELSE IF 5 * later < 4 * earlier THEN "decreasing"
        ELSE "stable"

Trend(g) ==
    LET first == Measured(EarlierHalf(g))
        second == Measured(g) \ first
        earlier == TotalFrp(first) * Cardinality(second)
        later == TotalFrp(second) * Cardinality(first)
    IN  IF Cardinality(g) < 3 \/ Cardinality(Times(g)) < 2
           \/ first = {} \/ second = {}
        THEN "stable"
        ELSE IF 5 * later > 6 * earlier THEN "increasing"
        ELSE IF 5 * later < 4 * earlier THEN "decreasing"
        ELSE "stable"

\* _severity, by its thresholds
Severity(total) == Cardinality({limit \in {10, 50, 150} : total >= limit})

\* _incident_id: the hash of the fingerprints of the members
Fingerprint_FewerDecimals(d) ==
    <<Fixed(d.place[1], 10 * FiveDecimals), Fixed(d.place[2], 10 * FiveDecimals),
      d.time, d.satellite>>

Fingerprint(d) ==
    <<Fixed(d.place[1], FiveDecimals), Fixed(d.place[2], FiveDecimals),
      d.time, d.satellite>>

IncidentId(g) == {Fingerprint(rows[k]) : k \in g}

-----------------------------------------------------------------------------
(* _convex_hull and _observation_envelope *)

Cross(o, a, b) ==
    (a[1] - o[1]) * (b[2] - o[2]) - (a[2] - o[2]) * (b[1] - o[1])

LeftFirst(a, b) == a[1] < b[1] \/ (a[1] = b[1] /\ a[2] < b[2])

\* The chain drops its end while it does not turn left towards p.
Extend(chain, p) ==
    LET turns == {n \in 2..Len(chain) : Cross(chain[n - 1], chain[n], p) > 0}
    IN  Append(SubSeq(chain, 1, Max(turns \cup {Min({1, Len(chain)})})), p)

Chain(s) ==
    LET upTo[n \in 0..Len(s)] ==
            IF n = 0 THEN << >> ELSE Extend(upTo[n - 1], s[n])
    IN  upTo[Len(s)]

ConvexHull(points) ==
    LET sorted == InOrder(points, LeftFirst)
        lower == Chain(sorted)
        upper == Chain(Reverse(sorted))
    IN  IF Len(sorted) <= 1 THEN sorted ELSE Front(lower) \o Front(upper)

\* The corners of the buffers
Buffers(g) ==
    UNION {{<<rows[k].place[1] + d[1], rows[k].place[2] + d[2]>> :
               d \in BufferOffsets[rows[k].place]} : k \in g}

\* A corner as it is served
GridPoint_FewerDecimals(p) ==
    [axis \in {1, 2} |->
        10 * FiveDecimals * Rounded(p[axis], 10 * FiveDecimals)]

GridPoint(p) ==
    [axis \in {1, 2} |-> FiveDecimals * Rounded(p[axis], FiveDecimals)]

Envelope(g) ==
    LET hull == ConvexHull(Buffers(g))
    IN  [k \in DOMAIN hull |-> GridPoint(hull[k])]

-----------------------------------------------------------------------------
(* _build_incident and cluster_fires *)

Incident(g) ==
    [id |-> IncidentId(g),
     detections |-> {rows[k] : k \in g},
     total |-> TotalFrp(g),
     maximum |-> MaximumFrp(g),
     trend |-> Trend(g),
     severity |-> Severity(TotalFrp(g)),
     boundary |-> Envelope(g)]

\* The sort is stable: equal totals stay in the order of their first rows.
Before(g, h) ==
    \/ TotalFrp(g) > TotalFrp(h)
    \/ TotalFrp(g) = TotalFrp(h) /\ Min(g) < Min(h)

Incidents ==
    LET order == InOrder(Components, Before)
    IN  [n \in DOMAIN order |-> Incident(order[n])]
=============================================================================
