---------------------------- MODULE FirePipeline ----------------------------
(***************************************************************************)
(* GET /incidents on an instance without data (backend/main.py): the query *)
(* to NASA, the validation of what it sent, the search for components and  *)
(* the incidents made of them, one after the other in the thread of the    *)
(* request.  What a request may find instead of this query, the cache, the *)
(* lock and the backoff, is the module NasaAccess.                         *)
(***************************************************************************)
EXTENDS NasaPayload, Incidents

\* What is validated is what is clustered.
ASSUME PipelineAssumption == \A row \in SourceRows : Canonical(row) \in Detections

VARIABLE answer   \* what the route returns: "data", with Incidents, or why not

pipelineVars == <<payloadVars, clusterVars, answer>>

NoAnswer == "none"

PipelineInit == PayloadInit /\ ClusterInit /\ answer = NoAnswer

Query == PayloadNext /\ UNCHANGED <<clusterVars, answer>>

\* fetch_fires raises: the request is refused.
Refuse ==
    /\ stage = "refused"
    /\ answer = NoAnswer
    /\ answer' = outcome
    /\ UNCHANGED <<payloadVars, clusterVars>>

\* cluster_fires(fetch_fires(days), days)
Group ==
    /\ stage = "accepted"
    /\ StartClustering(kept)
    /\ UNCHANGED <<payloadVars, answer>>

Cluster == ClusterStep /\ UNCHANGED <<payloadVars, answer>>

Respond ==
    /\ phase = "done"
    /\ answer = NoAnswer
    /\ answer' = "data"
    /\ UNCHANGED <<payloadVars, clusterVars>>

PipelineNext == Query \/ Refuse \/ Group \/ Cluster \/ Respond

\* The thread runs, and every read of the body ends by data, the end of the
\* body, an error or the read timeout (config.NASA_READ_TIMEOUT_SECONDS).
PipelineSpec ==
    PipelineInit /\ [][PipelineNext]_pipelineVars /\ WF_pipelineVars(PipelineNext)

-----------------------------------------------------------------------------
(* Properties *)

\* The two parts keep their types and the loops their bounds.
PipelineTypeOK == PayloadTypeOK /\ ClusterTypeOK

\* The incidents the client is shown
Shown == IF answer = "data" THEN Incidents ELSE << >>

\* README.md, "Intelligent Fire Clustering": identifiers are derived from the
\* observations.  That takes the identity of a detection in the validation, by
\* round(x, 5), to be no finer than its fingerprint in the ID, by the format
\* :.5f in another file: each detection then counts.
IdsIdentify ==
    \A n \in DOMAIN Shown :
        /\ Cardinality(Shown[n].id) = Cardinality(Shown[n].detections)
        /\ \A m \in DOMAIN Shown : Shown[m].id = Shown[n].id => m = n

\* A fire all of whose measurements are equal has no trend, however it divides
\* into halves and wherever measurements are missing.
SteadyIsStable ==
    \A n \in DOMAIN Shown :
        Cardinality({d.frp : d \in {x \in Shown[n].detections : x.frp \in Nat}}) = 1
            => Shown[n].trend = "stable"

\* A ring goes around p once: it passes p once on its way to the right, below p,
\* and once on its way back, above p.
GoesAround(ring, p) ==
    LET After(k) == (k % Len(ring)) + 1
        Left(k) == ring[k][1] <= p[1]
    IN  \E below, above \in DOMAIN ring :
            /\ {k \in DOMAIN ring : Left(k) /\ ~Left(After(k))} = {below}
            /\ {k \in DOMAIN ring : ~Left(k) /\ Left(After(k))} = {above}
            /\ Cross(ring[below], ring[After(below)], p) > 0
            /\ Cross(ring[above], ring[After(above)], p) > 0

\* Every boundary that is served, rounded to five decimals, is a ring of at least
\* three corners (schemas.py requires them) around each of its detections.
EnvelopesEnclose ==
    \A n \in DOMAIN Shown :
        /\ Len(Shown[n].boundary) >= 3
        /\ \A d \in Shown[n].detections : GoesAround(Shown[n].boundary, d.place)

\* Every request is answered, with the response of NASA closed: no exit leaves
\* it open, a server that sends for ever is cut off, and no find runs in circles.
RequestEnds == <>[](answer # NoAnswer /\ ~open)
=============================================================================
