------------------------------ MODULE MCMapPage ------------------------------
(* MapPage with the two layers of the program.  The page opens with at most *)
(* the entry it looks for in the browser cache; it fills the others itself, *)
(* and MCMapData has every content of the cache.                            *)
EXTENDS MapPage

CONSTANTS detections, clusters

MCPageInit ==
    /\ PageInit
    /\ \A l \in Layers, d \in Windows :
           stored[l][d] = Nothing \/ (l \in EagerLayers /\ d = DefaultWindow)

MCPageSpec == MCPageInit /\ [][PageNext]_pageVars /\ PageFairness
=============================================================================
