------------------------------ MODULE MCMapData ------------------------------
(* MapData with one hook, or with the two of the page. *)
EXTENDS MapData

CONSTANTS detections, clusters
=============================================================================
