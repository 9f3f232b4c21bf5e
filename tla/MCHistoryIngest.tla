-------------------------- MODULE MCHistoryIngest --------------------------
(***************************************************************************)
(* HistoryIngest on a chain of detections: 1 was observed first and links  *)
(* 2 and 3, which are too far apart to be linked themselves, so a cluster  *)
(* forms, grows in any order and splits when 1 leaves the window; 2 and 3   *)
(* are an hour apart, or of the same satellite pass.                       *)
(***************************************************************************)
EXTENDS HistoryIngest, TLC

ChainObserved == [d \in Detections |-> d - 1]
TwinObserved == [d \in Detections |-> IF d = 1 THEN 0 ELSE 1]
ChainLinks == {<<1, 2>>, <<2, 1>>, <<1, 3>>, <<3, 1>>}

\* Any order of the incident IDs would do; this one is not that of the hours.
SmallestLast(C) == Cardinality(Detections) - Anchor(C)

Symmetry == Permutations(Runs)
=============================================================================
