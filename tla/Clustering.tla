----------------------------- MODULE Clustering -----------------------------
(***************************************************************************)
(* backend/incident_clustering.py, _build_components: the search for pairs *)
(* of detections that are near in space and time, over rows sorted by      *)
(* time with an early exit, and the union-find that joins them, with       *)
(* union by rank and path halving.  One action is one turn of a loop.      *)
(*                                                                         *)
(* Rows are numbered from 1.  Positions are places, and whether two are    *)
(* within config.CLUSTER_RADIUS_KM of one another is the relation Near.    *)
(***************************************************************************)
EXTENDS Integers, FiniteSets, Sequences

CONSTANTS
    Detections,  \* the rows a frame may hold: records with a place and a time
    Near,        \* pairs of places with haversine_km <= CLUSTER_RADIUS_KM
    TimeLimit    \* config.CLUSTER_TIME_WINDOW_HOURS

ASSUME ClusteringAssumption ==
    /\ \A d \in Detections : d.time \in Int
    /\ \A pair \in Near : <<pair[2], pair[1]>> \in Near
    /\ TimeLimit \in Nat

VARIABLES
    rows,    \* the frame _normalize_fires returns
    phase,   \* where _build_components is
    i, j,    \* first_index, second_index; i is `index` while grouping
    item,    \* `item` of the find that is running
    root,    \* first_root of the union that is running
    parent,  \* UnionFind._parent
    rank,    \* UnionFind._rank
    groups   \* the dictionary `components`, by root

forest == <<parent, rank>>
clusterVars == <<rows, phase, i, j, item, root, forest, groups>>

-----------------------------------------------------------------------------
Size == Len(rows)
Rows == 1..Size

Sorted(s) == \A a, b \in DOMAIN s : a < b => s[a].time <= s[b].time

\* The frames that _normalize_fires may make of the detections f: validated
\* rows lose nothing, and sort_values leaves equal times in any order.
Frames(f) ==
    {s \in [1..Cardinality(f) -> f] :
        /\ Sorted(s)
        /\ \A a, b \in DOMAIN s : s[a] = s[b] => a = b}

TooLate_AtLimit(a, b) == rows[b].time - rows[a].time >= TimeLimit
TooLate(a, b) == rows[b].time - rows[a].time > TimeLimit
Close(a, b) == <<rows[a].place, rows[b].place>> \in Near

ClusterInit ==
    /\ rows = << >>
    /\ phase = "idle"
    /\ i = 1 /\ j = 1 /\ item = 1 /\ root = 1
    /\ parent = << >> /\ rank = << >> /\ groups = << >>

\* cluster_fires is called with the detections f.
StartClustering(f) ==
    /\ phase = "idle"
    /\ rows' \in Frames(f)
    /\ phase' = "pairs"
    /\ i' = 1 /\ j' = 2 /\ item' = 1 /\ root' = 1
    /\ parent' = [k \in 1..Cardinality(f) |-> k]
    /\ rank' = [k \in 1..Cardinality(f) |-> 0]
    /\ groups' = [k \in 1..Cardinality(f) |-> {}]

\* The inner loop is over, or every later row is too late as well.
NextFirst ==
    /\ phase = "pairs"
    /\ i <= Size
    /\ j <= Size => TooLate(i, j)
    /\ i' = i + 1
    /\ j' = i + 2
    /\ UNCHANGED <<rows, phase, item, root, forest, groups>>

SkipPair ==
    /\ phase = "pairs"
    /\ j <= Size /\ ~TooLate(i, j) /\ ~Close(i, j)
    /\ j' = j + 1
    /\ UNCHANGED <<rows, phase, i, item, root, forest, groups>>

\* union_find.union(i, j) starts to look for the root of i ...
BeginUnion ==
    /\ phase = "pairs"
    /\ j <= Size /\ ~TooLate(i, j) /\ Close(i, j)
    /\ phase' = "first"
    /\ item' = i
    /\ UNCHANGED <<rows, i, j, root, forest, groups>>

\* One turn of the loop of find: the row skips its parent.
Halve ==
    /\ phase \in {"first", "second", "grouping"}
    /\ item <= Size /\ parent[item] # item
    /\ parent' = [parent EXCEPT ![item] = parent[parent[item]]]
    /\ item' = parent[parent[item]]
    /\ UNCHANGED <<rows, phase, i, j, root, rank, groups>>

\* ... finds it, and looks for the root of j ...
FirstRoot ==
    /\ phase = "first"
    /\ parent[item] = item
    /\ root' = item
    /\ phase' = "second"
    /\ item' = j
    /\ UNCHANGED <<rows, i, j, forest, groups>>

\* ... and hangs the root of the lower rank below the other.
Higher(a, b) == IF rank[a] < rank[b] THEN b ELSE a
Lower(a, b) == IF rank[a] < rank[b] THEN a ELSE b

Join ==
    /\ phase = "second"
    /\ parent[item] = item
    /\ IF root = item
       THEN UNCHANGED forest
       ELSE /\ parent' = [parent EXCEPT ![Lower(root, item)] = Higher(root, item)]
            /\ rank' = [rank EXCEPT ![Higher(root, item)] =
                          IF rank[root] = rank[item] THEN @ + 1 ELSE @]
    /\ phase' = "pairs"
    /\ j' = j + 1
    /\ UNCHANGED <<rows, i, item, root, groups>>

BeginGrouping ==
    /\ phase = "pairs"
    /\ i > Size
    /\ phase' = "grouping"
    /\ i' = 1
    /\ item' = 1
    /\ UNCHANGED <<rows, j, root, forest, groups>>

\* components[union_find.find(index)].append(index)
Gather ==
    /\ phase = "grouping"
    /\ i <= Size /\ parent[item] = item
    /\ groups' = [groups EXCEPT ![item] = @ \cup {i}]
    /\ i' = i + 1
    /\ item' = i + 1
    /\ UNCHANGED <<rows, phase, j, root, forest>>

EndClustering ==
    /\ phase = "grouping"
    /\ i > Size
    /\ phase' = "done"
    /\ UNCHANGED <<rows, i, j, item, root, forest, groups>>

ClusterStep ==
    \/ NextFirst \/ SkipPair \/ BeginUnion
    \/ Halve \/ FirstRoot \/ Join
    \/ BeginGrouping \/ Gather \/ EndClustering

\* What _build_components returns
Components == {groups[k] : k \in Rows} \ {{}}

ClusterNext ==
    \/ \E f \in SUBSET Detections : IsFiniteSet(f) /\ StartClustering(f)
    \/ ClusterStep

ClusterSpec == ClusterInit /\ [][ClusterNext]_clusterVars

-----------------------------------------------------------------------------
(* Properties *)

\* The loops keep to the rows they were given.
ClusterTypeOK ==
    /\ rows \in Seq(Detections)
    /\ phase \in {"idle", "pairs", "first", "second", "grouping", "done"}
    /\ i \in 1..Size + 1
    /\ j \in Nat \ {0}
    /\ item \in 1..Size + 1
    /\ root \in 1..Size + 1
    /\ phase \in {"first", "second"} => j \in Rows /\ i < j /\ item \in Rows
    /\ parent \in [Rows -> Rows]
    /\ rank \in [Rows -> Nat]
    /\ groups \in [Rows -> SUBSET Rows]

\* The relation the incidents are defined by (README.md, "Intelligent Fire
\* Clustering"), of any two rows in any order
Linked(a, b) ==
    /\ Close(a, b)
    /\ rows[b].time - rows[a].time <= TimeLimit
    /\ rows[a].time - rows[b].time <= TimeLimit

LinkClosed(S) == \A a \in S : \A b \in Rows : Linked(a, b) => b \in S

\* Every chain of links that starts at a stays in each closed set around it.
Connected(a, b) ==
    \A S \in SUBSET Rows : LinkClosed(S) /\ a \in S => b \in S

ComponentOf(a) == {b \in Rows : Connected(a, b)}

\* The early exit, the ranks and the halved paths change nothing of the
\* result: the incidents are the connected components of the link relation.
FoundAreComponents ==
    phase = "done" => Components = {ComponentOf(a) : a \in Rows}

\* A row hangs below one of a higher rank, so the forest has no cycle and a
\* find is no longer than the highest rank.
RanksClimb == \A k \in Rows : parent[k] # k => rank[k] < rank[parent[k]]
=============================================================================
