--------------------------- MODULE MCFirePipeline ---------------------------
(***************************************************************************)
(* Small instance of FirePipeline.  NASA sends either up to three rows out *)
(* of a set with every fault and several duplicates of one detection, or   *)
(* up to four detections anywhere on a small map, at three times of which  *)
(* neighbours are within the limit.  Four steps of the grid are 0.00001    *)
(* degrees, so that places are rounded up, down and from the middle.       *)
(***************************************************************************)
EXTENDS FirePipeline

Row(place, time, satellite, confidence, frp) ==
    [place |-> place, time |-> time, satellite |-> satellite,
     confidence |-> confidence, frp |-> frp]

Map == {<<0, 0>>, <<21, 0>>, <<43, 1>>, <<0, 22>>, <<19, 21>>}
Outside == <<99, 99>>

\* Places that are <<0, 0>> to five decimals, from the middle to the next one and
\* with a minus sign, and the nearest that is not
Jittered == {<<2, 0>>, <<-1, 1>>}
NextDecimal == <<3, 0>>

Inside == Map \cup Jittered \cup {NextDecimal}

\* Distances are at most 23.
MCNear ==
    {pq \in Inside \X Inside :
        LET dx == pq[1][1] - pq[2][1] dy == pq[1][2] - pq[2][2]
        IN  dx * dx + dy * dy <= 23 * 23}

\* A satellite and a confidence as they should be, with a control character
\* that is removed, and made of nothing else.
MCCleanText ==
    [text \in {"N20", "N20*", "*", "h", "odd"} |->
        CASE text = "N20*" -> "N20" [] text = "*" -> NoText [] OTHER -> text]

\* Powers that depend on where and when: equal, missing, and on both sides of
\* the limits of the severities
Power(place, time) ==
    CASE place = <<0, 0>> /\ time = 2 -> NoNumber
      [] place[2] > 20 -> 30
      [] place[1] > 40 -> 160
      [] OTHER -> 4 * time

Valid ==
    {Row(place, time, "N20", "h", Power(place, time)) :
        place \in Map \ {<<19, 21>>}, time \in 0..2}
        \cup {Row(<<19, 21>>, 1, "N20", "h", 30)}

Duplicates ==
    {Row(<<2, 0>>, 1, "N20", "odd", 30), Row(<<-1, 1>>, 1, "N20*", "h", 900),
     Row(<<0, 0>>, 1, "N20", "h", 4), Row(NextDecimal, 1, "N20", "h", 4)}

Faulty ==
    {Row(Outside, 1, "N20", "h", 4), Row(<<0, 0>>, 3, "N20", "h", 4),
     Row(<<0, 0>>, -1, "N20", "h", 4), Row(<<0, 0>>, 1, "*", "h", 4),
     Row(<<21, 0>>, 1, "N20", "*", NoNumber)}

MCSourceRows == Valid \cup Duplicates \cup Faulty

MCDetections == {Canonical(row) : row \in MCSourceRows}

\* The canonical rows by confidence, power, place, time and flags
Order(c) ==
    LET word == CHOOSE n \in 1..3 : c.confidence = <<"h", "odd", "unknown">>[n]
        flag == IF "satellite" \in c.flags THEN 1 ELSE 0
    IN  ((((word * 1000 + c.frp + 1) * 100 + c.place[1] + 1) * 100 + c.place[2]) * 10
            + c.time + 1) * 2 + flag

Orders == [c \in MCDetections |-> Order(c)]

MCReprOrder == Orders

\* Detections in one order
Made(row) == row.time * 10000 + row.place[1] * 100 + row.place[2]

Listed(f) ==
    [n \in 1..Cardinality(f) |->
        CHOOSE x \in f :
            Cardinality({y \in f : Made(y) < Made(x)}) = n - 1]

EveryPayload ==
    (UNION {[1..n -> Duplicates \cup Faulty] : n \in 0..3})
        \cup {Listed(f) : f \in {g \in SUBSET Valid : Cardinality(g) \in 1..4}}
        \cup {Listed({row \in Valid : row.time = 1})}

\* TLC evaluates a definition once, but what stands for a constant each time.
MCPayloads == EveryPayload

MCDeclaredLengths == {NoNumber, 2, 9}

\* A diamond, which is wider in the upper row of the map
Buffer ==
    [place \in Inside \cup {Outside} |->
        LET width == IF place[2] < 20 THEN 5 ELSE 10
        IN  {<<width, 0>>, <<0, 5>>, <<-width, 0>>, <<0, -5>>}]
=============================================================================
