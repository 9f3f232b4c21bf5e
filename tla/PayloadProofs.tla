---------------------------- MODULE PayloadProofs ----------------------------
(***************************************************************************)
(* What one query to NASA may bring, for any payload, any limits and any   *)
(* order of the canonical rows: bounded memory, a frame that does not      *)
(* depend on which duplicates came first, and a report that balances.      *)
(***************************************************************************)
EXTENDS NasaPayload, FiniteSetTheorems, TLAPS

Empty == source = << >> /\ next = 1 /\ kept = {} /\ issues = NoIssues

\* Nothing is validated before the payload is parsed, and the frame comes
\* after its last row.
StageInv ==
    /\ stage \in {"idle", "headers", "body", "parsing"} => Empty
    /\ stage = "accepted" => next = Len(source) + 1 /\ (kept = {} => Len(source) = 0)

\* Every accepted row is represented in the frame.
Represented == \A d \in Seen : \E k \in kept : SameIdentity(k, d)

Dropped ==
    issues["invalid_coordinates"] + issues["invalid_timestamps"]
        + issues["invalid_satellites"]

\* Every row so far is in the frame, a duplicate or dropped.
Balanced ==
    /\ IsFiniteSet(kept)
    /\ next - 1 = Cardinality(kept) + issues["duplicates_removed"] + Dropped
    /\ issues["conflicting_duplicates"] <= issues["duplicates_removed"]

PayloadInv ==
    /\ PayloadTypeOK
    /\ MemoryBounded
    /\ StageInv
    /\ KeptAreLeast
    /\ Represented
    /\ Balanced

-----------------------------------------------------------------------------
(* Rows *)

CanonicalRows == {Canonical(row) : row \in SourceRows}

LEMMA SourceRow ==
  ASSUME PayloadTypeOK, next <= Len(source)
  PROVE  /\ source[next] \in SourceRows
         /\ Canonical(source[next]) \in CanonicalRows
         /\ next \in 1..Len(source)
  BY DEF PayloadTypeOK, CanonicalRows

\* The order tells canonical rows apart.
LEMMA OrderTellsApart ==
  ASSUME NEW c \in CanonicalRows, NEW d \in CanonicalRows
  PROVE  /\ ReprOrder[c] \in Nat
         /\ ReprOrder[c] = ReprOrder[d] => c = d
  BY ReprAssumption DEF CanonicalRows

LEMMA SeenAreCanonical ==
  ASSUME PayloadTypeOK PROVE Seen \subseteq CanonicalRows
<1> SUFFICES ASSUME NEW n \in 1..next - 1 PROVE Canonical(source[n]) \in CanonicalRows
  BY DEF Seen
<1>1. n \in 1..Len(source)
  BY DEF PayloadTypeOK
<1> QED
  BY <1>1 DEF PayloadTypeOK, CanonicalRows

LEMMA KeptAreSeen == ASSUME KeptAreLeast PROVE kept \subseteq Seen
  BY DEF KeptAreLeast

\* To be one detection is an equivalence, by whichever decimals.
LEMMA IdentityIsEquivalence ==
  /\ \A c : SameIdentity(c, c)
  /\ \A c, d : SameIdentity(c, d) => SameIdentity(d, c)
  /\ \A c, d, e : SameIdentity(c, d) /\ SameIdentity(d, e) => SameIdentity(c, e)
BY DEF SameIdentity, SamePlace

\* The frame holds one row of each identity.
LEMMA KeptApart ==
  ASSUME PayloadTypeOK, KeptAreLeast, NEW c \in kept, NEW d \in kept, SameIdentity(c, d)
  PROVE  c = d
<1>1. c \in Seen /\ d \in Seen /\ c \in CanonicalRows /\ d \in CanonicalRows
  BY KeptAreSeen, SeenAreCanonical
<1>2. ReprOrder[c] <= ReprOrder[d] /\ ReprOrder[d] <= ReprOrder[c]
  BY <1>1, IdentityIsEquivalence DEF KeptAreLeast
<1> QED
  BY <1>1, <1>2, OrderTellsApart

LEMMA Faults ==
  ASSUME NEW row
  PROVE  /\ Fault(row) \in {"none", "invalid_coordinates", "invalid_timestamps",
                            "invalid_satellites"}
         /\ Fault(row) = "none" => row.place \in Bounds /\ InWindow(row.time)
  BY DEF Fault

LEMMA CountType ==
  ASSUME PayloadTypeOK, NEW S
  PROVE  /\ Count(S) \in [Issues -> Nat]
         /\ \A issue \in Issues :
               Count(S)[issue] = issues[issue] + IF issue \in S THEN 1 ELSE 0
  BY DEF PayloadTypeOK, Count

\* The loop passes a row.
LEMMA SeenGrows ==
  ASSUME PayloadTypeOK, next <= Len(source), next' = next + 1, source' = source
  PROVE  Seen' = IF Fault(source[next]) = "none"
                 THEN Seen \cup {Canonical(source[next])} ELSE Seen
<1>1. next \in Nat /\ 1..next' - 1 = (1..next - 1) \cup {next}
  BY DEF PayloadTypeOK
<1>2. {n \in 1..next' - 1 : Fault(source'[n]) = "none"} =
        {n \in 1..next - 1 : Fault(source[n]) = "none"}
            \cup {n \in {next} : Fault(source[n]) = "none"}
  BY <1>1
<1>3. Seen' = {Canonical(source'[n]) : n \in {m \in 1..next' - 1 : Fault(source'[m]) = "none"}}
  BY DEF Seen
<1>4. Seen' = {Canonical(source[n]) :
                  n \in {m \in 1..next - 1 : Fault(source[m]) = "none"}
                        \cup {m \in {next} : Fault(source[m]) = "none"}}
  BY <1>2, <1>3
<1> QED
  BY <1>4 DEF Seen

-----------------------------------------------------------------------------
(* The download *)

Early == {"idle", "headers", "body", "parsing"}
Late == {"rows", "refused", "accepted"}

\* A step that leaves the rows alone
LEMMA RowsUntouched ==
  ASSUME PayloadInv, UNCHANGED <<source, next, kept, issues>>,
         stage' \in Early \cup Late, stage' \in Early => stage \in Early,
         stage' = "accepted" => next = Len(source) + 1 /\ (kept = {} => Len(source) = 0),
         open' \in BOOLEAN, length' \in Nat \cup {NoNumber},
         held' \in Nat, held' <= MaxBytes + ChunkSize,
         outcome' \in {"none", "frame", "transport", "status", "content_type",
                       "too_large", "empty", "malformed", "columns", "no_valid_rows"}
  PROVE  PayloadInv'
<1>1. PayloadTypeOK'
  BY DEF PayloadInv, PayloadTypeOK, Early, Late
<1>2. MemoryBounded' /\ StageInv'
  BY DEF PayloadInv, MemoryBounded, StageInv, Empty, Early
<1>3. Seen' = Seen
  BY DEF Seen
<1>4. KeptAreLeast' /\ Represented'
  BY <1>3 DEF PayloadInv, KeptAreLeast, Represented, SameIdentity
<1>5. Balanced'
  BY DEF PayloadInv, Balanced, Dropped
<1> QED
  BY <1>1, <1>2, <1>4, <1>5 DEF PayloadInv

LEMMA FailKeepsInv ==
  ASSUME PayloadInv,
         NEW why \in {"transport", "status", "content_type", "too_large", "empty",
                      "malformed", "columns", "no_valid_rows"},
         Fail(why)
  PROVE  PayloadInv'
<1>1. /\ stage' = "refused" /\ outcome' = why /\ open' = FALSE
      /\ length' = NoNumber /\ held' = 0
      /\ UNCHANGED <<source, next, kept, issues>>
  BY DEF Fail
<1>2. 0 <= MaxBytes + ChunkSize
  BY PayloadAssumption
<1> QED
  BY <1>1, <1>2, RowsUntouched DEF Early, Late

\* The sequence the loop starts with is within the limit.
LEMMA ReadRowsBounded ==
  ASSUME NEW sent \in Payloads, Len(ReadRows(sent)) <= MaxRows
  PROVE  ReadRows(sent) \in Seq(SourceRows) /\ Len(ReadRows(sent)) <= MaxRows
<1>1. sent \in Seq(SourceRows) /\ MaxRows \in Nat
  BY PayloadAssumption
<1>2. CASE Len(sent) > MaxRows
  <2>1. ReadRows(sent) = SubSeq(sent, 1, MaxRows + 1)
    BY <1>2 DEF ReadRows
  <2>2. MaxRows + 1 \in 1..Len(sent)
    BY <1>1, <1>2
  <2> QED
    BY <1>1, <2>1, <2>2
<1>3. CASE ~(Len(sent) > MaxRows)
  <2>1. ReadRows(sent) = SubSeq(sent, 1, Len(sent))
    BY <1>3 DEF ReadRows
  <2> QED
    BY <1>1, <2>1
<1> QED
  BY <1>2, <1>3

LEMMA ParsedKeepsInv ==
  ASSUME PayloadInv, NEW sent \in Payloads, BodyParsed(sent)
  PROVE  PayloadInv'
<1>1. /\ stage = "parsing" /\ stage' = "rows" /\ open' = FALSE /\ held' = 0
      /\ source' = ReadRows(sent) /\ Len(ReadRows(sent)) <= MaxRows
      /\ UNCHANGED <<length, next, kept, issues, outcome>>
  BY DEF BodyParsed
<1>2. Empty /\ next' = 1 /\ kept' = {} /\ issues' = NoIssues
  BY <1>1 DEF PayloadInv, StageInv, Empty
<1>3. source' \in Seq(SourceRows) /\ Len(source') <= MaxRows /\ Len(source') \in Nat
  BY <1>1, ReadRowsBounded
<1>4. PayloadTypeOK'
  <2>1. next' \in 1..Len(source') + 1
    BY <1>2, <1>3
  <2>2. /\ stage' = "rows" /\ open' = FALSE /\ held' = 0
        /\ UNCHANGED <<length, kept, issues, outcome>>
    BY <1>1
  <2> QED
    BY <1>3, <2>1, <2>2 DEF PayloadInv, PayloadTypeOK
<1>5. MemoryBounded' /\ StageInv'
  BY <1>1, <1>3, PayloadAssumption DEF MemoryBounded, StageInv
<1>6. Seen' = {}
  BY <1>2 DEF Seen
<1>7. KeptAreLeast' /\ Represented'
  BY <1>2, <1>6 DEF KeptAreLeast, Represented
<1>8. Balanced'
  <2>1. Dropped' = Dropped
    BY <1>1 DEF Dropped
  <2> QED
    BY <1>1, <1>2, <2>1 DEF PayloadInv, Empty, Balanced
<1> QED
  BY <1>4, <1>5, <1>7, <1>8 DEF PayloadInv

-----------------------------------------------------------------------------
(* One turn of the validation loop *)

\* What the turns have in common: the counters in S rise, and the frame
\* becomes K.
Turn(K, S) ==
    /\ stage = "rows" /\ next <= Len(source)
    /\ kept' = K /\ issues' = Count(S) /\ next' = next + 1
    /\ UNCHANGED <<stage, open, length, held, source, outcome>>

LEMMA TurnTypes ==
  ASSUME PayloadInv, NEW K \in SUBSET CanonicalRows, NEW S, Turn(K, S)
  PROVE  PayloadTypeOK' /\ MemoryBounded' /\ StageInv'
<1>1. next + 1 \in 1..Len(source) + 1
  BY DEF PayloadInv, PayloadTypeOK, Turn
<1>2. issues' \in [Issues -> Nat]
  BY CountType DEF PayloadInv, Turn
<1>3. PayloadTypeOK'
  BY <1>1, <1>2 DEF PayloadInv, PayloadTypeOK, Turn, CanonicalRows
<1>4. MemoryBounded' /\ StageInv'
  BY DEF PayloadInv, MemoryBounded, StageInv, Turn
<1> QED
  BY <1>3, <1>4

\* The counters of a turn
LEMMA TurnCounts ==
  ASSUME PayloadInv, NEW K, NEW S, Turn(K, S),
         NEW dropped \in {0, 1}, NEW duplicate \in {0, 1}, NEW conflict \in {0, 1},
         dropped = 1 <=> S \cap {"invalid_coordinates", "invalid_timestamps",
                                 "invalid_satellites"} # {},
         \A a, b \in S : {a, b} \subseteq {"invalid_coordinates", "invalid_timestamps",
                                           "invalid_satellites"} => a = b,
         duplicate = 1 <=> "duplicates_removed" \in S,
         conflict = 1 <=> "conflicting_duplicates" \in S
  PROVE  /\ Dropped' = Dropped + dropped
         /\ Dropped \in Nat
         /\ issues'["duplicates_removed"] = issues["duplicates_removed"] + duplicate
         /\ issues'["conflicting_duplicates"] = issues["conflicting_duplicates"] + conflict
         /\ issues["duplicates_removed"] \in Nat /\ issues["conflicting_duplicates"] \in Nat
<1>1. /\ \A issue \in Issues :
            issues'[issue] = issues[issue] + IF issue \in S THEN 1 ELSE 0
      /\ \A issue \in Issues : issues[issue] \in Nat
  BY CountType DEF Turn, PayloadInv, PayloadTypeOK
<1>2. {"invalid_coordinates", "invalid_timestamps", "invalid_satellites",
       "duplicates_removed", "conflicting_duplicates"} \subseteq Issues
  BY DEF Issues
<1>3. /\ issues'["duplicates_removed"] = issues["duplicates_removed"] + duplicate
      /\ issues'["conflicting_duplicates"] = issues["conflicting_duplicates"] + conflict
      /\ issues["duplicates_removed"] \in Nat /\ issues["conflicting_duplicates"] \in Nat
  BY <1>1, <1>2
<1>4. Dropped' = Dropped + dropped /\ Dropped \in Nat
  BY <1>1, <1>2 DEF Dropped
<1> QED
  BY <1>3, <1>4

LEMMA DropKeepsInv ==
  ASSUME PayloadInv, DropRow PROVE PayloadInv'
<1> DEFINE f == Fault(source[next])
<1>1. Turn(kept, {f}) /\ f # "none"
  BY DEF DropRow, Turn
<1>2. kept \in SUBSET CanonicalRows
  BY DEF PayloadInv, PayloadTypeOK, CanonicalRows
<1>3. f \in {"invalid_coordinates", "invalid_timestamps", "invalid_satellites"}
  BY <1>1, Faults
<1> HIDE DEF f
<1>4. PayloadTypeOK' /\ MemoryBounded' /\ StageInv'
  BY <1>1, <1>2, TurnTypes
<1>5. Seen' = Seen
  BY <1>1, SeenGrows DEF Turn, PayloadInv, f
<1>6. KeptAreLeast' /\ Represented'
  BY <1>1, <1>5 DEF Turn, PayloadInv, KeptAreLeast, Represented, SameIdentity
<1>7. Balanced'
  <2>1. /\ Dropped' = Dropped + 1 /\ Dropped \in Nat
        /\ issues'["duplicates_removed"] = issues["duplicates_removed"] + 0
        /\ issues'["conflicting_duplicates"] = issues["conflicting_duplicates"] + 0
        /\ issues["duplicates_removed"] \in Nat /\ issues["conflicting_duplicates"] \in Nat
    BY <1>1, <1>3, TurnCounts
  <2>2. kept' = kept /\ next' = next + 1 /\ next \in Nat
    BY <1>1 DEF Turn, PayloadInv, PayloadTypeOK
  <2>3. Cardinality(kept) \in Nat
    BY FS_CardinalityType DEF PayloadInv, Balanced
  <2> QED
    BY <2>1, <2>2, <2>3 DEF PayloadInv, Balanced
<1> QED
  BY <1>4, <1>6, <1>7 DEF PayloadInv

\* What is noted of a row is no duplicate and no reason to drop it.
LEMMA NotedAreOthers ==
  ASSUME NEW row
  PROVE  Noted(row) \subseteq {"unknown_confidence", "high_frp", "invalid_frp"}
  BY DEF Noted

LEMMA KeepKeepsInv ==
  ASSUME PayloadInv, KeepRow PROVE PayloadInv'
<1> DEFINE c == Canonical(source[next])
           S == Noted(source[next])
<1>1. /\ Turn(kept \cup {c}, S) /\ Fault(source[next]) = "none"
      /\ \A k \in kept : ~SameIdentity(k, c)
  BY DEF KeepRow, Turn
<1>2. c \in CanonicalRows /\ kept \cup {c} \in SUBSET CanonicalRows
  BY <1>1, SourceRow DEF Turn, PayloadInv, PayloadTypeOK, CanonicalRows
<1>3. S \subseteq {"unknown_confidence", "high_frp", "invalid_frp"}
  BY NotedAreOthers
<1>4. Seen' = Seen \cup {c}
  BY <1>1, SeenGrows DEF Turn, PayloadInv
<1> HIDE DEF c, S
<1>5. PayloadTypeOK' /\ MemoryBounded' /\ StageInv'
  BY <1>1, <1>2, TurnTypes
<1>6. kept' = kept \cup {c} /\ c \notin kept
  BY <1>1, IdentityIsEquivalence DEF Turn
<1>7. \A d \in Seen : ~SameIdentity(d, c) /\ ~SameIdentity(c, d)
  BY <1>1, IdentityIsEquivalence DEF PayloadInv, Represented
<1>8. ReprOrder[c] <= ReprOrder[c] /\ SameIdentity(c, c)
  BY <1>2, OrderTellsApart, IdentityIsEquivalence
<1>9. KeptAreLeast'
  BY <1>4, <1>6, <1>7, <1>8 DEF PayloadInv, KeptAreLeast
<1>10. Represented'
  BY <1>4, <1>6, <1>8 DEF PayloadInv, Represented
<1>11. Balanced'
  <2>1. /\ Dropped' = Dropped + 0 /\ Dropped \in Nat
        /\ issues'["duplicates_removed"] = issues["duplicates_removed"] + 0
        /\ issues'["conflicting_duplicates"] = issues["conflicting_duplicates"] + 0
        /\ issues["duplicates_removed"] \in Nat /\ issues["conflicting_duplicates"] \in Nat
    BY <1>1, <1>3, TurnCounts
  <2>2. next' = next + 1 /\ next \in Nat
    BY <1>1 DEF Turn, PayloadInv, PayloadTypeOK
  <2>3. /\ IsFiniteSet(kept') /\ Cardinality(kept) \in Nat
        /\ Cardinality(kept') = Cardinality(kept) + 1
    BY <1>6, FS_AddElement, FS_CardinalityType DEF PayloadInv, Balanced
  <2> QED
    BY <2>1, <2>2, <2>3 DEF PayloadInv, Balanced
<1> QED
  BY <1>5, <1>9, <1>10, <1>11 DEF PayloadInv

\* Of two rows of one identity the lesser stays.
LEMMA LesserIsLeast ==
  ASSUME NEW p \in CanonicalRows, NEW c \in CanonicalRows
  PROVE  /\ Lesser(p, c) \in {p, c}
         /\ ReprOrder[Lesser(p, c)] <= ReprOrder[p]
         /\ ReprOrder[Lesser(p, c)] <= ReprOrder[c]
  BY OrderTellsApart DEF Lesser

LEMMA MergeKeepsInv ==
  ASSUME PayloadInv, MergeRow PROVE PayloadInv'
<1> DEFINE c == Canonical(source[next])
<1>1. PICK p \in kept :
        /\ SameIdentity(p, c)
        /\ Turn((kept \ {p}) \cup {Lesser(p, c)},
                Noted(source[next]) \cup {"duplicates_removed"}
                    \cup (IF p = c THEN {} ELSE {"conflicting_duplicates"}))
        /\ Fault(source[next]) = "none"
  BY DEF MergeRow, Turn
<1> DEFINE l == Lesser(p, c)
           K == (kept \ {p}) \cup {l}
           S == Noted(source[next]) \cup {"duplicates_removed"}
                    \cup (IF p = c THEN {} ELSE {"conflicting_duplicates"})
<1>2. c \in CanonicalRows
  BY <1>1, SourceRow DEF Turn, PayloadInv
<1>3. p \in CanonicalRows /\ p \in Seen /\ kept \subseteq CanonicalRows
  BY KeptAreSeen DEF PayloadInv, PayloadTypeOK, CanonicalRows
<1>4. /\ l \in {p, c} /\ l \in CanonicalRows
      /\ ReprOrder[l] <= ReprOrder[p] /\ ReprOrder[l] <= ReprOrder[c]
  BY <1>2, <1>3, LesserIsLeast
<1>5. Noted(source[next]) \subseteq {"unknown_confidence", "high_frp", "invalid_frp"}
  BY NotedAreOthers
<1>6. Seen' = Seen \cup {c}
  BY <1>1, SeenGrows DEF Turn, PayloadInv
<1>7. SameIdentity(p, c) /\ Turn(K, S)
  BY <1>1
<1> HIDE DEF c, l
<1>8. PayloadTypeOK' /\ MemoryBounded' /\ StageInv'
  BY <1>3, <1>4, <1>7, TurnTypes
<1>9. kept' = K
  BY <1>7 DEF Turn
<1>10. \A k \in kept : SameIdentity(k, c) => k = p
  <2> TAKE k \in kept
  <2> QED
    BY <1>7, KeptApart, IdentityIsEquivalence DEF PayloadInv
<1>11. Seen \subseteq CanonicalRows
  BY SeenAreCanonical DEF PayloadInv
<1>12. \A d \in Seen : SameIdentity(d, c) => ReprOrder[p] <= ReprOrder[d]
  <2> SUFFICES ASSUME NEW d \in Seen, SameIdentity(d, c) PROVE ReprOrder[p] <= ReprOrder[d]
    OBVIOUS
  <2> QED
    BY <1>7, IdentityIsEquivalence DEF PayloadInv, KeptAreLeast
<1>13. \A d \in Seen \cup {c} : SameIdentity(d, c) => ReprOrder[l] <= ReprOrder[d]
  BY <1>2, <1>3, <1>4, <1>11, <1>12, OrderTellsApart
<1>14. KeptAreLeast'
  <2> DEFINE Least(d) == \A e \in Seen \cup {c} : SameIdentity(d, e) => ReprOrder[d] <= ReprOrder[e]
  <2>1. ASSUME NEW d \in K PROVE d \in Seen \cup {c} /\ Least(d)
    <3>1. CASE d = l
      BY <1>3, <1>4, <1>7, <1>13, <3>1, IdentityIsEquivalence
    <3>2. CASE d \in kept \ {p}
      <4>1. ~SameIdentity(d, c) /\ d \in Seen
        BY <1>10, <3>2, KeptAreSeen DEF PayloadInv
      <4> QED
        BY <3>2, <4>1 DEF PayloadInv, KeptAreLeast
    <3> QED
      BY <2>1, <3>1, <3>2
  <2>2. ASSUME NEW d \in Seen \cup {c}, Least(d) PROVE d \in K
    <3>1. CASE SameIdentity(d, c)
      <4>1. SameIdentity(d, l) /\ l \in Seen \cup {c} /\ SameIdentity(l, d)
        BY <1>3, <1>4, <1>7, <3>1, IdentityIsEquivalence
      <4>2. ReprOrder[d] <= ReprOrder[l] /\ ReprOrder[l] <= ReprOrder[d]
        BY <1>13, <2>2, <3>1, <4>1
      <4>3. d \in CanonicalRows
        BY <1>2, <1>11
      <4> QED
        BY <1>4, <4>2, <4>3, OrderTellsApart
    <3>2. CASE ~SameIdentity(d, c)
      <4>1. d \in Seen /\ d # p
        BY <1>7, <3>2, IdentityIsEquivalence
      <4>2. d \in kept
        BY <2>2, <4>1 DEF PayloadInv, KeptAreLeast
      <4> QED
        BY <4>1, <4>2
    <3> QED
      BY <3>1, <3>2
  <2>3. K = {d \in Seen \cup {c} : Least(d)}
    BY <2>1, <2>2
  <2> QED
    BY <1>6, <1>9, <2>3 DEF KeptAreLeast
<1>15. Represented'
  <2> SUFFICES ASSUME NEW d \in Seen \cup {c} PROVE \E k \in K : SameIdentity(k, d)
    BY <1>6, <1>9 DEF Represented
  <2>1. CASE SameIdentity(d, c)
    BY <1>4, <1>7, <2>1, IdentityIsEquivalence
  <2>2. CASE ~SameIdentity(d, c)
    <3>1. PICK k \in kept : SameIdentity(k, d)
      BY <2>2, IdentityIsEquivalence DEF PayloadInv, Represented
    <3> QED
      BY <1>7, <2>2, <3>1, IdentityIsEquivalence
  <2> QED
    BY <2>1, <2>2
<1>16. Balanced'
  <2>1. PICK conflict \in {0, 1} : conflict = 1 <=> p # c
    OBVIOUS
  <2>2. /\ Dropped' = Dropped + 0 /\ Dropped \in Nat
        /\ issues'["duplicates_removed"] = issues["duplicates_removed"] + 1
        /\ issues'["conflicting_duplicates"] = issues["conflicting_duplicates"] + conflict
        /\ issues["duplicates_removed"] \in Nat /\ issues["conflicting_duplicates"] \in Nat
    <3>1. "conflicting_duplicates" \in S <=> p # c
      BY <1>5
    <3>2. "duplicates_removed" \in S
      OBVIOUS
    <3>3. S \cap {"invalid_coordinates", "invalid_timestamps", "invalid_satellites"} = {}
      BY <1>5
    <3> HIDE DEF S, K
    <3> QED
      BY <1>7, <2>1, <3>1, <3>2, <3>3, TurnCounts
  <2>3. next' = next + 1 /\ next \in Nat
    BY <1>7 DEF Turn, PayloadInv, PayloadTypeOK
  <2>4. /\ IsFiniteSet(kept \ {p}) /\ Cardinality(kept) \in Nat
        /\ Cardinality(kept \ {p}) = Cardinality(kept) - 1
    BY FS_RemoveElement, FS_CardinalityType DEF PayloadInv, Balanced
  <2>5. l \notin kept \ {p}
    BY <1>4, <1>10, IdentityIsEquivalence
  <2>6. IsFiniteSet(kept') /\ Cardinality(kept') = Cardinality(kept \ {p}) + 1
    <3> HIDE DEF S
    <3> QED
      BY <1>9, <2>4, <2>5, FS_AddElement
  <2>7. IsFiniteSet(kept') /\ Cardinality(kept') = Cardinality(kept)
    BY <2>4, <2>6
  <2>8. conflict \in {0, 1}
    OBVIOUS
  <2> HIDE DEF S, K
  <2> QED
    BY <2>2, <2>3, <2>4, <2>7, <2>8 DEF PayloadInv, Balanced
<1> QED
  BY <1>8, <1>14, <1>15, <1>16 DEF PayloadInv

-----------------------------------------------------------------------------
(* The specification *)

LEMMA PayloadInitially == PayloadInit => PayloadInv
<1> SUFFICES ASSUME PayloadInit PROVE PayloadInv
  OBVIOUS
<1>1. NoIssues \in [Issues -> Nat]
  BY DEF NoIssues
<1>2. PayloadTypeOK
  <2>1. source \in Seq(SourceRows) /\ next \in 1..Len(source) + 1
    BY DEF PayloadInit
  <2>2. kept \subseteq {Canonical(row) : row \in SourceRows}
    BY DEF PayloadInit
  <2> QED
    BY <1>1, <2>1, <2>2 DEF PayloadInit, PayloadTypeOK
<1>7. MemoryBounded /\ StageInv
  BY PayloadAssumption DEF PayloadInit, MemoryBounded, StageInv, Empty
<1>3. Seen = {}
  BY DEF PayloadInit, Seen
<1>4. KeptAreLeast /\ Represented
  BY <1>3 DEF PayloadInit, KeptAreLeast, Represented
<1>5. \A issue \in Issues : issues[issue] = 0
  BY DEF PayloadInit, NoIssues
<1>6. Balanced
  BY <1>5, FS_EmptySet DEF PayloadInit, Balanced, Dropped, Issues
<1> QED
  BY <1>2, <1>4, <1>6, <1>7 DEF PayloadInv

LEMMA DownloadKeepsInv ==
  ASSUME PayloadInv, Download PROVE PayloadInv'
<1> USE DEF PayloadInv, PayloadTypeOK, MemoryBounded
<1>1. ASSUME \E why \in {"transport", "status", "content_type", "too_large", "empty",
                         "malformed", "columns"} : Fail(why)
      PROVE  PayloadInv'
  BY <1>1, FailKeepsInv
<1>2. ASSUME NEW declared \in DeclaredLengths, HeadersArrive(declared) PROVE PayloadInv'
  <2>1. declared \in Nat \cup {NoNumber}
    BY PayloadAssumption
  <2>2. /\ stage = "idle" /\ stage' = "headers" /\ open' = TRUE /\ length' = declared
        /\ UNCHANGED <<held, source, next, kept, issues, outcome>>
    BY <1>2 DEF HeadersArrive
  <2> QED
    BY <2>1, <2>2, RowsUntouched DEF Early, Late
<1>3. ASSUME AcceptHeaders PROVE PayloadInv'
  <2>1. /\ stage = "headers" /\ stage' = "body"
        /\ UNCHANGED <<open, length, held, source, next, kept, issues, outcome>>
    BY <1>3 DEF AcceptHeaders
  <2> QED
    BY <2>1, RowsUntouched DEF Early, Late
<1>4. ASSUME NEW n \in 1..ChunkSize, ReceiveChunk(n) PROVE PayloadInv'
  <2>1. /\ stage = "body" /\ stage' = "body" /\ held <= MaxBytes /\ held' = held + n
        /\ UNCHANGED <<open, length, source, next, kept, issues, outcome>>
    BY <1>4 DEF ReceiveChunk
  <2>2. held + n \in Nat /\ held + n <= MaxBytes + ChunkSize
    BY <2>1, PayloadAssumption
  <2> QED
    BY <2>1, <2>2, RowsUntouched DEF Early, Late
<1>5. ASSUME BodyEnds PROVE PayloadInv'
  <2>1. /\ stage = "body" /\ stage' = "parsing" /\ length' = NoNumber
        /\ UNCHANGED <<open, held, source, next, kept, issues, outcome>>
    BY <1>5 DEF BodyEnds
  <2> QED
    BY <2>1, RowsUntouched DEF Early, Late
<1>6. ASSUME NEW sent \in Payloads, TooManyRows(sent) \/ BodyParsed(sent) PROVE PayloadInv'
  BY <1>1, <1>6, ParsedKeepsInv DEF TooManyRows
<1> QED
  BY <1>1, <1>2, <1>3, <1>4, <1>5, <1>6
     DEF Download, ConnectionFails, RefuseHeaders, RefuseLength, RefuseBody, BodyBreaks,
         BodyEmpty, BodyUnusable

LEMMA ValidateKeepsInv ==
  ASSUME PayloadInv, Validate PROVE PayloadInv'
<1>1. ASSUME NoValidRows PROVE PayloadInv'
  BY <1>1, FailKeepsInv DEF NoValidRows
<1>2. ASSUME FrameReady PROVE PayloadInv'
  <2>1. /\ stage' = "accepted" /\ outcome' = "frame" /\ next > Len(source)
        /\ Len(source) > 0 => kept # {}
        /\ UNCHANGED <<open, length, held, source, next, kept, issues>>
    BY <1>2 DEF FrameReady
  <2>2. next = Len(source) + 1 /\ (kept = {} => Len(source) = 0)
    BY <2>1 DEF PayloadInv, PayloadTypeOK
  <2> QED
    BY <2>1, <2>2, RowsUntouched DEF PayloadInv, PayloadTypeOK, MemoryBounded, Early, Late
<1> QED
  BY <1>1, <1>2, DropKeepsInv, KeepKeepsInv, MergeKeepsInv DEF Validate

\* The inductive invariant of a query
THEOREM PayloadInvariant == PayloadSpec => []PayloadInv
<1>1. ASSUME PayloadInv, UNCHANGED payloadVars PROVE PayloadInv'
  BY <1>1, RowsUntouched
     DEF payloadVars, PayloadInv, PayloadTypeOK, MemoryBounded, StageInv, Early, Late
<1>2. PayloadInv /\ [PayloadNext]_payloadVars => PayloadInv'
  BY <1>1, DownloadKeepsInv, ValidateKeepsInv DEF PayloadNext
<1> QED
  BY <1>2, PayloadInitially, PTL DEF PayloadSpec

\* Every variable of a query keeps its type.
THEOREM PayloadTypeCorrect == PayloadSpec => []PayloadTypeOK
<1>1. PayloadInv => PayloadTypeOK
  BY DEF PayloadInv
<1> QED
  BY <1>1, PayloadInvariant, PTL

\* Whatever NASA declares and sends, a query holds no more than the limit and a
\* chunk (nasa_client.py).
THEOREM MemoryStaysBounded == PayloadSpec => []MemoryBounded
<1>1. PayloadInv => MemoryBounded
  BY DEF PayloadInv
<1> QED
  BY <1>1, PayloadInvariant, PTL

\* Duplicates are resolved in the same way in whichever order they come
\* (fire_data_validation.py, lines 211 to 224).
THEOREM DuplicatesResolve == PayloadSpec => []KeptAreLeast
<1>1. PayloadInv => KeptAreLeast
  BY DEF PayloadInv
<1> QED
  BY <1>1, PayloadInvariant, PTL

\* The row counts of the quality report add up.
THEOREM ReportsBalance == PayloadSpec => []ReportBalances
<1>1. PayloadInv => ReportBalances
  <2> SUFFICES ASSUME PayloadInv, stage = "accepted"
               PROVE  /\ Report.dropped = Dropped
                      /\ issues["conflicting_duplicates"] <= issues["duplicates_removed"]
    BY DEF ReportBalances, Dropped
  <2>1. next = Len(source) + 1 /\ Len(source) \in Nat
    BY DEF PayloadInv, StageInv, PayloadTypeOK
  <2>2. Cardinality(kept) \in Nat
    BY FS_CardinalityType DEF PayloadInv, Balanced
  <2>3. issues["duplicates_removed"] \in Nat /\ Dropped \in Nat
    BY DEF PayloadInv, PayloadTypeOK, Issues, Dropped
  <2>4. Len(source) = Cardinality(kept) + issues["duplicates_removed"] + Dropped
    BY <2>1 DEF PayloadInv, Balanced
  <2>5. Report.dropped = Len(source) - Cardinality(kept) - issues["duplicates_removed"]
    BY DEF Report
  <2>6. issues["conflicting_duplicates"] <= issues["duplicates_removed"]
    BY DEF PayloadInv, Balanced
  <2> QED
    BY <2>1, <2>2, <2>3, <2>4, <2>5, <2>6
<1> QED
  BY <1>1, PayloadInvariant, PTL

\* A frame that is cached holds observations of the window, each once, and is
\* empty only if NASA sent nothing; its report accounts for every row.
THEOREM FramesAreClean == PayloadSpec => []FrameIsClean
<1>1. PayloadInv /\ ReportBalances => FrameIsClean
  <2> SUFFICES ASSUME PayloadInv, stage = "accepted"
               PROVE  /\ \A c \in kept : c.place \in Bounds /\ c.time \in EarliestTime..LatestTime
                      /\ \A c, d \in kept : SameIdentity(c, d) => c = d
                      /\ kept = {} => Len(source) = 0
    BY DEF FrameIsClean
  <2>1. ASSUME NEW c \in kept PROVE c.place \in Bounds /\ c.time \in EarliestTime..LatestTime
    <3>1. PICK n \in 1..next - 1 : Fault(source[n]) = "none" /\ c = Canonical(source[n])
      BY KeptAreSeen DEF PayloadInv, Seen
    <3>2. source[n] \in SourceRows
      BY DEF PayloadInv, PayloadTypeOK
    <3>3. c.place = source[n].place /\ c.time = source[n].time
      BY <3>1 DEF Canonical
    <3> QED
      BY <3>1, <3>2, <3>3, Faults, PayloadAssumption DEF InWindow
  <2>2. \A c, d \in kept : SameIdentity(c, d) => c = d
    BY KeptApart DEF PayloadInv
  <2> QED
    BY <2>1, <2>2 DEF PayloadInv, StageInv
<1> QED
  BY <1>1, PayloadInvariant, ReportsBalance, PTL
=============================================================================
