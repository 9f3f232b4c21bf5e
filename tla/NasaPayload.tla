---------------------------- MODULE NasaPayload ----------------------------
(***************************************************************************)
(* backend/nasa_client.py and fire_data_validation.py: one query to NASA,  *)
(* from the connection to the frame of validated detections.  The server   *)
(* is not trusted: it may declare any length, send any number of bytes in  *)
(* any chunks, break off at any time, and send any rows.  One action is    *)
(* one chunk of the body or one row of the payload.                        *)
(***************************************************************************)
EXTENDS Rounding, FiniteSets, Sequences

CONSTANTS
    MaxBytes,         \* config.NASA_MAX_RESPONSE_BYTES
    ChunkSize,        \* chunk_size of iter_content
    MaxRows,          \* config.NASA_MAX_ROWS
    SourceRows,       \* the rows NASA may send
    Payloads,         \* the sequences of them that it may send as CSV
    DeclaredLengths,  \* what it may say in Content-Length
    Bounds,           \* the places inside config.IBERIAN_BOUNDS
    CleanText,        \* _clean_text, as a function of the texts NASA may send
    Aliases,          \* CONFIDENCE_ALIASES, by the cleaned texts they accept
    EarliestTime,     \* current - timedelta(days=days)
    LatestTime,       \* current + config.NASA_FUTURE_TOLERANCE_SECONDS
    HighFrp,          \* config.NASA_HIGH_FRP_THRESHOLD_MW
    ReprOrder         \* the order of repr(sorted(item.items())), as a number

NoText == "no text"      \* _clean_text raises
NoNumber == -1           \* an absent, unreadable or negative number

Texts == DOMAIN CleanText

ASSUME PayloadAssumption ==
    /\ MaxBytes \in Nat /\ ChunkSize \in Nat \ {0} /\ MaxRows \in Nat
    /\ Payloads \subseteq Seq(SourceRows)
    /\ \A row \in SourceRows :
          /\ row.place \in Int \X Int
          /\ row.time \in Int /\ row.frp \in Nat \cup {NoNumber}
          /\ row.satellite \in Texts /\ row.confidence \in Texts
    /\ DeclaredLengths \subseteq Nat \cup {NoNumber}
    /\ EarliestTime \in Int /\ LatestTime \in Int /\ HighFrp \in Nat

VARIABLES
    stage,   \* where the query is
    open,    \* the response holds its connection
    length,  \* Content-Length, NoNumber if absent or no number
    held,    \* bytes in `payload`
    source,  \* `fires`: the source rows that were parsed
    next,    \* the row the loop of normalize_fire_data is at
    kept,    \* normalized_by_identity
    issues,  \* issue_counts
    outcome  \* the frame, or why there is none

payloadVars == <<stage, open, length, held, source, next, kept, issues, outcome>>

-----------------------------------------------------------------------------
(* One source row *)

Issues == {"duplicates_removed", "conflicting_duplicates", "invalid_coordinates",
           "invalid_timestamps", "invalid_satellites", "invalid_frp", "high_frp",
           "unknown_confidence"}

NoIssues == [issue \in Issues |-> 0]

InWindow_Unbounded(t) == t >= EarliestTime
InWindow(t) == EarliestTime <= t /\ t <= LatestTime

\* The reason a row is dropped: the first check it fails
Fault(row) ==
    IF row.place \notin Bounds THEN "invalid_coordinates"
    ELSE IF ~InWindow(row.time) THEN "invalid_timestamps"
    ELSE IF CleanText[row.satellite] = NoText THEN "invalid_satellites"
    ELSE "none"

Confidence(row) ==
    IF CleanText[row.confidence] = NoText THEN "unknown" ELSE CleanText[row.confidence]

\* What is noted of a row that is not dropped
Noted(row) ==
    {issue \in {"unknown_confidence", "high_frp", "invalid_frp"} :
        \/ issue = "unknown_confidence" /\ Confidence(row) \notin Aliases
        \/ issue = "high_frp" /\ row.frp > HighFrp
        \/ issue = "invalid_frp" /\ row.frp = NoNumber}

Sanitized(row) ==
    {field \in {"satellite", "confidence"} :
        \/ field = "satellite" /\ CleanText[row.satellite] # row.satellite
        \/ field = "confidence" /\ CleanText[row.confidence] \notin {row.confidence, NoText}}

\* The dictionary `canonical`: its coordinates are those that were sent.
Canonical(row) ==
    [place |-> row.place, time |-> row.time,
     satellite |-> CleanText[row.satellite], confidence |-> Confidence(row),
     frp |-> row.frp, flags |-> Noted(row) \cup Sanitized(row)]

\* The tuple `identity`: places that are one to five decimals
SamePlace(p, q) ==
    \A axis \in {1, 2} : Rounded(p[axis], FiveDecimals) = Rounded(q[axis], FiveDecimals)

SameIdentity(c, d) ==
    /\ SamePlace(c.place, d.place)
    /\ c.time = d.time
    /\ c.satellite = d.satellite

ASSUME ReprAssumption ==
    \A row, other \in SourceRows :
        /\ ReprOrder[Canonical(row)] \in Nat
        /\ ReprOrder[Canonical(row)] = ReprOrder[Canonical(other)]
               => Canonical(row) = Canonical(other)

\* min(previous, canonical, key=...)
Lesser_First(previous, c) == previous
Lesser(previous, c) ==
    IF ReprOrder[c] < ReprOrder[previous] THEN c ELSE previous

\* Counter increments of the issues in S
Count(S) == [issue \in Issues |-> issues[issue] + IF issue \in S THEN 1 ELSE 0]

-----------------------------------------------------------------------------
PayloadInit ==
    /\ stage = "idle"
    /\ open = FALSE
    /\ length = NoNumber
    /\ held = 0
    /\ source = << >>
    /\ next = 1
    /\ kept = {}
    /\ issues = NoIssues
    /\ outcome = "none"

\* The query ends without a frame; `finally` closes the response, and what it
\* brought is gone.
Fail_LeavesOpen(why) ==
    /\ stage' = "refused"
    /\ outcome' = why
    /\ length' = NoNumber
    /\ held' = 0
    /\ UNCHANGED <<open, source, next, kept, issues>>

Fail(why) ==
    /\ stage' = "refused"
    /\ outcome' = why
    /\ open' = FALSE
    /\ length' = NoNumber
    /\ held' = 0
    /\ UNCHANGED <<source, next, kept, issues>>

\* requests.get raises: no connection, or no headers before the timeout.
ConnectionFails ==
    /\ stage = "idle"
    /\ Fail("transport")

HeadersArrive(declared) ==
    /\ stage = "idle"
    /\ stage' = "headers"
    /\ open' = TRUE
    /\ length' = declared
    /\ UNCHANGED <<held, source, next, kept, issues, outcome>>

\* An error status, or a content type that is present and not allowed
RefuseHeaders ==
    /\ stage = "headers"
    /\ \E why \in {"status", "content_type"} : Fail(why)

RefuseLength ==
    /\ stage = "headers"
    /\ length > MaxBytes
    /\ Fail("too_large")

\* A length that is absent or no number is ignored.
AcceptHeaders ==
    /\ stage = "headers"
    /\ ~(length > MaxBytes)
    /\ stage' = "body"
    /\ UNCHANGED <<open, length, held, source, next, kept, issues, outcome>>

\* A chunk; an empty one changes nothing.
ReceiveChunk_TrustsLength(n) ==
    /\ stage = "body"
    /\ length = NoNumber => held <= MaxBytes
    /\ held' = held + n
    /\ UNCHANGED <<stage, open, length, source, next, kept, issues, outcome>>

ReceiveChunk(n) ==
    /\ stage = "body"
    /\ held <= MaxBytes
    /\ held' = held + n
    /\ UNCHANGED <<stage, open, length, source, next, kept, issues, outcome>>

RefuseBody ==
    /\ stage = "body"
    /\ held > MaxBytes
    /\ Fail("too_large")

\* The connection breaks or a read times out.
BodyBreaks ==
    /\ stage = "body"
    /\ held <= MaxBytes
    /\ Fail("transport")

\* The body is complete, or there is none.
BodyEnds ==
    /\ stage = "body"
    /\ held \in 1..MaxBytes
    /\ stage' = "parsing"
    /\ length' = NoNumber
    /\ UNCHANGED <<open, held, source, next, kept, issues, outcome>>

BodyEmpty ==
    /\ stage = "body"
    /\ held = 0
    /\ Fail("empty")

\* No CSV, or not the columns that are needed
BodyUnusable ==
    /\ stage = "parsing"
    /\ \E why \in {"malformed", "columns"} : Fail(why)

\* read_csv reads one row more than the limit, which tells a full payload from
\* one that is too long.
ReadRows(sent) ==
    SubSeq(sent, 1, IF Len(sent) > MaxRows THEN MaxRows + 1 ELSE Len(sent))

TooManyRows(sent) ==
    /\ stage = "parsing"
    /\ Len(ReadRows(sent)) > MaxRows
    /\ Fail("too_large")

BodyParsed(sent) ==
    /\ stage = "parsing"
    /\ Len(ReadRows(sent)) <= MaxRows
    /\ source' = ReadRows(sent)
    /\ stage' = "rows"
    /\ open' = FALSE
    /\ held' = 0
    /\ UNCHANGED <<length, next, kept, issues, outcome>>

-----------------------------------------------------------------------------
(* normalize_fire_data *)

DropRow ==
    /\ stage = "rows" /\ next <= Len(source)
    /\ Fault(source[next]) # "none"
    /\ issues' = Count({Fault(source[next])})
    /\ next' = next + 1
    /\ UNCHANGED <<stage, open, length, held, source, kept, outcome>>

\* The first row of an identity
KeepRow_AsSent ==
    LET c == Canonical(source[next]) IN
    /\ stage = "rows" /\ next <= Len(source)
    /\ Fault(source[next]) = "none"
    /\ \A k \in kept : ~SameIdentity(k, c)
    /\ kept' = kept \cup {source[next]}
    /\ issues' = Count(Noted(source[next]))
    /\ next' = next + 1
    /\ UNCHANGED <<stage, open, length, held, source, outcome>>

KeepRow ==
    LET c == Canonical(source[next]) IN
    /\ stage = "rows" /\ next <= Len(source)
    /\ Fault(source[next]) = "none"
    /\ \A k \in kept : ~SameIdentity(k, c)
    /\ kept' = kept \cup {c}
    /\ issues' = Count(Noted(source[next]))
    /\ next' = next + 1
    /\ UNCHANGED <<stage, open, length, held, source, outcome>>

\* A later one: the lesser of the two canonical rows stays.
MergeRow ==
    LET c == Canonical(source[next]) IN
    /\ stage = "rows" /\ next <= Len(source)
    /\ Fault(source[next]) = "none"
    /\ \E previous \in kept :
        /\ SameIdentity(previous, c)
        /\ kept' = (kept \ {previous}) \cup {Lesser(previous, c)}
        /\ issues' = Count(Noted(source[next]) \cup {"duplicates_removed"}
                           \cup (IF previous = c THEN {}
                                 ELSE {"conflicting_duplicates"}))
    /\ next' = next + 1
    /\ UNCHANGED <<stage, open, length, held, source, outcome>>

\* Rows came, and none is usable: an empty frame would look like no fires.
NoValidRows ==
    /\ stage = "rows" /\ next > Len(source)
    /\ Len(source) > 0 /\ kept = {}
    /\ Fail("no_valid_rows")

FrameReady ==
    /\ stage = "rows" /\ next > Len(source)
    /\ Len(source) > 0 => kept # {}
    /\ stage' = "accepted"
    /\ outcome' = "frame"
    /\ UNCHANGED <<open, length, held, source, next, kept, issues>>

\* FireDataQualityReport
Report ==
    [received |-> Len(source),
     accepted |-> Cardinality(kept),
     duplicates |-> issues["duplicates_removed"],
     dropped |-> Len(source) - Cardinality(kept) - issues["duplicates_removed"]]

Download ==
    \/ ConnectionFails
    \/ \E declared \in DeclaredLengths : HeadersArrive(declared)
    \/ RefuseHeaders \/ RefuseLength \/ AcceptHeaders
    \/ \E n \in 1..ChunkSize : ReceiveChunk(n)
    \/ RefuseBody \/ BodyBreaks \/ BodyEmpty \/ BodyEnds \/ BodyUnusable
    \/ /\ stage = "parsing"
       /\ \E sent \in Payloads : TooManyRows(sent) \/ BodyParsed(sent)

Validate == DropRow \/ KeepRow \/ MergeRow \/ NoValidRows \/ FrameReady

PayloadNext == Download \/ Validate

PayloadSpec == PayloadInit /\ [][PayloadNext]_payloadVars

-----------------------------------------------------------------------------
(* Properties *)

\* Every variable keeps its type.
PayloadTypeOK ==
    /\ stage \in {"idle", "headers", "body", "parsing", "rows", "refused", "accepted"}
    /\ open \in BOOLEAN
    /\ length \in Nat \cup {NoNumber}
    /\ held \in Nat
    /\ source \in Seq(SourceRows)
    /\ next \in 1..Len(source) + 1
    /\ kept \subseteq {Canonical(row) : row \in SourceRows}
    /\ issues \in [Issues -> Nat]
    /\ outcome \in {"none", "frame", "transport", "status", "content_type",
                    "too_large", "empty", "malformed", "columns", "no_valid_rows"}

\* config.py lines 33-34: whatever length NASA declares and however it cuts the
\* body, one query never holds more than the limit and a chunk, and never
\* hands the quadratic clustering more rows than its limit.
MemoryBounded == held <= MaxBytes + ChunkSize /\ Len(source) <= MaxRows

\* The rows the loop has accepted so far, in canonical form
Seen ==
    {Canonical(source[k]) : k \in {n \in 1..next - 1 : Fault(source[n]) = "none"}}

\* Of the rows of one identity the least remains: which duplicates NASA sends,
\* how often and in which order makes no difference to the frame.
KeptAreLeast ==
    kept = {c \in Seen :
              \A d \in Seen : SameIdentity(c, d) => ReprOrder[c] <= ReprOrder[d]}

\* dropped_rows is computed as what is missing: it is what the three checks
\* that drop a row counted, so no row is lost or counted twice.
ReportBalances ==
    stage = "accepted" =>
        /\ Report.dropped = issues["invalid_coordinates"]
                            + issues["invalid_timestamps"]
                            + issues["invalid_satellites"]
        /\ issues["conflicting_duplicates"] <= issues["duplicates_removed"]

\* What is cached as a new snapshot: observations of the window, each once,
\* and none only if NASA sent none; and the report beside it accounts for every
\* row.
FrameIsClean ==
    /\ ReportBalances
    /\ stage = "accepted" =>
        /\ \A c \in kept : c.place \in Bounds /\ c.time \in EarliestTime..LatestTime
        /\ \A c, d \in kept : SameIdentity(c, d) => c = d
        /\ kept = {} => Len(source) = 0
=============================================================================
