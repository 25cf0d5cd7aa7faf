----------------------------- MODULE Timelapse ------------------------------
(***************************************************************************)
(* The film of a run: the marks the capture harness notes while it records *)
(* (viewer/capture/harness.ts, handleMark), the plan of what is cut and    *)
(* what is played faster that timelapse.ts makes of them, and the          *)
(* replacement of the recording by its cut version, which may fail or be   *)
(* killed at every step.                                                   *)
(*                                                                         *)
(* Time is counted in units of the recording; the lengths below are the    *)
(* constants of timelapse.ts in those units.                               *)
(***************************************************************************)
EXTENDS Integers, Sequences, FiniteSets, Functions, SequencesExt

CONSTANTS
    Suite, Kept,     \* the suites, and those that keepSuite matches
    None,
    Duration,        \* length of the recording
    MinInterval,     \* MIN_INTERVAL_MS
    MinCut,          \* MIN_CUT_INTERVAL_MS
    MinKeep,         \* MIN_KEEP_SUITE_MS
    IdleCrumb,       \* idle pieces shorter than this are not encoded
    MaxFastIntervals,
    Policies,        \* bound: the policies looked at
    Marked,          \* bound: kinds of marks the run sends
    Times,           \* bound: when marks are received
    Issued,          \* bound: when a boundary of a suite says it was issued
    MaxMarks         \* bound: marks noted

VARIABLES
    walkMarks,       \* the marks noted, in the order they came
    suiteGate,       \* the suite that is open, or None
    now,             \* time of the last mark received
    stage,           \* how far applyTimelapse has got
    todo, encoded,   \* pieces to encode; one has been encoded
    keepRaw, plannedLong, entireCut,
    film, raw, tmp   \* what the three files hold, or None

markVars == <<walkMarks, suiteGate, now>>
fileVars == <<stage, todo, encoded, keepRaw, plannedLong, entireCut, film, raw, tmp>>
timelapseVars == <<markVars, fileVars>>

Least(a, b) == IF a < b THEN a ELSE b
Most(a, b) == IF a > b THEN a ELSE b

(* A finite set in the order of a relation on it. *)
Ranked(S, before) ==
    [i \in 1..Cardinality(S) |->
       CHOOSE x \in S : Cardinality({y \in S : <<y, x>> \in before}) = i - 1]

Interval(from, to) == [from |-> from, to |-> to]

-----------------------------------------------------------------------------
(* Intervals of one kind.                                                  *)

(* A stable sort by time. *)
Earlier(marks) ==
    {p \in (DOMAIN marks) \X (DOMAIN marks) :
       \/ marks[p[1]].t < marks[p[2]].t
       \/ marks[p[1]].t = marks[p[2]].t /\ p[1] < p[2]}
Sorted(marks) ==
    LET order == Ranked(DOMAIN marks, Earlier(marks))
    IN  [i \in DOMAIN marks |-> marks[order[i]]]

Pair(acc, mark, kind) ==
    IF mark.of # kind THEN acc
    ELSE IF mark.opens
    THEN [acc EXCEPT !.depth = @ + 1, !.openedAt = IF acc.depth = 0 THEN mark.t ELSE @]
    ELSE IF acc.depth = 0 THEN acc
    ELSE [acc EXCEPT !.depth = @ - 1,
                     !.found = IF acc.depth = 1 THEN @ \cup {Interval(acc.openedAt, mark.t)} ELSE @]
NonePaired == [depth |-> 0, openedAt |-> 0, found |-> {}]
Pairing(marks, kind) ==
    LET acc[i \in 0..Len(marks)] ==
          IF i = 0 THEN NonePaired ELSE Pair(acc[i - 1], marks[i], kind)
    IN  acc

MutantPairMarkIntervals(marks, kind, closeOpen) ==
    LET paired == Pairing(marks, kind)[Len(marks)]
    IN  paired.found \cup
        IF paired.depth > 0 THEN {Interval(paired.openedAt, Duration)} ELSE {}
PairMarkIntervals(marks, kind, closeOpen) ==
    LET paired == Pairing(marks, kind)[Len(marks)]
    IN  paired.found \cup
        IF closeOpen /\ paired.depth > 0 THEN {Interval(paired.openedAt, Duration)} ELSE {}

Clamped(iv) == Interval(Most(0, iv.from), Least(Duration, iv.to))
ByStart(intervals) ==
    {p \in intervals \X intervals :
       p[1].from < p[2].from \/ (p[1].from = p[2].from /\ p[1].to < p[2].to)}

(* Intervals come in order: none but the last one merged is touched. *)
Merge(merged, iv) ==
    LET touched == {m \in merged : iv.from <= m.to}
    IN  IF touched = {} THEN merged \cup {iv}
        ELSE (merged \ touched) \cup {[m EXCEPT !.to = Most(@, iv.to)] : m \in touched}

Merging(sorted) ==
    LET merged[i \in 0..Len(sorted)] == IF i = 0 THEN {} ELSE Merge(merged[i - 1], sorted[i])
    IN  merged

ClampMergeIntervals(intervals, minimum) ==
    LET long == {iv \in {Clamped(i) : i \in intervals} : iv.to - iv.from >= minimum}
        sorted == Ranked(long, ByStart(long))
    IN  Merging(sorted)[Len(sorted)]

-----------------------------------------------------------------------------
(* Suites.                                                                 *)

(* The spans of the suites, in order: the earliest of several starts of    *)
(* one suite counts, any end or other start closes it.                     *)
Close(acc, t) ==
    [open |-> None, since |-> acc.since,
     spans |-> IF acc.open # None /\ t > acc.since
               THEN Append(acc.spans, [suite |-> acc.open, from |-> acc.since, to |-> t])
               ELSE acc.spans]
Bound(acc, mark) ==
    IF mark.of # "suite" THEN acc
    ELSE IF ~mark.opens THEN Close(acc, mark.t)
    ELSE IF acc.open = mark.suite THEN acc
    ELSE [Close(acc, mark.t) EXCEPT !.open = mark.suite, !.since = mark.t]
NoSuite == [open |-> None, since |-> 0, spans |-> <<>>]
Bounding(marks) ==
    LET acc[i \in 0..Len(marks)] == IF i = 0 THEN NoSuite ELSE Bound(acc[i - 1], marks[i])
    IN  acc
SuiteSpans(marks) == Close(Bounding(marks)[Len(marks)], Duration).spans

MutantSuiteCutIntervals(marks) ==
    {Interval(span.from, span.to) : span \in {s \in ToSet(SuiteSpans(marks)) : s.suite \notin Kept}}
SuiteCutIntervals(marks) ==
    LET spans == SuiteSpans(marks)
        kept == {i \in DOMAIN spans : spans[i].suite \in Kept}
        first == {i \in kept : \A j \in kept : i <= j}
        cuts == {Interval(spans[i].from, spans[i].to) : i \in (DOMAIN spans) \ kept}
                  \cup {Interval(0, spans[i].from) : i \in first}
    IN  ClampMergeIntervals(cuts, MinCut)

(* Kept suites of almost no length, and marks outside them: the boundaries *)
(* are not to be trusted.                                                  *)
SuiteKeepBoundsUnreliable(marks) ==
    LET kept == SelectSeq(SuiteSpans(marks), LAMBDA span : span.suite \in Kept)
        keptMs == FoldLeft(LAMBDA sum, span :
                             sum + Most(0, Least(Duration, span.to) - Most(0, span.from)), 0, kept)
    IN  /\ \E i \in DOMAIN marks : marks[i].of = "suite"
        /\ ~(keptMs >= MinKeep /\ 10 * keptMs >= Duration)
        /\ \E i \in DOMAIN marks :
             /\ marks[i].of # "suite"
             /\ \A j \in DOMAIN kept : marks[i].t \notin kept[j].from..kept[j].to

-----------------------------------------------------------------------------
(* The plan.  A policy says which kinds have a factor of their own, and    *)
(* whether suites are cut.                                                 *)

Policy == [walk : BOOLEAN, idle : BOOLEAN, highlight : BOOLEAN, suites : BOOLEAN]

Kinds == {"loading", "highlight", "walk", "idle"}

ASSUME TimelapseAssumption ==
    /\ None \notin Suite \cup Kinds
    /\ Duration \in Nat /\ MinInterval \in Nat \ {0} /\ MinCut \in Nat \ {0}
    /\ MaxFastIntervals \in Nat \ {0}
    /\ Policies \subseteq Policy /\ Marked \subseteq Kinds
    /\ Times \subseteq Int /\ Issued \subseteq Int

(* The intervals of each kind. *)
KindIntervals(sorted, keepSuite) ==
    [kind \in Kinds |->
       IF kind = "loading"
       THEN ClampMergeIntervals(
              PairMarkIntervals(sorted, kind, FALSE)
                \cup (IF keepSuite THEN SuiteCutIntervals(sorted) ELSE {}), MinCut)
       ELSE ClampMergeIntervals(PairMarkIntervals(sorted, kind, TRUE), MinInterval)]

(* What prevails: loading, highlight, walk, idle. *)
In(t, intervals) == \E iv \in intervals : iv.from <= t /\ t < iv.to
ActiveKind(of, t) ==
    IF In(t, of["loading"]) THEN "loading"
    ELSE IF In(t, of["highlight"]) THEN "highlight"
    ELSE IF In(t, of["walk"]) THEN "walk"
    ELSE IF In(t, of["idle"]) THEN "idle" ELSE None

(* From edge to edge. *)
Edges(of) == UNION {{iv.from, iv.to} : iv \in UNION {of[kind] : kind \in Kinds}}
Sweep(acc, t, kind) ==
    IF kind = acc.kind THEN acc
    ELSE [start |-> t, kind |-> kind,
          out |-> IF acc.kind = None THEN acc.out
                  ELSE Append(acc.out, [from |-> acc.start, to |-> t, kind |-> acc.kind])]
NotSwept == [start |-> 0, kind |-> None, out |-> <<>>]
Sweeping(of, times) ==
    LET acc[i \in 0..Len(times)] ==
          IF i = 0 THEN NotSwept ELSE Sweep(acc[i - 1], times[i], ActiveKind(of, times[i]))
    IN  acc
Swept(of) ==
    LET edges == Edges(of)
        times == Ranked(edges, {p \in edges \X edges : p[1] < p[2]})
    IN  Sweeping(of, times)[Len(times)].out

(* Disjoint intervals with the kind that prevails, in order. *)
ComputeMarkedIntervals(sorted, keepSuite) == Swept(KindIntervals(sorted, keepSuite))

Rank == [loading |-> 3, highlight |-> 2, walk |-> 1, idle |-> 0]

(* Two neighbours become one: of the same kind rather than not, close ones *)
(* first, a cut never with what is kept.  Failing that the shortest cut is *)
(* given up.                                                               *)
MutantCapOnce(out) ==
    LET best == CHOOSE i \in 2..Len(out) :
                  \A j \in 2..Len(out) : out[i].from - out[i - 1].to <= out[j].from - out[j - 1].to
        winner == IF Rank[out[best].kind] > Rank[out[best - 1].kind]
                  THEN out[best].kind ELSE out[best - 1].kind
    IN  RemoveAt([out EXCEPT ![best - 1] = [from |-> @.from, to |-> out[best].to, kind |-> winner]], best)
CapOnce(out) ==
    LET pairs == {i \in 2..Len(out) : (out[i - 1].kind = "loading") <=> (out[i].kind = "loading")}
        Far == 2 * Duration
        score == [i \in pairs |-> out[i].from - out[i - 1].to
                                    + IF out[i].kind = out[i - 1].kind THEN 0 ELSE Far]
        best == CHOOSE i \in pairs :
                  \A j \in pairs : score[i] < score[j] \/ (score[i] = score[j] /\ i <= j)
        cuts == {i \in DOMAIN out : out[i].kind = "loading"}
        len == [i \in cuts |-> out[i].to - out[i].from]
        drop == CHOOSE i \in cuts : \A j \in cuts : len[i] < len[j] \/ (len[i] = len[j] /\ i <= j)
        winner == IF Rank[out[best].kind] > Rank[out[best - 1].kind]
                  THEN out[best].kind ELSE out[best - 1].kind
    IN  IF pairs = {} THEN RemoveAt(out, drop)
        ELSE RemoveAt([out EXCEPT ![best - 1] = [from |-> @.from, to |-> out[best].to,
                                                 kind |-> winner]], best)

Capped(out) == IF Len(out) <= MaxFastIntervals THEN out ELSE CapOnce(out)
Capping(intervals) ==
    LET out[i \in 0..Len(intervals)] == IF i = 0 THEN intervals ELSE Capped(out[i - 1])
    IN  out
CapIntervals(intervals) == Capping(intervals)[Len(intervals)]

Piece(from, to, mode) == [from |-> from, to |-> to, mode |-> mode, open |-> FALSE]

(* What lies between the intervals is idle; cuts are left out; a last      *)
(* piece that reaches the end is left open.                                *)
Gap(acc, to) ==
    IF to > acc.cursor THEN Append(acc.pieces, Piece(acc.cursor, to, "idle")) ELSE acc.pieces
Laid(acc, iv) ==
    [cursor |-> iv.to,
     pieces |-> IF iv.kind = "loading" THEN Gap(acc, iv.from)
                ELSE Append(Gap(acc, iv.from), Piece(iv.from, iv.to, iv.kind))]
NoneLaid == [cursor |-> 0, pieces |-> <<>>]
Laying(intervals) ==
    LET acc[i \in 0..Len(intervals)] == IF i = 0 THEN NoneLaid ELSE Laid(acc[i - 1], intervals[i])
    IN  acc
Pieces(intervals) == Gap(Laying(intervals)[Len(intervals)], Duration)
BuildSegmentPlan(intervals) ==
    LET pieces == Pieces(intervals)
    IN  IF pieces # <<>> /\ Last(pieces).to = Duration
        THEN [pieces EXCEPT ![Len(pieces)].open = TRUE]
        ELSE pieces

SuitesCut(sorted, policy) == policy.suites /\ ~SuiteKeepBoundsUnreliable(sorted)

(* The intervals that are cut or have a factor of their own. *)
Keep(usable, iv, policy) ==
    IF iv.kind = "loading" \/ policy[iv.kind] THEN Append(usable, iv) ELSE usable
Keeping(intervals, policy) ==
    LET usable[i \in 0..Len(intervals)] ==
          IF i = 0 THEN <<>> ELSE Keep(usable[i - 1], intervals[i], policy)
    IN  usable
UsableIntervals(sorted, policy) ==
    LET marked == ComputeMarkedIntervals(sorted, SuitesCut(sorted, policy))
    IN  Keeping(marked, policy)[Len(marked)]

(* resolveTimelapsePlan, and the check before it that there is something   *)
(* to do at all.                                                           *)
Resolve(usable, policy) ==
    LET intervals == CapIntervals(usable)
        hasCuts == \E i \in DOMAIN intervals : intervals[i].kind = "loading"
        plan == IF intervals = <<>> THEN <<>> ELSE BuildSegmentPlan(intervals)
    IN  IF intervals = <<>> /\ ~policy.idle THEN [outcome |-> "nothing", plan |-> <<>>]
        ELSE IF plan # <<>> THEN [outcome |-> "plan", plan |-> plan]
        ELSE IF hasCuts THEN [outcome |-> "entireCut", plan |-> <<>>]
        ELSE [outcome |-> "plan", plan |-> <<[Piece(0, Duration, "idle") EXCEPT !.open = TRUE]>>]

-----------------------------------------------------------------------------
(* While the run goes on: marks.                                           *)

SegmentMark(kind, opens, t) == [of |-> kind, opens |-> opens, suite |-> None, t |-> t]
SuiteMark(suite, opens, t) == [of |-> "suite", opens |-> opens, suite |-> suite, t |-> t]

Received ==
    /\ stage = "recording"
    /\ Len(walkMarks) < MaxMarks
    /\ \E t \in Times : t >= now /\ now' = t
    /\ UNCHANGED fileVars

NoteSegment ==
    /\ Received
    /\ \E kind \in Marked, opens \in BOOLEAN :
         walkMarks' = Append(walkMarks, SegmentMark(kind, opens, now'))
    /\ UNCHANGED suiteGate

(* noteSuiteBoundary: a boundary is noted when the suite that is open      *)
(* changes, at the time it says it was issued, if it says so.              *)
SuiteStarts ==
    /\ Received
    /\ \E suite \in Suite \ {suiteGate}, t \in {i \in Issued : i <= now'} \cup {now'} :
         walkMarks' = walkMarks \o
           (IF suiteGate = None THEN <<>> ELSE <<SuiteMark(suiteGate, FALSE, t)>>)
             \o <<SuiteMark(suite, TRUE, t)>>
         /\ suiteGate' = suite

(* The end of any suite, or of the run. *)
SuiteEnds ==
    /\ Received
    /\ suiteGate # None
    /\ \E t \in {i \in Issued : i <= now'} \cup {now'} :
         walkMarks' = Append(walkMarks, SuiteMark(suiteGate, FALSE, t))
    /\ suiteGate' = None

-----------------------------------------------------------------------------
(* applyTimelapse on the files.                                            *)

Crumb(piece, policy) ==
    /\ ~piece.open
    /\ piece.to - piece.from <
         IF piece.mode = "idle" /\ policy.idle THEN IdleCrumb ELSE MinInterval

(* The marks are not looked at again. *)
ApplyTimelapse ==
    /\ stage = "recording"
    /\ \E policy \in Policies, sorted \in {Sorted(walkMarks)} :
         LET resolved == Resolve(UsableIntervals(sorted, policy), policy)
         IN  \/ stage' = "kept" /\ UNCHANGED <<todo, entireCut>>    \* no ffmpeg, no duration
             \/ /\ walkMarks = <<>> \/ resolved.outcome = "nothing"
                /\ stage' = "kept" /\ UNCHANGED <<todo, entireCut>>
             \/ /\ walkMarks # <<>> /\ resolved.outcome = "entireCut"
                /\ stage' = "blackening" /\ entireCut' = TRUE /\ UNCHANGED todo
             \/ /\ walkMarks # <<>> /\ resolved.outcome = "plan"
                /\ stage' = "encoding" /\ UNCHANGED entireCut
                /\ todo' = Cardinality({i \in DOMAIN resolved.plan : ~Crumb(resolved.plan[i], policy)})
    /\ keepRaw' \in BOOLEAN /\ plannedLong' \in BOOLEAN
    /\ walkMarks' = <<>> /\ suiteGate' = None /\ now' = 0
    /\ UNCHANGED <<encoded, film, raw, tmp>>

Files == UNCHANGED <<markVars, keepRaw, entireCut>>

(* A piece is encoded, cannot be read and is left out, or ffmpeg fails. *)
EncodePiece ==
    /\ stage = "encoding" /\ todo > 0
    /\ \/ encoded' = TRUE /\ todo' = todo - 1 /\ UNCHANGED <<stage, plannedLong>>
       \/ /\ todo' = todo - 1 /\ plannedLong' \in {plannedLong, FALSE}
          /\ UNCHANGED <<encoded, stage>>
       \/ stage' = "kept" /\ UNCHANGED <<todo, encoded, plannedLong>>
    /\ Files /\ UNCHANGED <<film, raw, tmp>>

Join ==
    /\ stage = "encoding" /\ todo = 0
    /\ IF encoded
       THEN \/ stage' = "checking" /\ tmp' \in {"whole", "short", "unreadable"}
            \/ stage' = "kept" /\ UNCHANGED tmp
       ELSE stage' = "kept" /\ UNCHANGED tmp
    /\ Files /\ UNCHANGED <<todo, encoded, plannedLong, film, raw>>

(* A result much shorter than planned is thrown away, unless the plan was  *)
(* short itself; one that cannot be read is not.                           *)
CheckResult ==
    /\ stage = "checking"
    /\ IF tmp = "short" /\ plannedLong
       THEN stage' = "kept" /\ tmp' = None
       ELSE stage' = "swapping" /\ UNCHANGED tmp
    /\ Files /\ UNCHANGED <<todo, encoded, plannedLong, film, raw>>

WriteBlackPlaceholder ==
    /\ stage = "blackening"
    /\ \/ stage' = "swapping" /\ tmp' = "black"
       \/ stage' = "kept" /\ UNCHANGED tmp
    /\ Files /\ UNCHANGED <<todo, encoded, plannedLong, film, raw>>

(* The recording makes room: it is renamed when it is to be kept; the      *)
(* placeholder's way deletes it otherwise.                                 *)
MutantMakeRoom ==
    /\ stage = "swapping"
    /\ stage' = "replacing"
    /\ film' = None /\ UNCHANGED raw
    /\ Files /\ UNCHANGED <<todo, encoded, plannedLong, tmp>>
MakeRoom ==
    /\ stage = "swapping"
    /\ stage' = "replacing"
    /\ \/ keepRaw /\ raw' = film /\ film' = None
       \/ ~keepRaw /\ entireCut /\ film' = None /\ UNCHANGED raw
       \/ ~keepRaw /\ UNCHANGED <<film, raw>>
    /\ Files /\ UNCHANGED <<todo, encoded, plannedLong, tmp>>

Replace ==
    /\ stage = "replacing"
    /\ stage' = "replaced"
    /\ film' = tmp /\ tmp' = None
    /\ Files /\ UNCHANGED <<todo, encoded, plannedLong, raw>>

(* A file cannot be renamed; only the placeholder's way cleans up. *)
RenameFails ==
    /\ stage \in {"swapping", "replacing"}
    /\ stage' = "failed"
    /\ tmp' = IF entireCut THEN None ELSE tmp
    /\ Files /\ UNCHANGED <<todo, encoded, plannedLong, film, raw>>

Killed ==
    /\ stage \in {"encoding", "checking", "blackening", "swapping", "replacing"}
    /\ stage' = "killed"
    /\ Files /\ UNCHANGED <<todo, encoded, plannedLong, film, raw, tmp>>

-----------------------------------------------------------------------------
TimelapseInit ==
    /\ walkMarks = <<>> /\ suiteGate = None /\ now = 0
    /\ stage = "recording" /\ todo = 0 /\ encoded = FALSE
    /\ keepRaw = FALSE /\ plannedLong = FALSE /\ entireCut = FALSE
    /\ film = "original" /\ raw = None /\ tmp = None

TimelapseNext ==
    \/ NoteSegment \/ SuiteStarts \/ SuiteEnds \/ ApplyTimelapse
    \/ EncodePiece \/ Join \/ CheckResult \/ WriteBlackPlaceholder
    \/ MakeRoom \/ Replace \/ RenameFails \/ Killed

-----------------------------------------------------------------------------
(* What the marks ask for, instant by instant.                             *)

(* How many spans of a kind are open after the first k marks: an end       *)
(* without a start counts for nothing.                                     *)
Net(ms, kind, m, k) ==
    Cardinality({i \in m..k : ms[i].of = kind /\ ms[i].opens})
      - Cardinality({i \in m..k : ms[i].of = kind /\ ~ms[i].opens})
Depth(ms, kind, k) ==
    CHOOSE d \in {Net(ms, kind, m, k) : m \in 1..k + 1} :
      \A m \in 1..k + 1 : Net(ms, kind, m, k) <= d

(* From a start with nothing open to the first end that leaves nothing     *)
(* open, or to the end of the recording.                                   *)
Begins(ms, kind, i) == ms[i].of = kind /\ ms[i].opens /\ Depth(ms, kind, i - 1) = 0
Open(ms, kind, i, j) == \A k \in i..j : Depth(ms, kind, k) > 0
MarkedSpans(ms, kind, toTheEnd) ==
    {Interval(ms[p[1]].t, ms[p[2]].t) : p \in
       {q \in (DOMAIN ms) \X (DOMAIN ms) :
          /\ q[1] < q[2] /\ Begins(ms, kind, q[1])
          /\ Open(ms, kind, q[1], q[2] - 1) /\ Depth(ms, kind, q[2]) = 0}}
    \cup {Interval(ms[i].t, Duration) : i \in
           {k \in DOMAIN ms : toTheEnd /\ Begins(ms, kind, k) /\ Open(ms, kind, k, Len(ms))}}

(* The suite after the first k marks, and how long it lasts. *)
SuiteAt(ms, k) ==
    LET bounds == {i \in 1..k : ms[i].of = "suite"}
        last == CHOOSE i \in bounds : \A j \in bounds : j <= i
    IN  IF bounds = {} \/ ~ms[last].opens THEN None ELSE ms[last].suite
SuiteSpansOf(ms) ==
    LET End(i) == {j \in i + 1..Len(ms) : SuiteAt(ms, j) # SuiteAt(ms, i)}
        To(i) == IF End(i) = {} THEN Duration
                 ELSE ms[CHOOSE j \in End(i) : \A k \in End(i) : j <= k].t
    IN  {[suite |-> ms[i].suite, from |-> ms[i].t, to |-> To(i)] :
           i \in {k \in DOMAIN ms : SuiteAt(ms, k) \notin {None, SuiteAt(ms, k - 1)}
                                    /\ ms[k].t < To(k)}}

Shows(iv, minimum, x) ==
    /\ Least(Duration, iv.to) - Most(0, iv.from) >= minimum
    /\ iv.from <= x /\ x < iv.to

(* The mode of every instant, of marks in order. *)
AskedFor(marks, policy) ==
    LET Lasting(spans, minimum, x) == \E iv \in spans : Shows(iv, minimum, x)
        loading == MarkedSpans(marks, "loading", FALSE)
        highlight == MarkedSpans(marks, "highlight", TRUE)
        walk == MarkedSpans(marks, "walk", TRUE)
        spans == SuiteSpansOf(marks)
        kept == {span \in spans : span.suite \in Kept}
        lead == {iv \in {Interval(0, span.from) : span \in kept} :
                   \A span \in kept : iv.to <= span.from}
        cut == loading \cup IF SuitesCut(marks, policy) THEN (spans \ kept) \cup lead ELSE {}
    IN  [x \in 0..Duration - 1 |->
           IF Lasting(cut, MinCut, x) THEN "cut"
           ELSE IF Lasting(highlight, MinInterval, x)
           THEN IF policy.highlight THEN "highlight" ELSE "idle"
           ELSE IF policy.walk /\ Lasting(walk, MinInterval, x) THEN "walk" ELSE "idle"]

Shown(resolved, x) ==
    IF resolved.outcome = "nothing" THEN {"idle"}
    ELSE {resolved.plan[i].mode : i \in
            {k \in DOMAIN resolved.plan :
               /\ resolved.plan[k].from <= x
               /\ resolved.plan[k].open \/ x < resolved.plan[k].to}}

(* timelapse.ts:2-13, whatever marks were lost, doubled or late: every     *)
(* instant is cut or shown once, at the speed of what prevails there, as   *)
(* long as the intervals need not be capped.  When they are, nothing of a  *)
(* highlight or a walk that has its speed is lost (465-473).               *)
FilmShowsWhatIsMarked ==
    stage = "recording" =>
      \A policy \in Policies, sorted \in {Sorted(walkMarks)} :
        LET usable == UsableIntervals(sorted, policy)
            resolved == Resolve(usable, policy)
            mode == AskedFor(sorted, policy)
        IN  \A x \in 0..Duration - 1 :
              LET shown == Shown(resolved, x)
              IN  /\ Cardinality(shown) <= 1
                  /\ Len(usable) <= MaxFastIntervals => shown = {mode[x]} \ {"cut"}
                  /\ mode[x] \in {"highlight", "walk"} => shown # {}

(* timelapse.ts:863-866: whatever fails, and whenever the process is       *)
(* killed, the recording is there under one of its names when it is to be  *)
(* kept; otherwise only a result takes its place, one that is not much     *)
(* shorter than planned unless the plan was short or it cannot be read.    *)
RecordingKept ==
    /\ keepRaw => "original" \in {film, raw}
    /\ \/ keepRaw \/ entireCut \/ film \in {"original", "whole", "unreadable"}
       \/ film = "short" /\ ~plannedLong

(* timelapse.ts:863: "Never loses the video". *)
NeverLosesVideo == stage = "replaced" => film # "unreadable" \/ raw = "original"
=============================================================================
