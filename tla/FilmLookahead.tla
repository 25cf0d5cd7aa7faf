--------------------------- MODULE FilmLookahead ----------------------------
(***************************************************************************)
(* The film tool renders a window of a recorded take.  Before it does, it  *)
(* pulls the columns near the camera forward to the start of their         *)
(* dimension (viewer/film/lookahead.ts), so that no ground pops up in the  *)
(* shot; what changes blocks must stay where it was in time.               *)
(*                                                                         *)
(* One column near the camera, as the bot's encoder sends it               *)
(* (gotestbds/viewer/encode.go), and at most one section of it.  A take is *)
(* the sequence of frames that touch the column; columns do not depend on  *)
(* each other in the rewrite.                                              *)
(***************************************************************************)
EXTENDS Integers, Sequences

CONSTANTS
    Absent,
    Contents,    \* what the blocks of the section may be
    FromTime, ToTime,   \* the window that is rendered
    Payloads,    \* bound: what the encoder sends of the column
    MaxTake,     \* bound: frames
    LastTime     \* bound: time of the last frame

VARIABLES
    take,        \* frames so far, oldest first
    sent,        \* the column as the recorder was last sent it, or Absent
    time         \* of the last frame

lookaheadVars == <<take, sent, time>>

NoSection == "none"
Receipt == {"requested", "partial", "complete"}

HeldColumn ==
    [state : Receipt, section : Contents \cup {NoSection}, light : {0, 1}]

(* Light is sent for complete columns only, in the section. *)
WireColumn ==
    {c \in HeldColumn :
       /\ c.state = "requested" => c.section = NoSection
       /\ c.state # "complete" \/ c.section = NoSection => c.light = 0}

LookaheadAssumption ==
    /\ FromTime \in Int /\ ToTime \in Int /\ LastTime \in Int
    /\ NoSection \notin Contents /\ Payloads \subseteq WireColumn
    /\ Absent \notin HeldColumn \cup Contents \cup Receipt

(* A frame: what it says of the column. *)
FrameAt(t) ==
    [t |-> t, boundary |-> FALSE, added |-> Absent, state |-> Absent,
     block |-> Absent, removed |-> FALSE]

-----------------------------------------------------------------------------
(* The encoder.                                                            *)

(* Light and biomes cannot be sent as changes of blocks, the column is     *)
(* sent again; biomes come with completeness.                              *)
ColumnLightOrBiomeChanged(prev, cur) ==
    \/ (prev.state = "complete") # (cur.state = "complete")
    \/ (prev.section = NoSection) # (cur.section = NoSection)
    \/ prev.light # cur.light

Delta(t, prev, cur) ==
    LET resent == ColumnLightOrBiomeChanged(prev, cur)
    IN  [FrameAt(t) EXCEPT
           !.state = IF prev.state # cur.state THEN cur.state ELSE Absent,
           !.added = IF resent THEN cur ELSE Absent,
           !.block = IF NoSection \notin {prev.section, cur.section} /\ prev.section # cur.section
                     THEN cur.section ELSE Absent]

(* The page: removals, columns, states, blocks. *)
Applied(column, frame) ==
    LET kept == IF frame.boundary \/ frame.removed THEN Absent ELSE column
        put == IF frame.added # Absent THEN frame.added ELSE kept
        stated == IF put = Absent \/ frame.state = Absent THEN put
                  ELSE [put EXCEPT !.state = frame.state]
    IN  IF stated = Absent \/ frame.block = Absent THEN stated
        ELSE [stated EXCEPT !.section = frame.block]

(* The column after each frame. *)
Columns(frames) ==
    LET column[i \in 0..Len(frames)] ==
          IF i = 0 THEN Absent ELSE Applied(column[i - 1], frames[i])
    IN  column

(* applyThrough: frames are applied as long as they are due. *)
ShownAt(frames, t) ==
    Columns(frames)[CHOOSE n \in 0..Len(frames) :
                      /\ \A i \in 1..n : frames[i].t <= t
                      /\ n = Len(frames) \/ frames[n + 1].t > t]

-----------------------------------------------------------------------------
(* The rewrite.                                                            *)

(* A section that one of the payloads lacks is not compared. *)
SameBlocks(a, b) == NoSection \in {a.section, b.section} \/ a.section = b.section

MutantBetterSeed(have, next, t) == next.state = "complete"
BetterSeed(have, next, t) ==
    /\ next.state = "complete"
    /\ have.state # "complete" \/ t < FromTime \/ SameBlocks(have, next)

(* What is gathered of a generation, the frames from one boundary to the   *)
(* next: the payload that seeds it, and the place of the last complete     *)
(* payload before the window, 0 if there is none.                          *)
NoGeneration == [seed |-> Absent, seedThrough |-> 0]

Gather(gen, frame, i) ==
    [seed |-> IF frame.added # Absent
                   /\ (gen.seed = Absent \/ BetterSeed(gen.seed, frame.added, frame.t))
              THEN frame.added ELSE gen.seed,
     seedThrough |-> IF frame.added # Absent /\ frame.added.state = "complete"
                          /\ frame.t < FromTime
                     THEN i ELSE gen.seedThrough]

Gathered(frames) ==
    LET gen[i \in 0..Len(frames)] ==
          IF i = 0 THEN NoGeneration
          ELSE Gather(IF frames[i].boundary THEN NoGeneration ELSE gen[i - 1], frames[i], i)
    IN  gen

(* Where the generation of frame i ends. *)
End(frames, i) ==
    CHOOSE j \in i..Len(frames) :
      /\ \A k \in i + 1..j : ~frames[k].boundary
      /\ j = Len(frames) \/ frames[j + 1].boundary

Generation(frames, i) == Gathered(frames)[End(frames, i)]

(* A frame of a generation with a seed: payloads that the seed stands for  *)
(* or that change no blocks are dropped, and so are changes that the seed  *)
(* already has and removals before the end of the window.  "replayed" is   *)
(* the payload last let through, "edited" whether blocks have changed      *)
(* since.                                                                  *)
MutantRewrite(acc, frame, i, through) ==
    LET taken == frame.added # Absent /\ i > through /\ frame.added.state = "complete"
        passes == taken /\ ~SameBlocks(acc.replayed, frame.added)
        edits == frame.block # Absent /\ i >= through
    IN  [replayed |-> IF taken THEN frame.added ELSE acc.replayed,
         edited |-> edits,
         frame |-> [frame EXCEPT !.added = IF passes THEN @ ELSE Absent,
                                 !.block = IF edits THEN @ ELSE Absent,
                                 !.removed = @ /\ frame.t >= ToTime]]
Rewrite(acc, frame, i, through) ==
    LET taken == frame.added # Absent /\ i > through /\ frame.added.state = "complete"
        passes == taken /\ (acc.edited \/ ~SameBlocks(acc.replayed, frame.added))
        edits == frame.block # Absent /\ i >= through
    IN  [replayed |-> IF taken THEN frame.added ELSE acc.replayed,
         edited |-> edits \/ (acc.edited /\ ~taken),
         frame |-> [frame EXCEPT !.added = IF passes THEN @ ELSE Absent,
                                 !.block = IF edits THEN @ ELSE Absent,
                                 !.removed = @ /\ frame.t >= ToTime]]

Seeded(frame, seed) ==
    [replayed |-> seed, edited |-> FALSE, frame |-> [frame EXCEPT !.added = seed]]
Unseeded(frame) == [replayed |-> Absent, edited |-> FALSE, frame |-> frame]

(* Generations without a seed stay as they are. *)
Rewritten(frames) ==
    LET acc[i \in 1..Len(frames)] ==
          LET gen == Generation(frames, i)
          IN  IF gen.seed = Absent THEN Unseeded(frames[i])
              ELSE IF frames[i].boundary THEN Seeded(frames[i], gen.seed)
              ELSE Rewrite(acc[i - 1], frames[i], i, gen.seedThrough)
    IN  acc

RewriteTimelineForLookahead(frames) ==
    LET rewritten == Rewritten(frames)
    IN  [i \in DOMAIN frames |-> rewritten[i].frame]

-----------------------------------------------------------------------------
(* The recording: a take begins with a keyframe.                           *)

Recorded(frame, column) ==
    /\ Len(take) < MaxTake
    /\ take' = Append(take, frame)
    /\ sent' = column
    /\ time' = frame.t

NextTimes == time..LastTime

(* A keyframe, or the first delta of a dimension. *)
Boundary ==
    \E t \in NextTimes, column \in Payloads \cup {Absent} :
      Recorded([FrameAt(t) EXCEPT !.boundary = TRUE, !.added = column], column)

ColumnAdded ==
    /\ take # <<>> /\ sent = Absent
    /\ \E t \in NextTimes, column \in Payloads :
         Recorded([FrameAt(t) EXCEPT !.added = column], column)

(* Receipt does not go back while the column is held. *)
Forward(prev, cur) ==
    \/ prev.state = cur.state
    \/ prev.state = "requested"
    \/ prev.state = "partial" /\ cur.state = "complete"

ColumnChanged ==
    /\ sent # Absent
    /\ \E t \in NextTimes, column \in Payloads \ {sent} :
         Forward(sent, column) /\ Recorded(Delta(t, sent, column), column)

ColumnRemoved ==
    /\ sent # Absent
    /\ \E t \in NextTimes : Recorded([FrameAt(t) EXCEPT !.removed = TRUE], Absent)

LookaheadInit == take = <<>> /\ sent = Absent /\ time = 0

LookaheadNext == Boundary \/ ColumnAdded \/ ColumnChanged \/ ColumnRemoved

-----------------------------------------------------------------------------
(* A complete payload without the section, sent when the section was air   *)
(* or out of the vertical window: the rewrite takes it for a refresh.      *)
SectionVanished ==
    \E i \in DOMAIN take : take[i].added # Absent /\ take[i].added.state = "complete"
                             /\ take[i].added.section = NoSection

(* lookahead.ts:106-115: in the window, the film has the blocks the take   *)
(* has wherever the take has the column complete.                          *)
FilmShowsTheTake ==
    \A film \in {RewriteTimelineForLookahead(take)} :
        \A t \in FromTime..ToTime - 1 :
          LET real == ShownAt(take, t)
              shown == ShownAt(film, t)
          IN  real # Absent /\ real.state = "complete"
                => shown # Absent /\ shown.section = real.section

FilmFollowsTake == SectionVanished \/ FilmShowsTheTake
=============================================================================
