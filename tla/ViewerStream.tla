---------------------------- MODULE ViewerStream ----------------------------
(***************************************************************************)
(* The world lane of a bot's viewer stream (viewer/stream.go, encode.go):  *)
(* Tick projects the bot's world once, diffs it against the previous       *)
(* projection and builds for the subscriber either a keyframe or a delta   *)
(* with at most ColumnBudget whole columns; the subscriber keeps only the  *)
(* newest frame; its HTTP writer takes that frame whenever it gets round   *)
(* to it.                                                                  *)
(*                                                                         *)
(* Subscribers do not affect one another, so there is one, which connects  *)
(* and disconnects.  A column is the set of its block changes and the last *)
(* change of its light; which columns are nearest is left open.  The event *)
(* lane (marks, HUD) and the user interface in a frame are left out.       *)
(***************************************************************************)
EXTENDS Integers, FiniteSets, Functions, FiniteSetsExt

CONSTANTS
  Column,       \* columns that can be in the stream radius
  Entity,
  ColumnBudget,
  NoView,       \* no projection yet
  MaxChanges    \* bound on the changes of the world

ASSUME ViewerStreamAssumption ==
  /\ IsFiniteSet(Column)
  /\ ColumnBudget \in Nat \ {0}
  /\ MaxChanges \in Nat

VARIABLES
  terrain,      \* content of each column, loaded or not
  loaded,       \* columns in the radius
  entities,
  changes,      \* number of changes so far
  prev,         \* encoder.prev
  forceKey,     \* encoder.forceKey
  attached,     \* is there a subscriber?
  built,        \* the frame frameFor has returned and Tick not pushed yet
  pending, sentColumns, resync,   \* the subscriber's fields of these names
  keyed,        \* has the client got a keyframe?
  view,         \* what the client shows: columns, entities, columnsPending
  superseded,   \* history: was a delta dropped since the last keyframe?
  resent        \* history: columns counted as sent that had to be sent again since

worldVars == <<terrain, loaded, entities, changes>>
encoderVars == <<prev, forceKey>>
subVars == <<pending, sentColumns, resync>>
clientVars == <<keyed, view>>
historyVars == <<superseded, resent>>
vars == <<worldVars, encoderVars, attached, built, subVars, clientVars, historyVars>>

NoFrame == [event |-> "none"]
NoColumns == [c \in {} |-> {}]
Blank == [columns |-> NoColumns, entities |-> {}, left |-> 0]

Init ==
  /\ terrain = [c \in Column |-> [blocks |-> {}, light |-> 0]]
  /\ loaded \in SUBSET Column
  /\ entities \in SUBSET Entity
  /\ changes = 0
  /\ prev = NoView /\ forceKey = FALSE
  /\ attached = FALSE
  /\ built = NoFrame
  /\ pending = NoFrame /\ sentColumns = {} /\ resync = FALSE
  /\ keyed = FALSE /\ view = Blank
  /\ superseded = FALSE /\ resent = {}

IsKey(f) == f.event = "keyframe"
IsDelta(f) == f.event = "delta"

-----------------------------------------------------------------------------
(* The world changes, on the bot's goroutine, so never during a Tick.      *)
Change ==
  /\ built = NoFrame
  /\ changes < MaxChanges
  /\ changes' = changes + 1
  /\ UNCHANGED <<prev, attached, built, clientVars, historyVars>>

ChangeBlocks(c) ==
  /\ Change
  /\ terrain' = [terrain EXCEPT ![c] =
                   [blocks |-> terrain[c].blocks \cup {changes + 1}, light |-> terrain[c].light]]
  /\ UNCHANGED <<loaded, entities, forceKey, subVars>>

ChangeLight(c) ==
  /\ Change
  /\ terrain' = [terrain EXCEPT ![c] = [blocks |-> terrain[c].blocks, light |-> changes + 1]]
  /\ UNCHANGED <<loaded, entities, forceKey, subVars>>

LoadOrUnload(c) ==
  /\ Change
  /\ loaded' = IF c \in loaded THEN loaded \ {c} ELSE loaded \cup {c}
  /\ UNCHANGED <<terrain, entities, forceKey, subVars>>

SpawnOrDespawn(e) ==
  /\ Change
  /\ entities' = IF e \in entities THEN entities \ {e} ELSE entities \cup {e}
  /\ UNCHANGED <<terrain, loaded, forceKey, subVars>>

MarkResync == resync' = TRUE /\ sentColumns' = {} /\ pending' = NoFrame

DimensionChanged ==
  /\ Change
  /\ terrain' = [c \in Column |-> [blocks |-> {changes + 1}, light |-> 0]]
  /\ loaded' = {} /\ entities' = {}
  /\ forceKey' = TRUE
  /\ IF attached THEN MarkResync ELSE UNCHANGED subVars

-----------------------------------------------------------------------------
(* Tick, up to the frame: project, delta and frameFor.                     *)
project == [columns |-> [c \in loaded |-> terrain[c]], entities |-> entities]

(* A held column whose light has changed counts as added again. *)
Refreshed == {c \in DOMAIN prev.columns \cap loaded :
                prev.columns[c].light # terrain[c].light}
ColumnsAdded == (loaded \ DOMAIN prev.columns) \cup Refreshed
Blocks(c) == IF c \in DOMAIN prev.columns
               THEN terrain[c].blocks \ prev.columns[c].blocks ELSE {}

MutantBatch(columns) == {b \in SUBSET columns : Cardinality(b) <= ColumnBudget - 1}
Batch(columns) ==
  IF Cardinality(columns) <= ColumnBudget THEN {columns}
                                          ELSE kSubset(ColumnBudget, columns)

(* releasePendingDeltaLocked: an unread delta is dropped and the columns it *)
(* would have patched are not claimed any more.                            *)
MutantRelease == sentColumns
Release == IF IsDelta(pending) THEN sentColumns \ DOMAIN pending.blocks ELSE sentColumns

MutantNeedKey == resync
NeedKey == resync \/ IsKey(pending)

EncodeKeyframe ==
  /\ \E batch \in Batch(loaded) :
       built' = [event |-> "keyframe", columns |-> Restrict(project.columns, batch),
                 removed |-> {}, blocks |-> NoColumns,
                 entitiesAdded |-> entities, entitiesRemoved |-> {},
                 left |-> Cardinality(loaded \ batch)]
  /\ superseded' = FALSE /\ resent' = {}

EncodeDelta ==
  /\ LET claimed == (Release \cap loaded) \ ColumnsAdded
     IN  \E batch \in Batch(loaded \ claimed) :
           built' = [event |-> "delta", columns |-> Restrict(project.columns, batch),
                     removed |-> Release \ loaded,
                     blocks |-> [c \in {c \in claimed : Blocks(c) # {}} |-> Blocks(c)],
                     entitiesAdded |-> entities \ prev.entities,
                     entitiesRemoved |-> prev.entities \ entities,
                     left |-> Cardinality(loaded \ (claimed \cup batch))]
  /\ superseded' = (superseded \/ IsDelta(pending))
  /\ resent' = resent \cup (Release \cap ColumnsAdded)

Encode ==
  /\ attached
  /\ built = NoFrame
  /\ prev' = project /\ forceKey' = FALSE
  /\ IF prev = NoView \/ forceKey
       THEN MarkResync /\ EncodeKeyframe
       ELSE /\ sentColumns' = Release
            /\ pending' = IF IsDelta(pending) THEN NoFrame ELSE pending
            /\ UNCHANGED resync
            /\ IF NeedKey THEN EncodeKeyframe ELSE EncodeDelta
  /\ UNCHANGED <<worldVars, attached, clientVars>>

(* Tick goes on to pushWorld; the writer may have taken a frame meanwhile. *)
MutantClaimAtPush ==
  /\ built # NoFrame
  /\ built' = NoFrame
  /\ pending' = built
  /\ sentColumns' = sentColumns \cup DOMAIN built.columns
  /\ resync' = (resync /\ ~IsKey(built))
  /\ UNCHANGED <<worldVars, encoderVars, attached, clientVars, historyVars>>
PushWorld ==
  /\ built # NoFrame
  /\ built' = NoFrame
  /\ IF IsKey(pending) /\ IsDelta(built)
       THEN UNCHANGED subVars
       ELSE /\ pending' = built
            /\ sentColumns' = IF IsKey(pending) THEN {} ELSE Release
            /\ resync' = (resync /\ ~IsKey(built))
  /\ UNCHANGED <<worldVars, encoderVars, attached, clientVars, historyVars>>

-----------------------------------------------------------------------------
(* What a client makes of a frame (viewer/src/store.ts). *)
Patched(column, ids) == [blocks |-> column.blocks \cup ids, light |-> column.light]
Apply(v, f) ==
  IF IsKey(f) THEN [columns |-> f.columns, entities |-> f.entitiesAdded, left |-> f.left]
  ELSE [columns |->
          [c \in (DOMAIN v.columns \ f.removed) \cup DOMAIN f.columns |->
             LET column == IF c \in DOMAIN f.columns THEN f.columns[c] ELSE v.columns[c]
             IN  IF c \in DOMAIN f.blocks THEN Patched(column, f.blocks[c]) ELSE column],
        entities |-> (v.entities \ f.entitiesRemoved) \cup f.entitiesAdded,
        left |-> f.left]

(* next and applyColumnDelivery: the writer takes the pending frame, and   *)
(* the client will show it.                                                *)
TakeFrame ==
  /\ attached
  /\ pending # NoFrame
  /\ pending' = NoFrame
  /\ sentColumns' = (IF IsKey(pending) THEN {} ELSE sentColumns \ pending.removed)
                      \cup DOMAIN pending.columns
  /\ keyed' = (keyed \/ IsKey(pending))
  /\ view' = Apply(view, pending)
  /\ UNCHANGED <<worldVars, encoderVars, attached, built, resync, historyVars>>

Attach ==
  /\ ~attached
  /\ attached' = TRUE
  /\ resync' = TRUE /\ sentColumns' = {} /\ pending' = NoFrame
  /\ keyed' = FALSE /\ view' = Blank
  /\ superseded' = FALSE /\ resent' = {}
  /\ UNCHANGED <<worldVars, encoderVars, built>>

(* The connection breaks; a frame still to be pushed goes to a subscriber  *)
(* nobody reads any more.                                                  *)
Detach ==
  /\ attached
  /\ attached' = FALSE
  /\ built' = NoFrame
  /\ UNCHANGED <<worldVars, encoderVars, subVars, clientVars, historyVars>>

Next ==
  \/ \E c \in Column : ChangeBlocks(c) \/ ChangeLight(c) \/ LoadOrUnload(c)
  \/ \E e \in Entity : SpawnOrDespawn(e)
  \/ DimensionChanged
  \/ Encode
  \/ PushWorld
  \/ TakeFrame
  \/ Attach
  \/ Detach

Spec == Init /\ [][Next]_vars

(* The bot goes on ticking, and the writer of a connected client is now    *)
(* and then ready for a frame between two Ticks: one that always takes the *)
(* keyframe while its successor is being built gets keyframes for ever.    *)
BetweenTicks == TakeFrame /\ built = NoFrame
FairSpec ==
  Spec /\ WF_vars(Encode) /\ WF_vars(PushWorld) /\ SF_vars(BetweenTicks)

-----------------------------------------------------------------------------
(* The client has a base and no new one is on its way. *)
Based == attached /\ keyed /\ ~resync /\ built = NoFrame /\ ~IsKey(pending)
Shown == IF IsDelta(pending) THEN Apply(view, pending) ELSE view

(* A delta never reaches a client that had no keyframe, and patches and    *)
(* removes only columns the client holds: the client drops a patch for any *)
(* other without a word.                                                   *)
DeltaFitsClient ==
  IsDelta(pending) => keyed /\ DOMAIN pending.blocks \cup pending.removed
                                 \subseteq DOMAIN view.columns

(* Whatever was superseded, a column the subscriber counts as sent has, or *)
(* gets with the pending frame, every block of the last projection.  Not  *)
(* so a column it counts as sent that has to be sent again, for its light  *)
(* or because it was unloaded meanwhile (see RefreshArrives).              *)
Claimed == IF IsDelta(pending)
             THEN (sentColumns \ pending.removed) \cup DOMAIN pending.columns
             ELSE sentColumns
SentColumnsCurrent ==
  Based => \A c \in Claimed \ resent :
             c \in DOMAIN Shown.columns /\ Shown.columns[c] = prev.columns[c]

(* The client shows the entities of the last projection as long as no      *)
(* delta has been superseded; their changes are not repeated otherwise.    *)
EntitiesCurrentUnlessSuperseded ==
  Based /\ ~superseded => Shown.entities = prev.entities

(* A connection that lasts ends up with every column in the radius, as it  *)
(* is (columns to be sent again excepted), however often frames were superseded.    *)
WorldArrives ==
  <>[]attached => <>[](\A c \in loaded \ resent :
                         c \in DOMAIN view.columns /\ view.columns[c] = terrain[c])

(* stream.go 549-551: a column whose light has changed is unclaimed so     *)
(* that it re-enters the budgeted catch-up.  PROTOCOL.md 214-216: no       *)
(* columnsPending means the world is fully delivered.  So a client told    *)
(* that nothing is left shows the columns of the last projection.          *)
RefreshArrives ==
  Based /\ pending = NoFrame /\ view.left = 0
    => \A c \in DOMAIN prev.columns :
         c \in DOMAIN view.columns /\ view.columns[c] = prev.columns[c]
=============================================================================
