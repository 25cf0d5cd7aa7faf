------------------------- MODULE ViewerStreamProofs -------------------------
(***************************************************************************)
(* What the world lane of the viewer stream promises, proved for any       *)
(* radius, any budget of columns per frame and any world.                  *)
(*                                                                         *)
(* The properties compare what the client shows with the last projection,  *)
(* but only when no Tick is under way.  The invariant follows the one      *)
(* frame on its way, built by this Tick or pending, from where it is made  *)
(* to where it is applied: a keyframe repeats the projection; a delta      *)
(* takes what the client has, less what a superseded delta was to patch,   *)
(* to the projection.                                                      *)
(***************************************************************************)
EXTENDS ViewerStream, TLAPS

Content == [blocks : SUBSET Nat, light : Nat]

TypeOK ==
  /\ terrain \in [Column -> Content]
  /\ loaded \subseteq Column
  /\ changes \in Nat
  /\ \/ prev = NoView
     \/ /\ DOMAIN prev.columns \subseteq Column
        /\ \A c \in DOMAIN prev.columns : prev.columns[c] \in Content
  /\ forceKey \in BOOLEAN /\ attached \in BOOLEAN /\ resync \in BOOLEAN
  /\ keyed \in BOOLEAN /\ superseded \in BOOLEAN
  /\ built = NoFrame \/ IsKey(built) \/ IsDelta(built)
  /\ pending = NoFrame \/ IsKey(pending) \/ IsDelta(pending)

(* The frame that was built last and that the client has not got yet. *)
OnWay == IF built = NoFrame THEN pending ELSE built

(* A Tick starts by dropping an unread delta, and builds a delta only for *)
(* a client that is not waiting for a keyframe.                           *)
Turns ==
  /\ built # NoFrame => attached /\ ~IsDelta(pending)
  /\ IsDelta(built) => pending = NoFrame /\ ~resync
  /\ resync => pending = NoFrame /\ sentColumns = {}

(* What the subscriber counts as sent, the client holds. *)
Held ==
  /\ ~IsKey(pending) => sentColumns \subseteq DOMAIN view.columns
  /\ (attached /\ ~resync /\ ~IsKey(pending)) \/ IsDelta(pending) => keyed

(* Within one dimension blocks are only ever added to those of the last   *)
(* projection, so the new ones are the difference.                        *)
Grown ==
  prev # NoView /\ ~forceKey =>
    \A c \in DOMAIN prev.columns : prev.columns[c].blocks \subseteq terrain[c].blocks

(* Whole columns in the frame on its way are those of the last projection, *)
(* and a keyframe is all of it.                                           *)
Fresh ==
  /\ attached /\ OnWay # NoFrame =>
       \A c \in DOMAIN OnWay.columns :
          c \in DOMAIN prev.columns /\ OnWay.columns[c] = prev.columns[c]
  /\ attached /\ IsKey(OnWay) =>
       OnWay.entitiesAdded = prev.entities /\ ~superseded /\ resent = {}

(* A delta patches and removes only what is counted as sent. *)
DeltaShape ==
  IsDelta(OnWay) =>
    /\ DOMAIN OnWay.blocks \subseteq (sentColumns \cap DOMAIN prev.columns) \ DOMAIN OnWay.columns
    /\ OnWay.removed = sentColumns \ DOMAIN prev.columns

(* With a base and no keyframe on its way, the delta on its way, if there  *)
(* is one, takes the columns counted as sent and, if none was superseded,  *)
(* the entities to the last projection; else they are there already.       *)
NoKeyComing == attached /\ ~resync /\ ~IsKey(pending) /\ ~IsKey(built)
Coming(c) == IF IsDelta(OnWay) /\ c \in DOMAIN OnWay.blocks
               THEN Patched(view.columns[c], OnWay.blocks[c]) ELSE view.columns[c]
EntitiesComing ==
  IF IsDelta(OnWay) THEN (view.entities \ OnWay.entitiesRemoved) \cup OnWay.entitiesAdded
                    ELSE view.entities
Current ==
  NoKeyComing =>
    /\ OnWay = NoFrame => sentColumns \subseteq DOMAIN prev.columns
    /\ \A c \in (sentColumns \cap DOMAIN prev.columns) \ resent : Coming(c) = prev.columns[c]
    /\ ~superseded => EntitiesComing = prev.entities

IInv == TypeOK /\ Turns /\ Held /\ Grown /\ Fresh /\ DeltaShape /\ Current

-----------------------------------------------------------------------------
(* The operators. *)

(* A batch of columns is taken from the columns that wait. *)
LEMMA BatchIn ==
  ASSUME NEW S, NEW b \in Batch(S) PROVE b \subseteq S
  BY DEF Batch, kSubset

(* A patch with the blocks that are new makes the old column the new one. *)
LEMMA PatchIsDifference ==
  ASSUME NEW old \in Content, NEW new \in Content,
         old.light = new.light, old.blocks \subseteq new.blocks
  PROVE  Patched(old, new.blocks \ old.blocks) = new
  BY DEF Patched, Content

(* Without new blocks there is nothing to patch. *)
LEMMA NothingNew ==
  ASSUME NEW old \in Content, NEW new \in Content,
         old.light = new.light, old.blocks \subseteq new.blocks, new.blocks \ old.blocks = {}
  PROVE  old = new
  BY DEF Content

(* A frame is of one kind. *)
LEMMA OneKind ==
  /\ ~IsKey(NoFrame) /\ ~IsDelta(NoFrame)
  /\ \A f : ~(IsKey(f) /\ IsDelta(f))
  BY DEF IsKey, IsDelta, NoFrame

-----------------------------------------------------------------------------
(* The invariant holds at the start: nobody is attached. *)
LEMMA InitHolds == ASSUME ViewerStreamAssumption PROVE Init => IInv
<1> SUFFICES ASSUME Init PROVE IInv
  OBVIOUS
<1>1. TypeOK
  BY DEF Init, TypeOK, Content
<1>2. OnWay = NoFrame
  BY DEF Init, OnWay
<1>3. Turns /\ Held /\ Grown
  BY OneKind DEF Init, Turns, Held, Grown
<1>4. Fresh /\ DeltaShape /\ Current
  BY <1>2, OneKind DEF Init, Fresh, DeltaShape, Current, NoKeyComing
<1> QED
  BY <1>1, <1>3, <1>4 DEF IInv

(* A change of the world within a dimension disturbs nothing that relates  *)
(* the client to the last projection.                                      *)
LEMMA ChangeKeeps ==
  ASSUME IInv, Change, UNCHANGED <<forceKey, subVars>>,
         terrain' \in [Column -> Content], loaded' \subseteq Column,
         \A c \in Column : terrain[c].blocks \subseteq terrain'[c].blocks
  PROVE  IInv'
<1> USE DEF IInv
<1>1. UNCHANGED <<prev, forceKey, attached, built, clientVars, historyVars, subVars>>
  BY DEF Change
<1>2. TypeOK'
  BY <1>1 DEF TypeOK, Change, clientVars, historyVars, subVars, IsKey, IsDelta
<1>3. OnWay' = OnWay
  BY <1>1 DEF OnWay, subVars
<1>4. Turns' /\ Held'
  BY <1>1 DEF Turns, Held, clientVars, historyVars, subVars, IsKey, IsDelta
<1>5. Grown'
  BY <1>1 DEF Grown, TypeOK
<1>6. Fresh' /\ DeltaShape'
  BY <1>1, <1>3 DEF Fresh, DeltaShape, clientVars, historyVars, subVars, IsKey, IsDelta
<1>7. Current'
  BY <1>1, <1>3 DEF Current, NoKeyComing, Coming, EntitiesComing, Patched, clientVars,
       historyVars, subVars, IsKey, IsDelta
<1> QED
  BY <1>2, <1>4, <1>5, <1>6, <1>7

LEMMA WorldKeeps ==
  ASSUME ViewerStreamAssumption, IInv,
         \/ \E c \in Column : ChangeBlocks(c) \/ ChangeLight(c) \/ LoadOrUnload(c)
         \/ \E e \in Entity : SpawnOrDespawn(e)
  PROVE  IInv'
<1> USE DEF IInv, TypeOK, Content
<1>0. ASSUME Change PROVE changes + 1 \in Nat
  BY <1>0 DEF Change
<1>1. ASSUME NEW c \in Column, ChangeBlocks(c) PROVE IInv'
  <2>1. terrain' \in [Column -> Content] /\ loaded' \subseteq Column
    BY <1>0, <1>1 DEF ChangeBlocks
  <2>2. \A d \in Column : terrain[d].blocks \subseteq terrain'[d].blocks
    BY <1>1 DEF ChangeBlocks
  <2> QED
    BY <1>1, <2>1, <2>2, ChangeKeeps DEF ChangeBlocks
<1>2. ASSUME NEW c \in Column, ChangeLight(c) PROVE IInv'
  <2>1. terrain' \in [Column -> Content] /\ loaded' \subseteq Column
    BY <1>0, <1>2 DEF ChangeLight
  <2>2. \A d \in Column : terrain[d].blocks \subseteq terrain'[d].blocks
    BY <1>2 DEF ChangeLight
  <2> QED
    BY <1>2, <2>1, <2>2, ChangeKeeps DEF ChangeLight
<1>3. ASSUME NEW c \in Column, LoadOrUnload(c) PROVE IInv'
  <2>1. terrain' = terrain /\ loaded' \subseteq Column
    BY <1>3 DEF LoadOrUnload
  <2> QED
    BY <1>3, <2>1, ChangeKeeps DEF LoadOrUnload
<1>4. ASSUME NEW e \in Entity, SpawnOrDespawn(e) PROVE IInv'
  BY <1>4, ChangeKeeps DEF SpawnOrDespawn
<1> QED
  BY <1>1, <1>2, <1>3, <1>4

(* A change of dimension takes the client's base away. *)
LEMMA DimensionKeeps ==
  ASSUME ViewerStreamAssumption, IInv, DimensionChanged PROVE IInv'
<1> USE DEF IInv
<1>1. built = NoFrame /\ UNCHANGED <<prev, attached, built, clientVars, historyVars>>
  BY DEF DimensionChanged, Change
<1>2. changes' \in Nat
  BY DEF DimensionChanged, Change, TypeOK
<1>3. terrain' \in [Column -> Content]
  BY DEF DimensionChanged, Change, TypeOK, Content
<1>4. \/ resync' = TRUE /\ sentColumns' = {} /\ pending' = NoFrame /\ attached'
      \/ UNCHANGED subVars /\ ~attached'
  BY <1>1 DEF DimensionChanged, MarkResync, TypeOK
<1>5. TypeOK'
  BY <1>1, <1>2, <1>3, <1>4
  DEF TypeOK, DimensionChanged, clientVars, historyVars, subVars, IsKey, IsDelta
<1>6. Turns' /\ Held'
  BY <1>1, <1>4, OneKind DEF Turns, Held, clientVars, historyVars, subVars, IsKey, IsDelta
<1>7. Grown'
  BY DEF Grown, DimensionChanged, TypeOK
<1>8. OnWay' = NoFrame \/ (~attached' /\ OnWay' = OnWay /\ UNCHANGED subVars)
  BY <1>1, <1>4 DEF OnWay, subVars
<1>9. Fresh' /\ DeltaShape' /\ Current'
  BY <1>1, <1>4, <1>8, OneKind
  DEF Fresh, DeltaShape, Current, NoKeyComing, subVars, IsKey, IsDelta
<1> QED
  BY <1>5, <1>6, <1>7, <1>9

(* A client connects, waiting for its keyframe; or it is gone. *)
LEMMA ConnectionKeeps ==
  ASSUME ViewerStreamAssumption, IInv, Attach \/ Detach PROVE IInv'
<1> USE DEF IInv
<1>1. CASE Attach
  <2>1. built' = NoFrame /\ pending' = NoFrame /\ OnWay' = NoFrame
    BY <1>1, OneKind DEF Attach, Turns, TypeOK, OnWay
  <2>2. TypeOK'
    BY <1>1, <2>1 DEF Attach, TypeOK, worldVars, encoderVars
  <2>3. Turns' /\ Held' /\ Grown'
    BY <1>1, <2>1, OneKind DEF Attach, Turns, Held, Grown, worldVars, encoderVars
  <2>4. Fresh' /\ DeltaShape' /\ Current'
    BY <1>1, <2>1, OneKind DEF Attach, Fresh, DeltaShape, Current, NoKeyComing
  <2> QED
    BY <2>2, <2>3, <2>4
<1>2. CASE Detach
  <2>1. built' = NoFrame /\ OnWay' = pending' /\ pending' = pending /\ ~attached'
    BY <1>2 DEF Detach, OnWay, subVars
  <2>2. TypeOK'
    BY <1>2, <2>1 DEF Detach, TypeOK, worldVars, encoderVars, subVars, clientVars, historyVars,
         IsKey, IsDelta
  <2>3. Turns' /\ Held' /\ Grown'
    BY <1>2, <2>1, OneKind DEF Detach, Turns, Held, Grown, worldVars, encoderVars, subVars,
         clientVars, IsKey, IsDelta
  <2>4. IsDelta(pending) => built = NoFrame
    BY DEF Turns
  <2>5. DeltaShape'
    BY <1>2, <2>1, <2>4 DEF Detach, DeltaShape, OnWay, subVars, encoderVars, IsDelta
  <2>6. Fresh' /\ Current'
    BY <2>1 DEF Fresh, Current, NoKeyComing
  <2> QED
    BY <2>2, <2>3, <2>5, <2>6
<1> QED
  BY <1>1, <1>2

(* The projection is the world as it is. *)
LEMMA ProjectionTyped ==
  ASSUME TypeOK, prev' = project, UNCHANGED terrain
  PROVE  /\ DOMAIN prev'.columns = loaded
         /\ \A c \in loaded : c \in Column /\ prev'.columns[c] = terrain[c]
                                          /\ prev'.columns[c] \in Content
         /\ prev'.entities = entities
  BY DEF TypeOK, project

(* A keyframe is built: for a subscriber that lost its base, or that has   *)
(* not read the last keyframe.                                             *)
LEMMA KeyframeKeeps ==
  ASSUME ViewerStreamAssumption, IInv, Encode, EncodeKeyframe,
         prev = NoView \/ forceKey \/ NeedKey
  PROVE  IInv'
<1> USE DEF IInv
<1>1. /\ built = NoFrame /\ attached /\ attached' /\ prev' = project /\ forceKey' = FALSE
      /\ UNCHANGED <<terrain, loaded, entities, changes, attached, keyed, view>>
  BY DEF Encode, TypeOK, worldVars, clientVars
<1>2. PICK batch \in Batch(loaded) :
        built' = [event |-> "keyframe", columns |-> Restrict(project.columns, batch),
                  removed |-> {}, blocks |-> NoColumns,
                  entitiesAdded |-> entities, entitiesRemoved |-> {},
                  left |-> Cardinality(loaded \ batch)]
  BY DEF EncodeKeyframe
<1>3. IsKey(built') /\ ~IsDelta(built') /\ built' # NoFrame /\ OnWay' = built'
  BY <1>2 DEF IsKey, IsDelta, NoFrame, OnWay
<1>4. \/ resync' = TRUE /\ sentColumns' = {} /\ pending' = NoFrame
      \/ /\ sentColumns' = Release /\ resync' = resync
         /\ pending' = (IF IsDelta(pending) THEN NoFrame ELSE pending)
         /\ resync \/ IsKey(pending)
  BY DEF Encode, MarkResync, NeedKey
<1>5. Release \subseteq sentColumns
  BY DEF Release
<1>6. \/ resync' /\ sentColumns' = {} /\ pending' = NoFrame
      \/ ~resync' /\ IsKey(pending') /\ pending' = pending /\ UNCHANGED resync
  BY <1>4, <1>5, OneKind DEF Turns, TypeOK
<1>7. superseded' = FALSE /\ resent' = {}
  BY DEF EncodeKeyframe
<1>8. /\ DOMAIN prev'.columns = loaded
      /\ \A c \in loaded : c \in Column /\ prev'.columns[c] = terrain[c]
                                       /\ prev'.columns[c] \in Content
      /\ prev'.entities = entities
  BY <1>1, ProjectionTyped
<1>9. TypeOK'
  <2>1. pending' = NoFrame \/ IsKey(pending')
    BY <1>6
  <2>2. resync' \in BOOLEAN /\ superseded' \in BOOLEAN
    BY <1>6, <1>7 DEF TypeOK
  <2> QED
    BY <1>1, <1>3, <1>8, <2>1, <2>2 DEF TypeOK, IsKey, IsDelta
<1>10. Turns'
  BY <1>1, <1>3, <1>6, OneKind DEF Turns, IsKey, IsDelta
<1>11. Held'
  BY <1>1, <1>6, OneKind DEF Held, IsKey, IsDelta
<1>12. Grown'
  BY <1>1, <1>8 DEF Grown
<1>13. Fresh'
  <2>1. \A c \in DOMAIN built'.columns : c \in loaded /\ built'.columns[c] = terrain[c]
    BY <1>2, BatchIn DEF Restrict, project
  <2>2. built'.entitiesAdded = entities
    BY <1>2
  <2> QED
    BY <1>3, <1>7, <1>8, <2>1, <2>2 DEF Fresh
<1>14. DeltaShape' /\ Current'
  BY <1>3 DEF DeltaShape, Current, NoKeyComing, IsKey, IsDelta
<1> QED
  BY <1>9, <1>10, <1>11, <1>12, <1>13, <1>14

(* A delta is built for a client with a base.  Dropping the unread delta   *)
(* takes the columns it was to patch from those counted as sent; what the  *)
(* client has of the others is the last projection, and is patched.        *)
LEMMA DeltaKeeps ==
  ASSUME ViewerStreamAssumption, IInv, Encode, EncodeDelta,
         prev # NoView, ~forceKey, ~NeedKey,
         sentColumns' = Release, UNCHANGED resync,
         pending' = IF IsDelta(pending) THEN NoFrame ELSE pending
  PROVE  IInv'
<1> USE DEF IInv
<1>1. /\ built = NoFrame /\ attached /\ attached' /\ prev' = project /\ forceKey' = FALSE
      /\ UNCHANGED <<terrain, loaded, entities, changes, attached, keyed, view>>
  BY DEF Encode, TypeOK, worldVars, clientVars
<1>2. ~resync /\ ~resync' /\ ~IsKey(pending) /\ pending' = NoFrame
  BY DEF NeedKey, TypeOK
<1>3. PICK claimed, batch :
        /\ claimed = (Release \cap loaded) \ ColumnsAdded
        /\ batch \in Batch(loaded \ claimed)
        /\ built' = [event |-> "delta", columns |-> Restrict(project.columns, batch),
                     removed |-> Release \ loaded,
                     blocks |-> [c \in {c \in claimed : Blocks(c) # {}} |-> Blocks(c)],
                     entitiesAdded |-> entities \ prev.entities,
                     entitiesRemoved |-> prev.entities \ entities,
                     left |-> Cardinality(loaded \ (claimed \cup batch))]
  BY DEF EncodeDelta
<1>4. IsDelta(built') /\ ~IsKey(built') /\ built' # NoFrame /\ OnWay' = built'
  BY <1>3 DEF IsKey, IsDelta, NoFrame, OnWay
<1>5. batch \subseteq loaded \ claimed
  BY <1>3, BatchIn
<1>6. superseded' = (superseded \/ IsDelta(pending)) /\ resent' = resent \cup (Release \cap ColumnsAdded)
  BY DEF EncodeDelta
<1>7. /\ DOMAIN prev'.columns = loaded
      /\ \A c \in loaded : c \in Column /\ prev'.columns[c] = terrain[c]
                                       /\ prev'.columns[c] \in Content
      /\ prev'.entities = entities
  BY <1>1, ProjectionTyped
<1>8. /\ DOMAIN built'.columns = batch
      /\ \A c \in batch : built'.columns[c] = terrain[c]
  BY <1>3, <1>5 DEF Restrict, project
<1>9. /\ DOMAIN built'.blocks = {c \in claimed : Blocks(c) # {}}
      /\ \A c \in claimed : Blocks(c) # {} => built'.blocks[c] = Blocks(c)
  BY <1>3
<1>10. Release \subseteq sentColumns
  BY DEF Release
<1>11. ~IsKey(pending) /\ OnWay = pending /\ NoKeyComing
  BY <1>1, <1>2, OneKind DEF OnWay, NoKeyComing
<1>12. TypeOK'
  <2>1. superseded' \in BOOLEAN
    BY <1>6 DEF TypeOK
  <2> QED
    BY <1>1, <1>2, <1>4, <1>7, <2>1 DEF TypeOK, IsKey, IsDelta
<1>13. Turns'
  BY <1>1, <1>2, <1>4, OneKind DEF Turns, IsKey, IsDelta
<1>14. Held'
  BY <1>1, <1>2, <1>10, OneKind DEF Held, IsKey, IsDelta
<1>15. Grown'
  BY <1>1, <1>7 DEF Grown
<1>16. Fresh'
  BY <1>4, <1>5, <1>7, <1>8 DEF Fresh, IsKey
<1>17. DeltaShape'
  <2>1. built'.removed = Release \ loaded
    BY <1>3
  <2>2. claimed \subseteq Release \cap loaded
    BY <1>3
  <2> QED
    BY <1>4, <1>5, <1>7, <1>8, <1>9, <2>1, <2>2 DEF DeltaShape, IsDelta
<1>18. ASSUME NEW c \in (sentColumns' \cap DOMAIN prev'.columns) \ resent'
       PROVE  Coming(c)' = prev'.columns[c]
  <2>1. c \in claimed /\ c \in sentColumns /\ c \notin resent /\ c \in Column /\ c \in loaded
    BY <1>3, <1>6, <1>7, <1>10
  <2>2. c \in DOMAIN prev.columns /\ prev.columns[c].light = terrain[c].light
    BY <1>3, <2>1 DEF ColumnsAdded, Refreshed
  <2>3. prev.columns[c] \in Content /\ terrain[c] \in Content
    BY <2>1, <2>2 DEF TypeOK
  <2>4. prev.columns[c].blocks \subseteq terrain[c].blocks
    BY <2>2 DEF Grown
  <2>5. Coming(c) = view.columns[c]
    BY <1>11, <2>1, <1>18 DEF Coming, Release
  <2>6. view.columns[c] = prev.columns[c]
    BY <1>11, <2>1, <2>2, <2>5 DEF Current
  <2>7. prev'.columns[c] = terrain[c]
    BY <1>7, <2>1
  <2>8. Blocks(c) = terrain[c].blocks \ prev.columns[c].blocks
    BY <2>2 DEF Blocks
  <2>9. CASE Blocks(c) = {}
    <3>1. c \notin DOMAIN built'.blocks
      BY <1>9, <2>9
    <3>2. Coming(c)' = view'.columns[c]
      BY <1>4, <3>1 DEF Coming
    <3>3. prev.columns[c] = terrain[c]
      BY <2>2, <2>3, <2>4, <2>8, <2>9, NothingNew
    <3> QED
      BY <1>1, <2>6, <2>7, <3>2, <3>3
  <2>10. CASE Blocks(c) # {}
    <3>1. c \in DOMAIN built'.blocks /\ built'.blocks[c] = Blocks(c)
      BY <1>9, <2>1, <2>10
    <3>2. Coming(c)' = Patched(view'.columns[c], built'.blocks[c])
      BY <1>4, <3>1 DEF Coming, Patched, IsDelta
    <3>3. Patched(prev.columns[c], Blocks(c)) = terrain[c]
      BY <2>2, <2>3, <2>4, <2>8, PatchIsDifference
    <3> QED
      BY <1>1, <2>6, <2>7, <3>1, <3>2, <3>3
  <2> QED
    BY <2>9, <2>10
<1>19. ASSUME ~superseded' PROVE EntitiesComing' = prev'.entities
  <2>1. ~superseded /\ ~IsDelta(pending)
    BY <1>6, <1>19
  <2>2. view.entities = prev.entities
    BY <1>11, <2>1 DEF Current, EntitiesComing
  <2>3. EntitiesComing' = (view'.entities \ built'.entitiesRemoved) \cup built'.entitiesAdded
    BY <1>4 DEF EntitiesComing, IsDelta
  <2>4. built'.entitiesRemoved = prev.entities \ entities /\ built'.entitiesAdded = entities \ prev.entities
    BY <1>3
  <2>5. EntitiesComing' = (prev.entities \ (prev.entities \ entities)) \cup (entities \ prev.entities)
    BY <1>1, <2>2, <2>3, <2>4
  <2>6. EntitiesComing' = entities
    BY <2>5
  <2> QED
    BY <1>7, <2>6
<1>20. Current'
  BY <1>4, <1>18, <1>19 DEF Current
<1> QED
  BY <1>12, <1>13, <1>14, <1>15, <1>16, <1>17, <1>20

LEMMA EncodeKeeps == ASSUME ViewerStreamAssumption, IInv, Encode PROVE IInv'
<1>1. CASE prev = NoView \/ forceKey
  BY <1>1, KeyframeKeeps DEF Encode
<1>2. CASE ~(prev = NoView \/ forceKey) /\ NeedKey
  BY <1>2, KeyframeKeeps DEF Encode
<1>3. CASE ~(prev = NoView \/ forceKey) /\ ~NeedKey
  BY <1>3, DeltaKeeps DEF Encode
<1> QED
  BY <1>1, <1>2, <1>3

(* The frame built becomes the pending one: the same frame is on its way. *)
LEMMA PushKeeps == ASSUME ViewerStreamAssumption, IInv, PushWorld PROVE IInv'
<1> USE DEF IInv
<1>1. /\ built # NoFrame /\ built' = NoFrame /\ attached /\ attached'
      /\ UNCHANGED <<terrain, loaded, entities, changes, prev, forceKey, attached, keyed, view,
                     superseded, resent>>
  BY DEF PushWorld, Turns, TypeOK, worldVars, encoderVars, clientVars, historyVars
<1>2. ~(IsKey(pending) /\ IsDelta(built)) /\ ~IsDelta(pending)
  BY <1>1, OneKind DEF Turns
<1>3. pending' = built /\ sentColumns' = (IF IsKey(pending) THEN {} ELSE sentColumns)
      /\ resync' = (resync /\ ~IsKey(built))
  BY <1>2 DEF PushWorld, Release
<1>4. OnWay = built /\ OnWay' = built
  BY <1>1, <1>3, OneKind DEF OnWay
<1>5. IsKey(built) \/ (IsDelta(built) /\ pending = NoFrame /\ ~resync)
  BY <1>1 DEF TypeOK, Turns
<1>6. (IsKey(built) /\ ~resync') \/ (IsDelta(built) /\ ~IsKey(built) /\ UNCHANGED <<resync, sentColumns>>)
  BY <1>3, <1>5, OneKind DEF TypeOK
<1>7. TypeOK'
  <2>1. resync' \in BOOLEAN
    BY <1>3 DEF TypeOK
  <2> QED
    BY <1>1, <1>3, <1>5, <2>1 DEF TypeOK, IsKey, IsDelta
<1>8. Turns'
  BY <1>1, <1>5, <1>6, OneKind DEF Turns, IsDelta
<1>9. Held'
  BY <1>1, <1>3, <1>5, <1>6, OneKind DEF Held, IsKey, IsDelta
<1>10. Grown'
  BY <1>1 DEF Grown
<1>11. Fresh'
  BY <1>1, <1>4 DEF Fresh, IsKey
<1>12. DeltaShape'
  BY <1>1, <1>4, <1>6, OneKind DEF DeltaShape, IsDelta
<1>13. Current'
  BY <1>1, <1>3, <1>4, <1>5, <1>6, OneKind
  DEF Current, NoKeyComing, Coming, EntitiesComing, Patched, IsKey, IsDelta
<1> QED
  BY <1>7, <1>8, <1>9, <1>10, <1>11, <1>12, <1>13

(* The client applies the pending frame: a keyframe gives it a base, a     *)
(* delta does what it was built to do.                                     *)
LEMMA TakeKeeps == ASSUME ViewerStreamAssumption, IInv, TakeFrame PROVE IInv'
<1> USE DEF IInv
<1>1. /\ attached /\ attached' /\ pending # NoFrame /\ pending' = NoFrame
      /\ UNCHANGED <<terrain, loaded, entities, changes, prev, forceKey, attached, built, resync,
                     superseded, resent>>
  BY DEF TakeFrame, TypeOK, worldVars, encoderVars, historyVars
<1>2. ~resync
  BY <1>1 DEF Turns
<1>3. /\ sentColumns' = (IF IsKey(pending) THEN {} ELSE sentColumns \ pending.removed)
                           \cup DOMAIN pending.columns
      /\ view' = Apply(view, pending)
      /\ keyed' = (keyed \/ IsKey(pending))
  BY DEF TakeFrame
<1>4. IsKey(pending) \/ (IsDelta(pending) /\ ~IsKey(pending) /\ built = NoFrame)
  BY <1>1, OneKind DEF TypeOK, Turns
<1>5. keyed'
  BY <1>3, <1>4 DEF Held
<1>6. IsKey(pending) => /\ view'.columns = pending.columns
                        /\ view'.entities = pending.entitiesAdded
  BY <1>3 DEF Apply
<1>7. ASSUME ~IsKey(pending)
      PROVE  /\ view'.columns =
                   [c \in (DOMAIN view.columns \ pending.removed) \cup DOMAIN pending.columns |->
                      LET column == IF c \in DOMAIN pending.columns
                                      THEN pending.columns[c] ELSE view.columns[c]
                      IN  IF c \in DOMAIN pending.blocks
                            THEN Patched(column, pending.blocks[c]) ELSE column]
             /\ view'.entities = (view.entities \ pending.entitiesRemoved)
                                   \cup pending.entitiesAdded
  BY <1>3, <1>7 DEF Apply
<1>8. TypeOK'
  BY <1>1, <1>5 DEF TypeOK, IsKey, IsDelta
<1>9. Turns'
  BY <1>1, <1>2, OneKind DEF Turns, IsDelta
<1>10. Held'
  <2>1. CASE IsKey(pending)
    BY <1>1, <1>3, <1>5, <1>6, <2>1 DEF Held
  <2>2. CASE ~IsKey(pending)
    <3>1. DOMAIN view'.columns = (DOMAIN view.columns \ pending.removed) \cup DOMAIN pending.columns
      BY <1>7, <2>2
    <3> QED
      BY <1>3, <1>5, <2>2, <3>1 DEF Held
  <2> QED
    BY <2>1, <2>2
<1>11. Grown'
  BY <1>1 DEF Grown
<1>12. Fresh'
  BY <1>1, OneKind DEF Fresh, OnWay, IsKey
<1>13. DeltaShape'
  BY <1>1, <1>4, OneKind DEF DeltaShape, OnWay, Turns, IsDelta, IsKey
<1>14. ASSUME NoKeyComing' PROVE Current'
  <2>1. built = NoFrame /\ built' = NoFrame /\ OnWay' = NoFrame
    <3>1. built = NoFrame \/ IsKey(built) \/ IsDelta(built)
      BY DEF TypeOK
    <3>2. ~IsKey(built)
      BY <1>1, <1>14 DEF NoKeyComing, IsKey
    <3>3. ~IsDelta(built)
      BY <1>1 DEF Turns
    <3> QED
      BY <1>1, <3>1, <3>2, <3>3 DEF OnWay
  <2>2. OnWay = pending
    BY <2>1 DEF OnWay
  <2>3. /\ EntitiesComing' = view'.entities
        /\ \A c : Coming(c)' = view'.columns[c]
    BY <2>1, OneKind DEF EntitiesComing, Coming, IsDelta
  <2>4. \A c \in DOMAIN pending.columns :
           c \in DOMAIN prev.columns /\ pending.columns[c] = prev.columns[c]
    BY <1>1, <2>2 DEF Fresh
  <2>5. CASE IsKey(pending)
    <3>1. sentColumns' = DOMAIN pending.columns
      BY <1>3, <2>5
    <3>2. view'.entities = prev'.entities
      BY <1>1, <1>6, <2>2, <2>5 DEF Fresh
    <3> QED
      BY <1>1, <1>6, <2>3, <2>4, <2>5, <3>1, <3>2 DEF Current
  <2>6. CASE IsDelta(pending) /\ ~IsKey(pending)
    <3>1. NoKeyComing
      BY <1>1, <1>2, <2>1, <2>6, OneKind DEF NoKeyComing
    <3>2. /\ DOMAIN pending.blocks \subseteq (sentColumns \cap DOMAIN prev.columns)
                                               \ DOMAIN pending.columns
          /\ pending.removed = sentColumns \ DOMAIN prev.columns
      BY <2>2, <2>6 DEF DeltaShape
    <3>3. sentColumns' = (sentColumns \ pending.removed) \cup DOMAIN pending.columns
      BY <1>3, <2>6
    <3>4. sentColumns' \subseteq DOMAIN prev'.columns
      BY <1>1, <2>4, <3>2, <3>3
    <3>5. ASSUME NEW c \in (sentColumns' \cap DOMAIN prev'.columns) \ resent'
          PROVE  view'.columns[c] = prev'.columns[c]
      <4>1. CASE c \in DOMAIN pending.columns
        <5>1. view'.columns[c] = pending.columns[c]
          BY <1>7, <2>6, <3>2, <4>1
        <5> QED
          BY <1>1, <2>4, <4>1, <5>1
      <4>2. CASE c \notin DOMAIN pending.columns
        <5>1. c \in sentColumns \ pending.removed /\ c \in DOMAIN prev.columns /\ c \notin resent
          BY <1>1, <3>3, <3>5, <4>2
        <5>2. c \in DOMAIN view.columns \ pending.removed
          BY <2>6, <5>1 DEF Held
        <5>3. Coming(c) = prev.columns[c]
          BY <3>1, <5>1 DEF Current
        <5>4. Coming(c) = IF c \in DOMAIN pending.blocks
                            THEN Patched(view.columns[c], pending.blocks[c]) ELSE view.columns[c]
          BY <2>2, <2>6 DEF Coming
        <5>5. view'.columns[c] = IF c \in DOMAIN pending.blocks
                                   THEN Patched(view.columns[c], pending.blocks[c])
                                   ELSE view.columns[c]
          BY <1>7, <2>6, <4>2, <5>2
        <5> QED
          BY <1>1, <5>3, <5>4, <5>5
      <4> QED
        BY <4>1, <4>2
    <3>6. ASSUME ~superseded' PROVE view'.entities = prev'.entities
      <4>1. EntitiesComing = prev.entities
        BY <1>1, <3>1, <3>6 DEF Current
      <4>2. EntitiesComing = (view.entities \ pending.entitiesRemoved) \cup pending.entitiesAdded
        BY <2>2, <2>6 DEF EntitiesComing
      <4> QED
        BY <1>1, <1>7, <2>6, <4>1, <4>2
    <3> QED
      BY <1>1, <2>3, <3>4, <3>5, <3>6 DEF Current
  <2> QED
    BY <1>4, <2>5, <2>6
<1> QED
  BY <1>8, <1>9, <1>10, <1>11, <1>12, <1>13, <1>14 DEF Current

-----------------------------------------------------------------------------
LEMMA StutterKeeps == ASSUME IInv, UNCHANGED vars PROVE IInv'
<1> USE DEF IInv, vars, worldVars, encoderVars, subVars, clientVars, historyVars
<1>1. TypeOK' /\ Turns' /\ Held' /\ Grown'
  BY DEF TypeOK, Turns, Held, Grown, IsKey, IsDelta
<1>2. OnWay' = OnWay
  BY DEF OnWay
<1>3. Fresh' /\ DeltaShape'
  BY <1>2 DEF Fresh, DeltaShape, IsKey, IsDelta
<1>4. Current'
  BY <1>2 DEF Current, NoKeyComing, Coming, EntitiesComing, Patched, IsKey, IsDelta
<1> QED
  BY <1>1, <1>3, <1>4

LEMMA NextKeeps == ASSUME ViewerStreamAssumption, IInv, [Next]_vars PROVE IInv'
<1>1. CASE \/ \E c \in Column : ChangeBlocks(c) \/ ChangeLight(c) \/ LoadOrUnload(c)
           \/ \E e \in Entity : SpawnOrDespawn(e)
  BY <1>1, WorldKeeps
<1>2. CASE DimensionChanged
  BY <1>2, DimensionKeeps
<1>3. CASE Encode
  BY <1>3, EncodeKeeps
<1>4. CASE PushWorld
  BY <1>4, PushKeeps
<1>5. CASE TakeFrame
  BY <1>5, TakeKeeps
<1>6. CASE Attach \/ Detach
  BY <1>6, ConnectionKeeps
<1>7. CASE UNCHANGED vars
  BY <1>7, StutterKeeps
<1> QED
  BY <1>1, <1>2, <1>3, <1>4, <1>5, <1>6, <1>7 DEF Next

(* The stream keeps its invariant, whenever the client reads, and however  *)
(* often it disconnects.                                                   *)
THEOREM Invariance == ASSUME ViewerStreamAssumption PROVE Spec => []IInv
<1>1. Init => IInv
  BY InitHolds
<1>2. IInv /\ [Next]_vars => IInv'
  BY NextKeeps
<1> QED
  BY <1>1, <1>2, PTL DEF Spec

(* frameFor and pushWorld: a delta reaches only a client that had a        *)
(* keyframe, and patches and removes only columns the client holds.        *)
THEOREM DeltasFit == ASSUME ViewerStreamAssumption PROVE Spec => []DeltaFitsClient
<1>1. IInv => DeltaFitsClient
  <2> SUFFICES ASSUME IInv, IsDelta(pending)
               PROVE  keyed /\ DOMAIN pending.blocks \cup pending.removed
                                   \subseteq DOMAIN view.columns
    BY DEF DeltaFitsClient
  <2>1. built = NoFrame /\ OnWay = pending
    BY DEF IInv, Turns, OnWay
  <2>2. DOMAIN pending.blocks \cup pending.removed \subseteq sentColumns
    BY <2>1 DEF IInv, DeltaShape
  <2> QED
    BY <2>2, OneKind DEF IInv, Held
<1> QED
  BY <1>1, Invariance, PTL

(* releasePendingDeltaLocked and applyColumnDelivery: whatever was         *)
(* superseded, a column counted as sent is, or becomes with the pending    *)
(* frame, what it was in the last projection; columns that had to be sent  *)
(* again are excepted.                                                     *)
THEOREM SentIsCurrent == ASSUME ViewerStreamAssumption PROVE Spec => []SentColumnsCurrent
<1>1. IInv => SentColumnsCurrent
  <2> SUFFICES ASSUME IInv, Based, NEW c \in Claimed \ resent
               PROVE  c \in DOMAIN Shown.columns /\ Shown.columns[c] = prev.columns[c]
    BY DEF SentColumnsCurrent
  <2> USE DEF IInv
  <2>1. built = NoFrame /\ OnWay = pending /\ NoKeyComing /\ ~IsKey(pending)
    BY OneKind DEF Based, OnWay, NoKeyComing
  <2>2. CASE pending = NoFrame
    <3>1. Claimed = sentColumns /\ Shown = view
      BY <2>2, OneKind DEF Claimed, Shown
    <3>2. c \in DOMAIN prev.columns /\ c \in DOMAIN view.columns
      BY <2>1, <2>2, <3>1 DEF Current, Held
    <3>3. Coming(c) = view.columns[c]
      BY <2>1, <2>2, OneKind DEF Coming
    <3>4. Coming(c) = prev.columns[c]
      BY <2>1, <3>1, <3>2 DEF Current
    <3> QED
      BY <3>1, <3>2, <3>3, <3>4
  <2>3. CASE IsDelta(pending)
    <3>1. Claimed = (sentColumns \ pending.removed) \cup DOMAIN pending.columns
      BY <2>3 DEF Claimed
    <3>2. Shown.columns =
            [d \in (DOMAIN view.columns \ pending.removed) \cup DOMAIN pending.columns |->
               LET column == IF d \in DOMAIN pending.columns
                               THEN pending.columns[d] ELSE view.columns[d]
               IN  IF d \in DOMAIN pending.blocks
                     THEN Patched(column, pending.blocks[d]) ELSE column]
      BY <2>1, <2>3 DEF Shown, Apply
    <3>3. /\ DOMAIN pending.blocks \subseteq (sentColumns \cap DOMAIN prev.columns)
                                               \ DOMAIN pending.columns
          /\ pending.removed = sentColumns \ DOMAIN prev.columns
      BY <2>1, <2>3 DEF DeltaShape
    <3>4. CASE c \in DOMAIN pending.columns
      <4>1. pending.columns[c] = prev.columns[c]
        BY <2>1, <2>3, <3>4, OneKind DEF Fresh, NoKeyComing
      <4> QED
        BY <3>2, <3>3, <3>4, <4>1
    <3>5. CASE c \notin DOMAIN pending.columns
      <4>1. c \in sentColumns \ pending.removed /\ c \in DOMAIN prev.columns
        BY <3>1, <3>3, <3>5
      <4>2. c \in DOMAIN view.columns
        BY <2>1, <4>1 DEF Held
      <4>3. Coming(c) = prev.columns[c]
        BY <2>1, <4>1 DEF Current
      <4>4. Coming(c) = IF c \in DOMAIN pending.blocks
                          THEN Patched(view.columns[c], pending.blocks[c]) ELSE view.columns[c]
        BY <2>1, <2>3 DEF Coming
      <4>5. Shown.columns[c] = IF c \in DOMAIN pending.blocks
                                 THEN Patched(view.columns[c], pending.blocks[c])
                                 ELSE view.columns[c]
        BY <3>2, <3>5, <4>1, <4>2
      <4>6. c \in DOMAIN Shown.columns
        BY <3>2, <4>1, <4>2
      <4> QED
        BY <4>3, <4>4, <4>5, <4>6
    <3> QED
      BY <3>4, <3>5
  <2> QED
    BY <2>1, <2>2, <2>3 DEF TypeOK
<1> QED
  BY <1>1, Invariance, PTL

(* frameFor: the entities of a delta are the difference to the last        *)
(* projection, so the client shows that projection's as long as it gets    *)
(* every delta since its keyframe.                                         *)
THEOREM EntitiesAreCurrent ==
  ASSUME ViewerStreamAssumption PROVE Spec => []EntitiesCurrentUnlessSuperseded
<1>1. IInv => EntitiesCurrentUnlessSuperseded
  <2> SUFFICES ASSUME IInv, Based, ~superseded PROVE Shown.entities = prev.entities
    BY DEF EntitiesCurrentUnlessSuperseded
  <2> USE DEF IInv
  <2>1. built = NoFrame /\ OnWay = pending /\ NoKeyComing /\ ~IsKey(pending)
    BY OneKind DEF Based, OnWay, NoKeyComing
  <2>2. EntitiesComing = prev.entities
    BY <2>1 DEF Current
  <2>3. CASE IsDelta(pending)
    <3>1. Shown.entities = (view.entities \ pending.entitiesRemoved) \cup pending.entitiesAdded
      BY <2>1, <2>3 DEF Shown, Apply
    <3> QED
      BY <2>1, <2>2, <2>3, <3>1 DEF EntitiesComing
  <2>4. CASE ~IsDelta(pending)
    BY <2>1, <2>2, <2>4 DEF EntitiesComing, Shown
  <2> QED
    BY <2>3, <2>4
<1> QED
  BY <1>1, Invariance, PTL
=============================================================================
