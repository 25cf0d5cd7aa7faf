---------------------------- MODULE EntityScene -----------------------------
(***************************************************************************)
(* One entity of the viewer page, from the frames that bring, change and   *)
(* remove it (viewer/src/store.ts) to the node that shows it               *)
(* (viewer/src/scene.ts): its model, its equipment and the animations the  *)
(* server plays on it.                                                     *)
(*                                                                         *)
(* The page has one thread; a model, a layer of armour or an item's        *)
(* texture is fetched, and its answer comes later, in any order, whatever  *)
(* has become of the node.  A load carries the number of the node it was   *)
(* started for and the token that node had.  Dropped items, which show a   *)
(* sprite for a model, are left out.                                       *)
(***************************************************************************)
EXTENDS Naturals, Sequences, FiniteSets

CONSTANTS
    Look,         \* what selects a model: type and skin
    Plain,        \* looks without animations of their own
    Gear,         \* equipment: armour and an item in the hand, or Bare
    Bare, None,
    EarlyMax,     \* plays kept for an entity that is not there yet (8)
    MaxFrames,    \* bound: frames about the entity
    MaxPlays      \* bound: animations the server plays

VARIABLES
    entity,          \* the entity in the store, or None
    node,            \* EntityNode, or None
    earlyAnims,      \* plays for the entity while it has no node
    loads,           \* fetches under way
    worldClearPending,
    entityRegistry,  \* is there an EntityModelRegistry?
    frameCount, playCount,
    unseen           \* plays since there was no node (history)

sceneVars == <<node, earlyAnims, loads, unseen>>
vars == <<entity, sceneVars, worldClearPending, entityRegistry, frameCount, playCount>>

Entity == [look : Look, gear : Gear]

Newest(plays) ==
    IF Len(plays) <= EarlyMax THEN plays ELSE SubSeq(plays, Len(plays) - EarlyMax + 1, Len(plays))

(* armour and sprites are what hangs on the model's bones.  Histories:     *)
(* overlapped, a load of equipment began while another for the same model  *)
(* was under way; due, the plays for this node; shown, those an animator   *)
(* of it was given.                                                        *)
NewNode(id, look, early, due) ==
    [id |-> id, look |-> look, token |-> 0, model |-> None, animator |-> FALSE,
     pendingAnims |-> early, gearKey |-> None, armour |-> {}, sprites |-> {},
     itemSprite |-> None, overlapped |-> FALSE, due |-> due, shown |-> <<>>]

Node == [id : Nat, look : Look, token : Nat, model : Look \cup {None}, animator : BOOLEAN,
         pendingAnims : Seq(Nat), gearKey : Gear \cup {None}, armour : SUBSET Gear,
         sprites : SUBSET Gear, itemSprite : Gear \cup {None}, overlapped : BOOLEAN,
         due : Seq(Nat), shown : Seq(Nat)]

EntityAssumption ==
    /\ None \notin Look \cup Gear \cup Entity \cup Node
    /\ EarlyMax \in Nat /\ MaxFrames \in Nat /\ MaxPlays \in Nat

-----------------------------------------------------------------------------
(* The pieces the handlers are made of, on a record of the scene.          *)

Scene == [node |-> node, loads |-> loads, early |-> earlyAnims, unseen |-> unseen]
Put(s) == node' = s.node /\ loads' = s.loads /\ earlyAnims' = s.early /\ unseen' = s.unseen

ClearGear(n) ==
    IF n.itemSprite # None /\ n.model # None
    THEN [n EXCEPT !.armour = {}, !.sprites = @ \ {n.itemSprite}, !.itemSprite = None]
    ELSE [n EXCEPT !.armour = {}]

ClearModel(n) ==
    [n EXCEPT !.model = None, !.animator = FALSE, !.armour = {}, !.sprites = {},
              !.itemSprite = None, !.gearKey = None, !.overlapped = FALSE]

Load(n, of, look, gear) ==
    [of |-> of, node |-> n.id, token |-> n.token, look |-> look, gear |-> gear]

MutantRequest(s, e, registry) ==
    IF ~registry THEN s
    ELSE [s EXCEPT !.loads = @ \cup {Load(s.node, "model", e.look, e.gear)}]
RequestEntityModel(s, e, registry) ==
    IF ~registry THEN s
    ELSE LET n == [s.node EXCEPT !.token = @ + 1]
         IN  [s EXCEPT !.node = n, !.loads = @ \cup {Load(n, "model", e.look, e.gear)}]

LoadsGear(l, n) == l.of # "model" /\ l.node = n.id /\ l.token = n.token

(* Nothing without a model, nor for the equipment of the last call.  The   *)
(* token stays as it is.                                                   *)
MutantSyncGear(s, gear) ==
    IF s.node.model = None THEN s
    ELSE LET n == ClearGear(s.node)
             busy == \E l \in s.loads : LoadsGear(l, n)
         IN  [s EXCEPT !.node = [n EXCEPT !.gearKey = gear, !.overlapped = @ \/ busy],
                       !.loads = IF gear = Bare THEN @
                                 ELSE @ \cup {Load(s.node, "armour", s.node.look, gear)}]
SyncEntityGear(s, gear) ==
    IF s.node.model = None \/ gear = s.node.gearKey THEN s
    ELSE LET n == ClearGear(s.node)
             busy == \E l \in s.loads : LoadsGear(l, n)
         IN  [s EXCEPT !.node = [n EXCEPT !.gearKey = gear, !.overlapped = @ \/ busy],
                       !.loads = IF gear = Bare THEN @
                                 ELSE @ \cup {Load(s.node, "armour", s.node.look, gear)}]

(* upsertEntity: another look means another model, and a node that has     *)
(* none yet asks again.                                                    *)
Upsert(s, e) ==
    IF s.node = None
    THEN RequestEntityModel([s EXCEPT !.node = NewNode(frameCount + 1, e.look, s.early, Newest(s.unseen)),
                                      !.early = <<>>, !.unseen = <<>>], e, entityRegistry)
    ELSE SyncEntityGear(
           IF s.node.look # e.look
           THEN RequestEntityModel([s EXCEPT !.node = ClearModel([@ EXCEPT !.look = e.look])],
                                   e, entityRegistry)
           ELSE IF s.node.model = None THEN RequestEntityModel(s, e, entityRegistry)
           ELSE s,
           e.gear)

(* removeEntity: the plays that wait go with the node. *)
RemoveEntity(s) ==
    IF s.node = None THEN s
    ELSE [s EXCEPT !.node = None, !.early = <<>>, !.unseen = <<>>]

-----------------------------------------------------------------------------
(* Frames.                                                                 *)

Counted ==
    /\ frameCount < MaxFrames
    /\ frameCount' = frameCount + 1
    /\ UNCHANGED <<entityRegistry, playCount>>

EntityChanged ==
    /\ Counted
    /\ \E e \in Entity : entity' = e /\ Put(Upsert(Scene, e))
    /\ UNCHANGED worldClearPending

EntityRemoved ==
    /\ Counted /\ entity # None
    /\ entity' = None
    /\ Put(RemoveEntity(Scene))
    /\ UNCHANGED worldClearPending

(* A keyframe or a change of dimension.  Plays for what is not there are   *)
(* dropped and a wipe begins, which may have more to dispose of than fits  *)
(* the first time.  A dimension change removes the entities it does not    *)
(* bring back at once, a keyframe leaves that to the wipe; an entity both  *)
(* worlds have keeps its node.                                             *)
ForgetEarly(s) == [s EXCEPT !.early = <<>>, !.unseen = <<>>]

WorldReplaced ==
    /\ Counted
    /\ worldClearPending' \in BOOLEAN
    /\ LET s == ForgetEarly(Scene)
       IN  \/ \E e \in Entity : entity' = e /\ Put(Upsert(s, e))
           \/ entity' = None /\ Put(RemoveEntity(s))
           \/ entity' = None /\ worldClearPending' /\ Put(s)

(* The wipe gets to the entities, in a frame or in a paint. *)
DrainWorldClear ==
    /\ worldClearPending
    /\ worldClearPending' = FALSE
    /\ Put(IF entity = None THEN RemoveEntity(Scene) ELSE Scene)
    /\ UNCHANGED <<entity, entityRegistry, frameCount, playCount>>

(* playEntityAnimations. *)
EntityAnimate ==
    /\ playCount < MaxPlays
    /\ playCount' = playCount + 1
    /\ Put(IF node = None
           THEN [Scene EXCEPT !.early = Newest(Append(@, playCount')),
                              !.unseen = Append(@, playCount')]
           ELSE [Scene EXCEPT !.node =
                   IF node.animator
                   THEN [node EXCEPT !.shown = Append(@, playCount'), !.due = Append(@, playCount')]
                   ELSE [node EXCEPT !.pendingAnims = Append(@, playCount'),
                                     !.due = Append(@, playCount')]])
    /\ UNCHANGED <<entity, worldClearPending, entityRegistry, frameCount>>

-----------------------------------------------------------------------------
(* The registry and the answers.                                           *)

Still == UNCHANGED <<entity, worldClearPending, frameCount, playCount>>

(* setEntityRegistry: whoever is there asks for a model. *)
SetEntityRegistry ==
    /\ ~entityRegistry
    /\ entityRegistry' = TRUE
    /\ Put(IF node # None /\ entity # None THEN RequestEntityModel(Scene, entity, TRUE) ELSE Scene)
    /\ Still

Answered(l) == [Scene EXCEPT !.loads = @ \ {l}]

Wanted(l) == node # None /\ l.node = node.id /\ l.token = node.token

(* The new model gets its animator, when it has animations or one waits,   *)
(* the plays that wait, and the equipment of when it was asked for.        *)
MutantModelShown(n, look) ==
    LET forced == n.pendingAnims # <<>>
    IN  [ClearModel(n) EXCEPT !.model = look, !.animator = look \notin Plain \/ forced,
                              !.shown = n.pendingAnims]
ModelShown(n, look) ==
    LET animated == look \notin Plain \/ n.pendingAnims # <<>>
    IN  [ClearModel(n) EXCEPT !.model = look, !.animator = animated,
                              !.shown = IF animated THEN @ \o n.pendingAnims ELSE @,
                              !.pendingAnims = IF animated THEN <<>> ELSE @]

ModelArrives(l) ==
    /\ l.of = "model"
    /\ Put(IF Wanted(l)
           THEN SyncEntityGear([Answered(l) EXCEPT !.node = ModelShown(@, l.look)], l.gear)
           ELSE Answered(l))

ArmourArrives(l) ==
    /\ l.of = "armour"
    /\ LET worn == IF Wanted(l) /\ node.model # None
                   THEN [Answered(l) EXCEPT !.node.armour = @ \cup {l.gear}] ELSE Answered(l)
       IN  Put(IF node # None /\ l.node = node.id /\ node.model # None
               THEN [worn EXCEPT !.loads = @ \cup {[l EXCEPT !.of = "held"]}] ELSE worn)

ItemArrives(l) ==
    /\ l.of = "held"
    /\ Put(IF Wanted(l) /\ node.model # None
           THEN [Answered(l) EXCEPT !.node = [node EXCEPT !.sprites = @ \cup {l.gear},
                                                          !.itemSprite = l.gear]]
           ELSE Answered(l))

(* The pack has no such model, layer or texture: armour missing, the item  *)
(* in the hand is still looked for.                                        *)
Missing(l) ==
    Put(IF l.of = "armour" /\ node # None /\ l.node = node.id /\ node.model # None
        THEN [Answered(l) EXCEPT !.loads = @ \cup {[l EXCEPT !.of = "held"]}]
        ELSE Answered(l))

Arrives ==
    /\ \E l \in loads : ModelArrives(l) \/ ArmourArrives(l) \/ ItemArrives(l) \/ Missing(l)
    /\ Still /\ UNCHANGED entityRegistry

(* tickEntities brings the equipment up to date. *)
Paint ==
    /\ node # None /\ entity # None
    /\ Put(SyncEntityGear(Scene, entity.gear))
    /\ Still /\ UNCHANGED entityRegistry

-----------------------------------------------------------------------------
Init ==
    /\ entity = None /\ node = None /\ earlyAnims = <<>> /\ unseen = <<>>
    /\ loads = {} /\ worldClearPending = FALSE /\ entityRegistry \in BOOLEAN
    /\ frameCount = 0 /\ playCount = 0

Next ==
    \/ EntityChanged \/ EntityRemoved \/ WorldReplaced \/ EntityAnimate
    \/ DrainWorldClear \/ SetEntityRegistry \/ Arrives \/ Paint

Spec == Init /\ [][Next]_vars

(* Paints go on and finish a wipe; a request is answered in the end. *)
FairSpec == Spec /\ WF_vars(DrainWorldClear) /\ WF_vars(Arrives) /\ WF_vars(Paint)

-----------------------------------------------------------------------------
(* The node follows the store: it is there when the entity is, with the    *)
(* entity's look, and the model it shows is of that look, whatever answers *)
(* came late.  Only a wipe under way leaves a node behind.                 *)
ModelIsCurrent ==
    /\ entity # None => node # None /\ node.look = entity.look
    /\ node # None /\ entity = None => worldClearPending
    /\ node # None => node.model \in {None, node.look}

(* Once the node has been brought up to date and nothing is being fetched  *)
(* for it, it wears and holds nothing but the entity's equipment.          *)
GearIsCurrent ==
    node # None /\ entity # None /\ node.gearKey = entity.gear
      /\ (\A l \in loads : ~LoadsGear(l, node))
      => node.armour \cup node.sprites \subseteq {entity.gear}

(* The same, for a node whose loads of equipment never overlapped.         *)
GearCurrentUnlessOverlapped == (node # None /\ node.overlapped) \/ GearIsCurrent

(* What the page shows of the entity is what the store has. *)
EntityFollowsStore == ModelIsCurrent /\ GearCurrentUnlessOverlapped

(* Every play reaches the entity once and in order: those that came before *)
(* the entity (the newest of them), before its model, or between models.   *)
PlaysKept ==
    IF node = None THEN earlyAnims = Newest(unseen)
    ELSE /\ node.shown \o node.pendingAnims = node.due
         /\ node.animator => node.pendingAnims = <<>>

(* scene.ts:398: pendingAnims are the plays "that arrived before the model *)
(* (and its animator) loaded".                                             *)
PlaysNotStuck == node # None /\ node.model # None => node.pendingAnims = <<>>

(* Loads come to an end: what a film waits for before a frame.             *)
LoadsEnd == <>[](loads = {})
=============================================================================
