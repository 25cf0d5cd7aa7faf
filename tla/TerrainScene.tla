---------------------------- MODULE TerrainScene ----------------------------
(***************************************************************************)
(* The terrain of the viewer page: the columns a frame of the stream puts  *)
(* into the store (viewer/src/store.ts), the section meshes the scene      *)
(* builds of them a few at a time (viewer/src/scene.ts), and the meshers   *)
(* that follow one another while the page's assets load (main.ts,          *)
(* terrain/index.ts).                                                      *)
(*                                                                         *)
(* The page has one thread.  A frame is applied, drawn into the scene by   *)
(* sync and its dirty marks are cleared before anything else runs; paints, *)
(* captures and the steps of the asset load come in between.  A column has *)
(* at most one section, and a mesh is what it was made of: the mesher, the *)
(* section, and what the mesher read across each border.                   *)
(***************************************************************************)
EXTENDS Naturals, Sequences, FiniteSets, Functions, FiniteSetsExt, SequencesExt

CONSTANTS
    Column,
    Adjacent,          \* set of pairs of columns that share a border
    RemeshMax,         \* REMESH_MAX_SECTIONS_PER_FRAME
    ClearMax,          \* CLEAR_MAX_PER_SYNC
    Arriving,          \* bound: the columns that frames carry
    Changed,           \* bound: what block changes make of a section
    MaxFrames,         \* bound: frames that change the columns
    MaxThrows          \* bound: meshes that throw

ASSUME TerrainAssumption ==
    /\ IsFiniteSet(Column)
    /\ \A pair \in Adjacent : pair \subseteq Column /\ Cardinality(pair) = 2
    /\ RemeshMax \in Nat \ {0} /\ ClearMax \in Nat \ {0}
    /\ Arriving \subseteq [state : {"requested", "partial", "complete"},
                            section : {"none", "air", "core", "rim", "full"}]
    /\ Changed \subseteq {"air", "core", "rim", "full"}
    /\ MaxFrames \in Nat /\ MaxThrows \in Nat

VARIABLES
    filmMode,          \* offline film: a paint flushes, unloaded columns are hidden
    columns,           \* WorldState.columns: receipt state and section
    registries,        \* WorldState.registries is not null
    sections,          \* the section meshes in the scene
    columnBounds,      \* columns drawn as incomplete
    pendingSections,   \* sections queued for meshing
    worldClearPending, \* a wipe still has meshes to dispose of
    mesher,
    assetsPhase,       \* "waiting" and "building" are both phase "loading"
    registriesBuilt,   \* the registries the mesher being built was given
    lateRegistries,    \* watchLateRegistries: "off", "watching", "applying", "failed"
    frameCount, throwCount,
    blank,             \* sections with blocks whose last meshing left nothing (history)
    owed               \* sections with a border that changed unannounced (history)

storeVars == <<columns, registries>>
sceneVars == <<sections, columnBounds, pendingSections, worldClearPending>>
assetVars == <<mesher, assetsPhase, registriesBuilt, lateRegistries>>
historyVars == <<blank, owed>>
vars == <<filmMode, storeVars, sceneVars, assetVars, frameCount, throwCount,
          historyVars>>

(* Of a section it matters whether it has blocks, whether some lie at its  *)
(* border, and whether every cell is filled.                               *)
Blocks == {"air", "core", "rim", "full"}
NoSection == "none"
Receipt == {"requested", "partial", "complete"}
StoredColumn == [state : Receipt, section : Blocks \cup {NoSection}]
NoColumns == [c \in {} |-> [state |-> "complete", section |-> NoSection]]
NoMesh == [c \in {} |-> {}]

Neighbours(c) == (UNION {pair \in Adjacent : c \in pair}) \ {c}
Has(cols, c) == c \in DOMAIN cols /\ cols[c].section # NoSection
WithSections(cols) == {c \in DOMAIN cols : cols[c].section # NoSection}

-----------------------------------------------------------------------------
(* Meshing.                                                                *)

(* The cells at the border of a section. *)
Rim(section) == IF section \in {"rim", "full"} THEN section ELSE "open"

(* What a mesher takes the cells across a border for: the placeholder      *)
(* takes a requested column for open, the textured one reads what is there *)
(* and calls a column without the section unloaded until it is complete.   *)
Probe(m, cols, n) ==
    IF m = "placeholder"
    THEN IF Has(cols, n) /\ cols[n].state # "requested" THEN Rim(cols[n].section) ELSE "open"
    ELSE IF Has(cols, n) THEN Rim(cols[n].section)
         ELSE IF filmMode /\ ~(n \in DOMAIN cols /\ cols[n].state = "complete")
              THEN "unloaded" ELSE "open"

(* The borders matter to blocks that touch them. *)
MeshOf(m, cols, c) ==
    [mesher |-> m, section |-> cols[c].section,
     across |-> IF Rim(cols[c].section) = "open" THEN <<>>
                ELSE [n \in Neighbours(c) |-> Probe(m, cols, n)]]

(* The placeholder draws no face between two blocks, so a section that is  *)
(* full, between neighbours with blocks at their borders, is empty for it. *)
MeshIsEmpty(mesh) ==
    \/ mesh.section = "air"
    \/ /\ mesh.mesher = "placeholder" /\ mesh.section = "full"
       /\ \A n \in DOMAIN mesh.across : mesh.across[n] # "open"

-----------------------------------------------------------------------------
(* Operators on the scene, a record of the fields of ViewerScene.          *)

Scene == [sections |-> sections, bounds |-> columnBounds,
          pending |-> pendingSections, clearing |-> worldClearPending]

Without(s, keys) == [s EXCEPT !.sections = Restrict(@, DOMAIN @ \ keys)]

(* What of a queue lies in S, in its order. *)
Kept(queue, S) ==
    LET places == {i \in DOMAIN queue : queue[i] \in S}
    IN  [k \in 1..Cardinality(places) |->
           queue[CHOOSE i \in places : Cardinality({j \in places : j <= i}) = k]]

Enqueue(s, keys) == [s EXCEPT !.pending = @ \o Kept(keys, Column \ ToSet(@))]

(* drainWorldClear: meshes, then bounds, of what the store has no more.    *)
MutantDrain(s, cols) == {[s EXCEPT !.clearing = FALSE]}
DrainWorldClear(s, cols) ==
    LET meshes == {c \in DOMAIN s.sections : ~Has(cols, c)}
        bounds == s.bounds \ DOMAIN cols
        total == Cardinality(meshes) + Cardinality(bounds)
    IN  IF Cardinality(meshes) >= ClearMax
        THEN {Without(s, gone) : gone \in kSubset(ClearMax, meshes)}
        ELSE IF total >= ClearMax
        THEN {[Without(s, meshes) EXCEPT !.bounds = @ \ gone] :
                gone \in kSubset(ClearMax - Cardinality(meshes), bounds)}
        ELSE {[Without(s, meshes) EXCEPT !.bounds = @ \ bounds, !.clearing = FALSE]}

(* remeshOne on the first n keys of the queue; "bad" are those that throw, *)
(* which happens after the old mesh is gone.                               *)
Remesh(s, m, cols, n, bad) ==
    LET keys == {s.pending[i] : i \in 1..n}
        drawn == {c \in keys \ bad : Has(cols, c) /\ ~MeshIsEmpty(MeshOf(m, cols, c))}
    IN  [s EXCEPT !.sections = [c \in drawn \cup (DOMAIN @ \ keys) |->
                                  IF c \in drawn THEN MeshOf(m, cols, c) ELSE @[c]],
                  !.pending = SubSeq(@, n + 1, Len(@))]

(* How many keys one frame meshes: the first whatever it costs, then until *)
(* the time is up.                                                         *)
Budget(s) == IF s.pending = <<>> THEN {0} ELSE 1..Min({RemeshMax, Len(s.pending)})

SetScene(s) ==
    /\ sections' = s.sections /\ columnBounds' = s.bounds
    /\ pendingSections' = s.pending /\ worldClearPending' = s.clearing

(* The scene becomes s after n keys are meshed, some of which may throw.   *)
(* "silent" are sections whose borders the frame changed without a mark.   *)
MeshAndSet(s, m, cols, n, silent) ==
    \E bad \in SUBSET {c \in {s.pending[i] : i \in 1..n} : Has(cols, c)} :
        /\ throwCount + Cardinality(bad) <= MaxThrows
        /\ throwCount' = throwCount + Cardinality(bad)
        /\ SetScene(Remesh(s, m, cols, n, bad))
        /\ LET keys == {s.pending[i] : i \in 1..n}
               empty == {c \in keys : /\ Has(cols, c) /\ cols[c].section # "air"
                                      /\ MeshIsEmpty(MeshOf(m, cols, c))}
           IN  blank' = (blank \ keys) \cup bad \cup empty
        /\ owed' = (owed \cup silent) \ {s.pending[i] : i \in 1..n}

-----------------------------------------------------------------------------
(* Frames.  sync: what the store marked dirty goes to the scene.           *)

OnReset(s) == [s EXCEPT !.clearing = TRUE, !.pending = <<>>]

(* A dirty column that is gone takes its bounds and meshes along.          *)
SyncColumns(s, cols, dirty) ==
    [Without(s, dirty \ DOMAIN cols) EXCEPT
       !.bounds = (@ \ dirty) \cup {c \in dirty \cap DOMAIN cols : cols[c].state = "partial"}]

(* Keys whose section is gone leave the queue with their mesh.             *)
DropVanished(s, cols) ==
    [Without(s, {c \in ToSet(s.pending) : ~Has(cols, c)}) EXCEPT
       !.pending = Kept(@, WithSections(cols))]

Sync(cols, reset, dirtyColumns, dirtySections, silent) ==
    LET s0 == IF reset THEN OnReset(Scene) ELSE Scene
    IN  \E s1 \in IF s0.clearing THEN DrainWorldClear(s0, cols) ELSE {s0} :
          LET s2 == SyncColumns(s1, cols, dirtyColumns)
              s3 == DropVanished(Enqueue(s2, dirtySections), cols)
          IN  \E n \in Budget(s3) : MeshAndSet(s3, mesher, cols, n, silent)

(* A frame: the main listener syncs, then watchLateRegistries looks. *)
Apply(cols, reset, dirtyColumns, dirtySections, silent) ==
    /\ columns' = cols
    /\ Sync(cols, reset, dirtyColumns, dirtySections, silent)
    /\ IF lateRegistries = "watching" /\ registries'
       THEN lateRegistries' = "applying" /\ mesher' = "mixed"
       ELSE UNCHANGED <<lateRegistries, mesher>>
    /\ UNCHANGED <<filmMode, assetsPhase, registriesBuilt>>

Counted == frameCount < MaxFrames /\ frameCount' = frameCount + 1

(* A keyframe replaces the world and brings the registries. *)
Keyframe ==
    /\ Counted
    /\ registries' = TRUE
    /\ \E arrived \in SUBSET Column :
         \E cols \in [arrived -> Arriving] :
           Apply(cols, TRUE, arrived, SetToSeq(WithSections(cols)), {})

Delta == Counted /\ registries /\ UNCHANGED registries

(* A delta with a world: the dimension has changed. *)
DimensionChanged == Delta /\ Apply(NoColumns, TRUE, {}, <<>>, {})

(* The sections that share a border with the column, if they are there.    *)
DirtyNeighbours(cols, c) == SetToSeq({n \in Neighbours(c) : Has(cols, n)})

ColumnRemoved(c) ==
    /\ Delta
    /\ c \in DOMAIN columns
    /\ LET cols == Restrict(columns, DOMAIN columns \ {c})
       IN  IF Has(columns, c)
           THEN Apply(cols, FALSE, {c}, <<c>> \o DirtyNeighbours(columns, c), {})
           ELSE Apply(cols, FALSE, {c}, <<>>, Neighbours(c))

(* A column arrives or is sent again.  A section it has lost is marked, the *)
(* neighbours of that section are not.                                     *)
ColumnAdded(c) ==
    /\ Delta
    /\ \E column \in Arriving :
         LET cols == [d \in DOMAIN columns \cup {c} |-> IF d = c THEN column ELSE columns[d]]
         IN  IF Has(cols, c)
             THEN Apply(cols, FALSE, {c}, <<c>> \o DirtyNeighbours(cols, c), {})
             ELSE Apply(cols, FALSE, {c}, IF Has(columns, c) THEN <<c>> ELSE <<>>, Neighbours(c))

ColumnState(c) ==
    /\ Delta
    /\ c \in DOMAIN columns
    /\ \E state \in Receipt :
         Apply([columns EXCEPT ![c].state = state], FALSE, {c}, <<>>, Neighbours(c))

(* Blocks change; the neighbours hear of it when border cells did. *)
BlocksChanged(c) ==
    /\ Delta
    /\ c \in DOMAIN columns
    /\ \E blocks \in Changed :
         LET atRim == Rim(blocks) # Rim(columns[c].section)
             cols == [columns EXCEPT ![c].section = blocks]
         IN  IF atRim
             THEN Apply(cols, FALSE, {}, <<c>> \o DirtyNeighbours(cols, c), {})
             ELSE Apply(cols, FALSE, {}, <<c>>, IF Has(columns, c) THEN {} ELSE Neighbours(c))

(* A frame that changes no column. *)
OtherFrame ==
    /\ registries
    /\ UNCHANGED <<registries, frameCount>>
    /\ Apply(columns, FALSE, {}, <<>>, {})

Frame ==
    \/ Keyframe
    \/ DimensionChanged
    \/ \E c \in Column : \/ ColumnRemoved(c) \/ ColumnAdded(c)
                         \/ ColumnState(c) \/ BlocksChanged(c)
    \/ OtherFrame

-----------------------------------------------------------------------------
(* Paints and captures.                                                    *)

FinishClear(s, cols) ==
    [Without(s, {c \in DOMAIN s.sections : ~Has(cols, c)}) EXCEPT
       !.bounds = @ \cap DOMAIN cols, !.clearing = FALSE]

Pending == worldClearPending \/ pendingSections # <<>>

(* A live paint goes on with a wipe and meshes what the budget allows.     *)
MutantPaintLive ==
    /\ ~filmMode /\ Pending
    /\ IF worldClearPending
       THEN \E s \in DrainWorldClear(Scene, columns) : SetScene(s) /\ UNCHANGED <<throwCount, historyVars>>
       ELSE \E n \in {k \in Budget(Scene) : k < Len(pendingSections)} :
              MeshAndSet(Scene, mesher, columns, n, {})
    /\ UNCHANGED <<filmMode, storeVars, assetVars, frameCount>>
PaintLive ==
    /\ ~filmMode /\ Pending
    /\ \E s \in IF worldClearPending THEN DrainWorldClear(Scene, columns) ELSE {Scene} :
         \E n \in Budget(s) : MeshAndSet(s, mesher, columns, n, {})
    /\ UNCHANGED <<filmMode, storeVars, assetVars, frameCount>>

(* A frame of a film waits for everything: flush without a budget.         *)
PaintFilm ==
    /\ filmMode /\ Pending
    /\ MeshAndSet(FinishClear(Scene, columns), mesher, columns, Len(pendingSections), {})
    /\ UNCHANGED <<filmMode, storeVars, assetVars, frameCount>>

(* The harness flushes with a budget before a still. *)
Flush ==
    /\ ~filmMode /\ Pending
    /\ \E s \in IF worldClearPending THEN DrainWorldClear(Scene, columns) ELSE {Scene} :
         \E n \in 0..Len(s.pending) : MeshAndSet(s, mesher, columns, n, {})
    /\ UNCHANGED <<filmMode, storeVars, assetVars, frameCount>>

-----------------------------------------------------------------------------
(* The asset load.                                                         *)

KeepFrames == UNCHANGED <<filmMode, storeVars, frameCount, throwCount, historyVars>>

(* The first keyframe has come, or the wait for it is over. *)
StartBuild ==
    /\ assetsPhase = "waiting"
    /\ assetsPhase' = "building"
    /\ registriesBuilt' = registries
    /\ UNCHANGED <<mesher, lateRegistries, sceneVars>> /\ KeepFrames

(* setMesher queues what has a mesh; the watcher goes by the registries of *)
(* now, not by those the mesher was built with.                            *)
MutantSetMesher(s) == s
SetMesher(s) == Enqueue([s EXCEPT !.sections = NoMesh], SetToSeq(DOMAIN s.sections))

BuildDone ==
    /\ assetsPhase = "building"
    /\ assetsPhase' = "ready"
    /\ mesher' = IF registriesBuilt THEN "custom" ELSE "vanilla"
    /\ SetScene(SetMesher(Scene))
    /\ lateRegistries' = IF registries THEN "off" ELSE "watching"
    /\ UNCHANGED registriesBuilt /\ KeepFrames

BuildFails ==
    /\ assetsPhase = "building"
    /\ assetsPhase' = "failed"
    /\ UNCHANGED <<mesher, registriesBuilt, lateRegistries, sceneVars>> /\ KeepFrames

(* applyRegistries: while it runs, the mesher has the new definitions and  *)
(* the old atlas; then the atlas is replaced and everything queued.        *)
ApplyDone ==
    /\ lateRegistries = "applying"
    /\ lateRegistries' = "off"
    /\ mesher' = "custom"
    /\ SetScene(Enqueue(Scene, SetToSeq(WithSections(columns))))
    /\ UNCHANGED <<assetsPhase, registriesBuilt>> /\ KeepFrames

ApplyFails ==
    /\ lateRegistries = "applying"
    /\ lateRegistries' = "failed"
    /\ UNCHANGED <<mesher, assetsPhase, registriesBuilt, sceneVars>> /\ KeepFrames

-----------------------------------------------------------------------------
Init ==
    /\ filmMode \in BOOLEAN
    /\ columns = NoColumns /\ registries = FALSE
    /\ sections = NoMesh /\ columnBounds = {}
    /\ pendingSections = <<>> /\ worldClearPending = FALSE
    /\ mesher = "placeholder" /\ assetsPhase = "waiting"
    /\ registriesBuilt = FALSE /\ lateRegistries = "off"
    /\ frameCount = 0 /\ throwCount = 0
    /\ blank = {} /\ owed = {}

Next ==
    \/ Frame
    \/ PaintLive \/ PaintFilm \/ Flush
    \/ StartBuild \/ BuildDone \/ BuildFails \/ ApplyDone \/ ApplyFails

Spec == Init /\ [][Next]_vars

(* Animation frames go on whatever happens (frame reschedules itself), the *)
(* wait for the keyframe has a timer, and a request is answered.           *)
Fairness ==
    /\ WF_vars(PaintLive) /\ WF_vars(PaintFilm)
    /\ WF_vars(StartBuild)
    /\ WF_vars(BuildDone \/ BuildFails)
    /\ WF_vars(ApplyDone \/ ApplyFails)

FairSpec == Spec /\ Fairness

-----------------------------------------------------------------------------
Queued(c) == c \in ToSet(pendingSections)

(* While registries are being applied, or could not be, what the mesher of *)
(* before drew may stay.                                                   *)
SameMesher(m) ==
    \/ m = mesher
    \/ lateRegistries \in {"applying", "failed"} /\ m = "vanilla"

(* A section that is not queued is drawn as the store has it, by the       *)
(* mesher of now: what a still shows once the page says it is settled.  A  *)
(* mesh that threw leaves nothing; one the placeholder found empty is not  *)
(* queued when the mesher changes; borders that changed unannounced are    *)
(* excused here (NeighboursRemeshed).                                      *)
DrawnAsStored ==
    \A c \in WithSections(columns) :
      \/ Queued(c)
      \/ IF c \in DOMAIN sections
         THEN /\ SameMesher(sections[c].mesher)
              /\ sections[c].section = columns[c].section
              /\ c \in owed \/ sections[c].across = MeshOf(sections[c].mesher, columns, c).across
         ELSE columns[c].section = "air" \/ c \in blank

(* Nothing is drawn of what the store has no more, unless a wipe is still  *)
(* under way.                                                              *)
NoGhosts ==
    worldClearPending \/ (/\ \A c \in DOMAIN sections : Has(columns, c)
                          /\ columnBounds = {c \in DOMAIN columns : columns[c].state = "partial"})

(* What the page shows of the world is what the store has. *)
TerrainFollowsStore == DrawnAsStored /\ NoGhosts

(* store.ts:174-175: "a change on one side must remesh the neighbour or    *)
(* shared faces stay wrong (hole or ghost)".                               *)
NeighboursRemeshed ==
    \A c \in DOMAIN sections :
      \/ Queued(c) \/ ~Has(columns, c)
      \/ sections[c].across = MeshOf(sections[c].mesher, columns, c).across

(* main.ts:108-111: when the atlas was built without the registries, it is *)
(* rebuilt once they land.                                                 *)
LateRegistriesApplied ==
    assetsPhase = "ready" /\ registries /\ lateRegistries \notin {"applying", "failed"}
      => mesher = "custom"

(* When the world stops changing, the wipe ends and the queue runs empty.  *)
SceneSettles == <>[](~Pending /\ assetsPhase \in {"ready", "failed"})
=============================================================================
