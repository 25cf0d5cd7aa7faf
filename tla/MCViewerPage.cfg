SPECIFICATION MCSpec
CONSTANTS
    c1 = c1
    c2 = c2
    cow = cow
    pig = pig
    iron = iron
    Bare = Bare
    None = None
    menu = menu
    page = page
    dialogue = dialogue
    slider = slider
    face = face
    bar = bar
    Column = {c1, c2}
    Adjacent <- MCAdjacent
    Arriving <- MCArriving
    Changed = {"air", "rim"}
    RemeshMax = 1
    ClearMax = 1
    MaxFrames = 3
    MaxThrows = 1
    Look = {cow, pig}
    PlainLook = {pig}
    Gear = {iron, Bare}
    EarlyMax = 1
    MaxEntityFrames = 3
    MaxPlays = 2
    Form <- MCForm
    Unsupported = {slider}
    PlainForm = {dialogue}
    Face <- MCFace
    Button = {0}
    Vitals = {1}
    Texture = {face, bar}
    TexturesOf <- MCTexturesOf
    HudTextures = {bar}
    MaxUiFrames = 6
    MaxEvents = 2
    Contents = {"A", "B"}
    FromTime = 1
    ToTime = 3
    Payloads <- MCPayloads
    MaxTake = 4
    LastTime = 2
    Controllers = {"player", "look"}
    Roots = {"player"}
    Anims = {"stand", "swing", "turn"}
    Initial <- MCInitial
    StatesOf <- MCStatesOf
    AnimsOf <- MCAnimsOf
    ChildrenOf <- MCChildrenOf
    BlendOf <- MCBlendOf
    Conditions = {"moving", "looking"}
    NextOf <- MCNextOf
    Length <- MCLength
    Loops <- MCLoops
    StartDelay <- MCStartDelay
    Requests <- MCRequests
    MaxFrame = 2
    MaxHead = 3
    MaxServerPlays = 2
    MaxClock = 4
INVARIANTS
    TerrainFollowsStore
    EntityFollowsStore
    FilmFollowsTake
    FormOnScreen
    EventsHandedOnce
    FilmShowsForm
    LayoutSolved
PROPERTIES
    AnimatorKeepsTime
    PageSettles
CHECK_DEADLOCK FALSE
