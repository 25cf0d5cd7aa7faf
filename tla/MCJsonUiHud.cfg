SPECIFICATION Spec
CONSTANTS
    None = None
    Form = {}
    Unsupported = {}
    Plain = {}
    Face = {}
    Button = {0}
    Vitals = {1, 2}
    Texture = {bar}
    TexturesOf = {}
    HudTextures = {bar}
    MaxFrames = 2
    MaxEvents = 0
INVARIANTS
    LateTexturesPublished
CHECK_DEADLOCK FALSE
