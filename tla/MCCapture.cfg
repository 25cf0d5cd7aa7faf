SPECIFICATION CaptureSpec
CONSTANTS
    None = None
    Suite = {"showcase", "smoke"}
    Kept = {"showcase"}
    Duration = 6
    MinInterval = 1
    MinCut = 2
    MinKeep = 2
    IdleCrumb = 2
    MaxFastIntervals = 2
    Policies <- MCPolicies
    Marked = {"walk", "loading"}
    Times = {0, 2, 5}
    Issued <- MCIssued
    MaxMarks = 4
    MaxFrames = 2
    MaxCrashes = 2
INVARIANTS
    AllMarksBeforeUpload
    FootageKept
    FilmShowsWhatIsMarked
    RecordingKept
PROPERTIES
    HarnessRunEnds
CHECK_DEADLOCK FALSE
