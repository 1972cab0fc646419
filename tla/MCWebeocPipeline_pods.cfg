SPECIFICATION PipelineSpec
CONSTANTS
    Words = {w1, w2}
    Incidents = {i1}
    Texts <- AllTexts
    Blank = Blank
    None = None
    UpdateNumbers = {1}
    Contents <- TwoVersions
    UpdateContents <- NoUpdates
    Requests = {r1, r2}
    MaxRows = 2
    Pods = {p1, p2}
    Polls = {1}
    HistoryTicks = 1
    Prompt = FALSE
    MaxEntries = 2
    MaxStream = 1
    MaxOutbox = 1
    MaxFaults = 0
INVARIANT PendingHasNotice
PROPERTY ShowsWhatWebeocHeld
SYMMETRY Interchangeable
CHECK_DEADLOCK FALSE
