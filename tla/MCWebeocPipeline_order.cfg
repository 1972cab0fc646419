SPECIFICATION FairSpec
CONSTANTS
    Words = {w1, w2}
    Incidents = {i1}
    Texts <- AllTexts
    Blank = Blank
    None = None
    UpdateNumbers = {1}
    Contents <- TwoVersions
    UpdateContents <- OneUpdate
    Requests = {r1}
    MaxRows = 4
    Pods = {p1}
    Polls = {1}
    HistoryTicks = 2
    Prompt = TRUE
    MaxEntries = 2
    MaxStream = 4
    MaxOutbox = 4
    MaxFaults = 0
PROPERTY EventuallyLogged
