SPECIFICATION Spec
CONSTANTS
    Incidents = {i1}
    Contents <- AllContents
    UpdateNumbers = {1, 2}
    UpdateContents <- AllUpdates
    Texts <- AllTexts
    Blank = ""
    Requests = {r1}
    None = None
    MaxRows = 4
INVARIANTS TypeOK OneInsert LatestEditWins OneLogPerNumber EditedIsLive
CHECK_DEADLOCK FALSE
