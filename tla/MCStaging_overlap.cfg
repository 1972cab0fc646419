SPECIFICATION Spec
CONSTANTS
    Incidents = {i1}
    Contents <- FewContents
    UpdateNumbers = {1}
    UpdateContents <- FewUpdates
    Texts <- AllTexts
    Blank = ""
    Requests = {r1, r2}
    None = None
    MaxRows = 3
INVARIANTS InsertedIsLive LogIsGrounded
PROPERTIES SuccessIsFinal ImplementsFeed
SYMMETRY Slots
CHECK_DEADLOCK FALSE
