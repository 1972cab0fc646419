SPECIFICATION Spec
CONSTANTS
    Documents = {"a%20b", "100%"}
    Images = {"photo"}
    Decode <- MCDecode
    Malformed = "malformed"
    Firsts <- MCFirsts
    MaxEvents = 6
INVARIANTS UploadsAreWanted RemovalsAreFlagged
PROPERTIES DeletesAreAsked
CHECK_DEADLOCK FALSE
