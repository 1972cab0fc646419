SPECIFICATION Spec
CONSTANTS
    MaxAnimals = 1
    MaxDrugs = 2
    Assigned = TRUE
    MaxChanges = 10
INVARIANTS SavedIsComplete EditsCanBeSaved
PROPERTIES ShownInPlace AuthorizationStays
CHECK_DEADLOCK FALSE
