SPECIFICATION FairSpec
CONSTANTS
    Users = {u1}
    Complaints = {c1, c2}
    Texts = {t1}
    Items = {i1}
    None = None
    Blank = Blank
    Fresh = {c1}
    MaxEvents = 2
INVARIANTS PageIsCurrent PendingIsRequired AnnouncedIsSaved
PROPERTIES ClosesFinished UserGetsBack
CHECK_DEADLOCK FALSE
