SPECIFICATION FairSpec
CONSTANTS
    Texts = {"a", "unknown code"}
    Refused = {"unknown code"}
    Officers = {o1}
    Requests = {r1, r2}
    None = None
    Webeoc <- WebeocIds
    PoolSize = 4
    FirstNumber = 900000
    FirstYear = 24
    LastYear = 25
    MaxRequests = 2
PROPERTIES NotOverruledUnseen NoGap CreatedMeansComplete EndsUnlessExhausted
CHECK_DEADLOCK FALSE
