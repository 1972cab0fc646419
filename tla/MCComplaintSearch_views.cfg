SPECIFICATION Spec
CONSTANTS
    c1 = c1  c2 = c2  c3 = c3
    z1 = z1  z2 = z2
    r1 = r1  r2 = r2
    Complaints = {1, 2, 3, 4}
    Types = {"HWCR", "ERS"}
    TypeOf <- MCTypeOf
    Communities = {c1, c2, c3}
    CommunityOf <- MCCommunityOf
    Zones = {z1, z2}
    ZoneOf <- MCZoneOf
    Regions = {r1, r2}
    RegionOf <- MCRegionOf
    DefaultZone = z1
    Offices <- MCOffices
    Matching = {1, 3, 4}
    First <- MCFirst
    PageSize = 1
    None = None
    MaxActs = 4
    MaxChanges = 1
INVARIANTS ShownIsAsked PageExists FiltersAgree MapIsComplete CountsAreClose
CHECK_DEADLOCK FALSE
