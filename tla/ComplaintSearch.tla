--------------------------- MODULE ComplaintSearch ---------------------------
(***************************************************************************)
(* The complaints page, as a list in pages or as a map, and the page "Zone *)
(* at a glance".  Filters, a text to search for, the page of the list and  *)
(* its order are kept in several components; effects of theirs ask the     *)
(* backend, sometimes twice for one click, and the answers come in any     *)
(* order.  The backend answers with several queries, and other users       *)
(* change complaints between them.                                         *)
(***************************************************************************)
EXTENDS Integers, FiniteSets, Sequences, FiniteSetsExt, SequencesExt

CONSTANTS
    Complaints,               \* numbers, in the order they were reported
    Types, TypeOf,            \* HWCR and ERS
    Communities, CommunityOf,
    Zones, ZoneOf,            \* the zone of a community
    Regions, RegionOf,        \* the region of a zone
    DefaultZone,              \* the zone of the user's office
    Offices,                  \* of that zone: sets of communities
    Matching,                 \* complaints the text is found in
    First,                    \* the complaints at first
    PageSize, None,
    MaxActs, MaxChanges       \* bounds: what the user does; changes of others, failures

ASSUME SearchAssumption ==
    /\ Complaints \subseteq Nat /\ IsFiniteSet(Complaints) /\ PageSize \in Nat \ {0}
    /\ First \in [Complaints -> [open : BOOLEAN, assigned : BOOLEAN, point : {"both", "one", "none"}]]
    /\ "HWCR" \in Types /\ IsFiniteSet(Offices)
    /\ TypeOf \in [Complaints -> Types] /\ CommunityOf \in [Complaints -> Communities]
    /\ ZoneOf \in [Communities -> Zones] /\ RegionOf \in [Zones -> Regions]
    /\ \A z \in Zones : \E c \in Communities : ZoneOf[c] = z   \* both are read from
    /\ \A r \in Regions : \E z \in Zones : RegionOf[z] = r     \* one view of offices
    /\ DefaultZone \in Zones /\ MaxActs \in Nat /\ MaxChanges \in Nat
    /\ None \notin Communities \cup Zones \cup Regions

VARIABLES
    complaint,   \* the database: per complaint, what others change of it
    ui,          \* the page: its view and what its components keep
    store,       \* what it shows: the slice "complaints" of the store
    flight,      \* requests under way
    shown,       \* the request whose answer is shown
    lost,        \* a request failed since the user did something
    acts, changes

vars == <<complaint, ui, store, flight, shown, lost, acts, changes>>

Points == {"both", "one", "none"}   \* coordinates that are not 0
Views == {"list", "map", "glance"}

NoFilters == [region |-> None, zone |-> None, community |-> None, status |-> None, officer |-> None]
DefaultFilters == [NoFilters EXCEPT !.zone = DefaultZone, !.status = "OPEN"]

\* "" and undefined are both no text, and not the same.
Searches == {"", "undefined", "text"}

NewUi(view) == [view |-> view, type |-> "HWCR", filters |-> DefaultFilters, search |-> "",
                page |-> 1, descending |-> TRUE]

NoStore == [rows |-> [t \in Types |-> <<>>], total |-> 0, mapped |-> {}, unmapped |-> 0,
            counts |-> [t \in Types |-> <<>>]]

-----------------------------------------------------------------------------
(* The backend.                                                            *)

Located(c, f) ==
    /\ f.community \in {None, c}
    /\ f.zone \in {None, ZoneOf[c]}
    /\ f.region \in {None, RegionOf[ZoneOf[c]]}

_applyFilters(type, f) ==
    {c \in Complaints :
        /\ TypeOf[c] = type /\ Located(CommunityOf[c], f)
        /\ f.status = "OPEN" => complaint[c].open
        /\ f.officer = "Unassigned" => ~complaint[c].assigned}

_applySearch(found, search) == IF search = "text" THEN found \cap Matching ELSE found

Found(m) == _applySearch(_applyFilters(m.type, m.filters), m.search)

Before(found, c, descending) == {d \in found : IF descending THEN d > c ELSE d < c}

Sorted(found, descending) ==
    [n \in 1..Cardinality(found) |->
        CHOOSE c \in found : Cardinality(Before(found, c, descending)) = n - 1]

PageOf(rows, page) ==
    LET last == IF page * PageSize < Len(rows) THEN page * PageSize ELSE Len(rows)
    IN  SubSeq(rows, (page - 1) * PageSize + 1, last)

\* The page, and a count of its own.
SearchQuery(m, n) ==
    IF n = 1 THEN PageOf(Sorted(Found(m), m.descending), m.page) ELSE Cardinality(Found(m))

\* The second builder of the map does not apply the search.
UnmappedUnsearched(m) ==
    Cardinality({c \in _applyFilters(m.type, m.filters) : complaint[c].point = "none"})

Unmapped(m) == Cardinality({c \in Found(m) : complaint[c].point = "none"})

\* Complaints with both coordinates, and how many have none.
MapQuery(m, n) ==
    IF n = 1 THEN {c \in Found(m) : complaint[c].point = "both"} ELSE Unmapped(m)

\* The zone and then its offices, each by two counts of open complaints.
Places == <<{c \in Communities : ZoneOf[c] = DefaultZone}>> \o SetToSeq(Offices)

TotalIn(type, place) ==
    Cardinality({c \in Complaints : TypeOf[c] = type /\ CommunityOf[c] \in place /\ complaint[c].open})

\* The count of assigned complaints has no status.
AssignedInAny(type, place) ==
    Cardinality({c \in Complaints : /\ TypeOf[c] = type /\ CommunityOf[c] \in place
                                    /\ complaint[c].assigned})

\* The count of a zone takes any active delegate, that of an office an ASSIGNEE: the
\* table person_complaint_xref_code, which both refer to, holds no other code.
AssignedIn(type, place) ==
    Cardinality({c \in Complaints : /\ TypeOf[c] = type /\ CommunityOf[c] \in place
                                    /\ complaint[c].open /\ complaint[c].assigned})

StatsQuery(m, n) ==
    LET place == Places[(n + 1) \div 2]
    IN  IF n % 2 = 1 THEN TotalIn(m.type, place) ELSE AssignedIn(m.type, place)

\* The two bars of a place.
Bars(counts, i) == [assigned |-> counts[2 * i], unassigned |-> counts[2 * i - 1] - counts[2 * i]]

Queries(m) == IF m.kind = "glance" THEN 2 * Len(Places) ELSE 2

Query(m, n) ==
    CASE m.kind = "list" -> SearchQuery(m, n)
      [] m.kind = "map" -> MapQuery(m, n)
      [] m.kind = "glance" -> StatsQuery(m, n)

-----------------------------------------------------------------------------
(* Requests.                                                               *)

Request(u, cause) ==
    [kind |-> u.view, type |-> u.type, filters |-> u.filters, search |-> u.search,
     page |-> u.page, descending |-> u.descending,
     cause |-> cause, stamp |-> changes, got |-> <<>>]

\* What the effects of a view ask when it appears or when filters change, and,
\* if there is no text any more, when that changes.
AsksFor(u, filters, search) ==
    {Request(u, cause) : cause \in (IF filters THEN {"filters"} ELSE {})
                              \cup (IF search /\ u.search # "text" THEN {"search"} ELSE {})}

Init ==
    /\ complaint = First
    /\ ui = NewUi("list") /\ store = NoStore
    /\ acts = 0 /\ changes = 0 /\ lost = FALSE
    /\ flight = AsksFor(ui, TRUE, TRUE)
    /\ shown = Request(ui, "none")

\* The first answer takes the overlay away, the requests not being counted.
ActsUncovered == Cardinality(flight) <= 1 /\ acts < MaxActs /\ acts' = acts + 1

\* An overlay covers the page while a request is under way.
Acts == flight = {} /\ acts < MaxActs /\ acts' = acts + 1

Does(u, requests) ==
    /\ Acts
    /\ ui' = u /\ flight' = flight \cup requests /\ lost' = FALSE
    /\ UNCHANGED <<complaint, shown, changes>>

-----------------------------------------------------------------------------
(* What the user does.                                                     *)

selectCascadedRegion(f) ==
    {r \in Regions :
        IF f.region # None THEN r = f.region
        ELSE IF f.community # None THEN r = RegionOf[ZoneOf[f.community]]
        ELSE f.zone # None => r = RegionOf[f.zone]}

\* The list of zones does not look at the community.
selectCascadedZoneByRegion(f) ==
    {z \in Zones : IF f.zone # None THEN z = f.zone ELSE f.region # None => RegionOf[z] = f.region}

selectCascadedZone(f) ==
    {z \in Zones :
        IF f.zone # None THEN z = f.zone
        ELSE IF f.community # None THEN z = ZoneOf[f.community]
        ELSE f.region # None => RegionOf[z] = f.region}

selectCascadedCommunity(f) ==
    {c \in Communities :
        IF f.zone # None THEN ZoneOf[c] = f.zone
        ELSE f.region # None => RegionOf[ZoneOf[c]] = f.region}

Filtered(f) ==
    LET u == [ui EXCEPT !.filters = f]
    IN  Does(u, AsksFor(u, TRUE, FALSE)) /\ UNCHANGED store

\* A filter is set to what its list offers; one that is set has a button that clears it.
Offered(options, value) == IF value = None THEN options ELSE options \cup {None}

SetFilter ==
    LET f == ui.filters
    IN  /\ ui.view # "glance"
        /\ \/ \E r \in Offered(selectCascadedRegion(f), f.region) : Filtered([f EXCEPT !.region = r])
           \/ \E z \in Offered(selectCascadedZone(f), f.zone) : Filtered([f EXCEPT !.zone = z])
           \/ \E c \in Offered(selectCascadedCommunity(f), f.community) :
                  Filtered([f EXCEPT !.community = c])
           \/ \E v \in Offered({"OPEN"}, f.status) : Filtered([f EXCEPT !.status = v])
           \/ \E o \in Offered({"Unassigned"}, f.officer) : Filtered([f EXCEPT !.officer = o])

\* The page of the list and its order stay.
handleComplaintTabChange(type) ==
    LET u == [ui EXCEPT !.type = type, !.filters = DefaultFilters, !.search = ""]
    IN  /\ ui.view # "glance"
        /\ Does(u, AsksFor(u, TRUE, ui.search # ""))
        /\ UNCHANGED store

\* The search asks for the first page in the order of the dates, whatever the
\* list is at.
handleSearch ==
    LET u == [ui EXCEPT !.search = "text"]
    IN  /\ ui.view # "glance"
        /\ Does(u, {Request([u EXCEPT !.page = 1, !.descending = TRUE], "text")})
        /\ UNCHANGED store

handleClear ==
    LET u == [ui EXCEPT !.search = "undefined"]
    IN  /\ ui.view # "glance" /\ ui.search # "undefined"
        /\ Does(u, AsksFor(u, FALSE, TRUE))
        /\ UNCHANGED store

handleSort ==
    LET u == [ui EXCEPT !.descending = ~@]
    IN  ui.view = "list" /\ Does(u, AsksFor(u, TRUE, FALSE)) /\ UNCHANGED store

LastPage(total) == (total + PageSize - 1) \div PageSize

handlePageChange ==
    /\ ui.view = "list" /\ store.total > PageSize
    /\ \E p \in 1..LastPage(store.total) \ {ui.page} :
          LET u == [ui EXCEPT !.page = p]
          IN  Does(u, AsksFor(u, TRUE, FALSE)) /\ UNCHANGED store

\* A view that goes away empties its part of the store.
Unmounted(view) ==
    IF view = "list" THEN [store EXCEPT !.rows = [t \in Types |-> <<>>]]
    ELSE [store EXCEPT !.mapped = {}, !.unmapped = 0]

toggleViewType ==
    LET u == [ui EXCEPT !.view = IF @ = "list" THEN "map" ELSE "list",
                        !.page = 1, !.descending = TRUE]
    IN  /\ ui.view # "glance"
        /\ Does(u, AsksFor(u, TRUE, TRUE))
        /\ store' = Unmounted(ui.view)

Glance ==
    /\ ui.view # "glance"
    /\ Does(NewUi("glance"),
            {Request([NewUi("glance") EXCEPT !.type = t], "filters") : t \in Types})
    /\ store' = Unmounted(ui.view)

Return ==
    /\ ui.view = "glance"
    /\ Does(NewUi("list"), AsksFor(NewUi("list"), TRUE, TRUE))
    /\ UNCHANGED store

-----------------------------------------------------------------------------
(* Queries, answers and other users.                                       *)

Serve(m) ==
    /\ Len(m.got) < Queries(m)
    /\ flight' = (flight \ {m}) \cup {[m EXCEPT !.got = Append(@, Query(m, Len(@) + 1))]}
    /\ UNCHANGED <<complaint, ui, store, shown, lost, acts, changes>>

Left == changes < MaxChanges /\ changes' = changes + 1

Fails(m) ==
    /\ Left
    /\ flight' = flight \ {m} /\ lost' = TRUE
    /\ UNCHANGED <<complaint, ui, store, shown, acts>>

Answered(m) ==
    CASE m.kind = "list" -> [store EXCEPT !.rows[m.type] = m.got[1], !.total = m.got[2]]
      [] m.kind = "map" -> [store EXCEPT !.mapped = m.got[1], !.unmapped = m.got[2]]
      [] m.kind = "glance" -> [store EXCEPT !.counts[m.type] = m.got]

\* The list stays where it is when the total changes.
ReceiveInPlace(m) ==
    /\ Len(m.got) = Queries(m)
    /\ store' = Answered(m) /\ shown' = m
    /\ flight' = flight \ {m}
    /\ UNCHANGED <<complaint, ui, lost, acts, changes>>

\* A new total takes the list back to its first page, and that asks again.
Receive(m) ==
    LET back == m.kind = "list" /\ m.got[2] # store.total /\ ui.page # 1
        u == IF back THEN [ui EXCEPT !.page = 1] ELSE ui
    IN  /\ Len(m.got) = Queries(m)
        /\ store' = Answered(m) /\ shown' = m
        /\ ui' = u
        /\ flight' = (flight \ {m}) \cup AsksFor(u, back, FALSE)
        /\ UNCHANGED <<complaint, lost, acts, changes>>

Others(c) ==
    /\ Left
    /\ \/ complaint' = [complaint EXCEPT ![c].open = ~@]
       \/ complaint' = [complaint EXCEPT ![c].assigned = ~@]
       \/ \E p \in Points \ {complaint[c].point} : complaint' = [complaint EXCEPT ![c].point = p]
    /\ UNCHANGED <<ui, store, flight, shown, lost, acts>>

User ==
    \/ SetFilter \/ handleSearch \/ handleClear \/ handleSort \/ handlePageChange
    \/ toggleViewType \/ Glance \/ Return
    \/ \E t \in Types : handleComplaintTabChange(t)

Next ==
    \/ User
    \/ \E m \in flight : Serve(m) \/ Fails(m) \/ Receive(m)
    \/ \E c \in Complaints : Others(c)

Spec == Init /\ [][Next]_vars

-----------------------------------------------------------------------------
(* Properties.                                                             *)

Filters == [region : Regions \cup {None}, zone : Zones \cup {None},
            community : Communities \cup {None}, status : {"OPEN", None},
            officer : {"Unassigned", None}]

IsUi(u) ==
    /\ u.view \in Views /\ u.type \in Types /\ u.filters \in Filters
    /\ u.search \in Searches /\ u.descending \in BOOLEAN
    /\ u.page \in {1} \cup 1..Cardinality(Complaints)

IsRequest(m) ==
    /\ m.kind \in Views /\ m.type \in Types /\ m.filters \in Filters /\ m.search \in Searches
    /\ m.page \in {1} \cup 1..Cardinality(Complaints) /\ m.stamp \in 0..changes
    /\ Len(m.got) <= Queries(m)

\* What the page, its requests and the store hold; a list never shows more than
\* one page, and never the same complaint twice.
TypeOK ==
    /\ complaint \in [Complaints -> [open : BOOLEAN, assigned : BOOLEAN, point : Points]]
    /\ IsUi(ui) /\ IsRequest(shown) /\ \A m \in flight : IsRequest(m)
    /\ \A t \in Types : /\ Len(store.rows[t]) <= PageSize /\ IsInjective(store.rows[t])
                        /\ Len(store.counts[t]) \in {0, 2 * Len(Places)}
    /\ store.total \in 0..Cardinality(Complaints) /\ store.mapped \subseteq Complaints
    /\ store.unmapped \in 0..Cardinality(Complaints)
    /\ lost \in BOOLEAN /\ acts \in 0..MaxActs /\ changes \in 0..MaxChanges

\* In whatever order answers come, a page at rest shows what was asked with the
\* type, the filters and the text it shows, unless a request failed.  (Which
\* page of the list it is may differ: the search asks for the first, and of two
\* requests of one click the first to be sent may be the last to be answered.)
ShownIsAsked ==
    flight = {} /\ ~lost /\ ui.view # "glance"
    => /\ shown.kind = ui.view /\ shown.type = ui.type /\ shown.filters = ui.filters
       /\ (shown.search = "text") = (ui.search = "text")

\* The list is never on a page after the last: whatever filters, tab or text do to
\* the number of complaints, the page that is marked is one that can be left.
PageExists ==
    ui.view = "list" => ui.page = 1 \/ ui.page <= LastPage(store.total)

\* Region, zone and community are three filters of their own, each offered after
\* the others, set and cleared in any order; some community satisfies them all.
FiltersAgree == \E c \in Communities : Located(c, ui.filters)

\* If nobody changed a complaint meanwhile, each complaint found is on the map or
\* among those counted as not mapped, and those with one coordinate are nowhere.
MapIsComplete ==
    ui.view = "map" /\ flight = {} /\ ~lost /\ shown.stamp = changes
    => Cardinality(store.mapped) + store.unmapped
         = Cardinality({c \in Found(shown) : complaint[c].point # "one"})

Distance(a, b) == IF a < b THEN b - a ELSE a - b

\* The unassigned complaints of a zone and of an office are a difference of two
\* counts made at two moments: it is out by no more than was changed since it was
\* asked for.  (It can be negative.)
CountsAreClose ==
    shown.kind = "glance" =>
        \A i \in 1..Len(Places) :
            LET unassigned == {c \in Complaints :
                    /\ TypeOf[c] = shown.type /\ CommunityOf[c] \in Places[i]
                    /\ complaint[c].open /\ ~complaint[c].assigned}
            IN  Distance(Bars(store.counts[shown.type], i).unassigned, Cardinality(unassigned))
                  <= changes - shown.stamp

=============================================================================
