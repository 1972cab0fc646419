------------------------ MODULE ComplaintSearchProofs ------------------------
(***************************************************************************)
(* What the complaints page keeps true for every set of complaints, every  *)
(* size of a page and every division into regions, zones and communities:  *)
(* the list is on a page there is, and the filters of a place agree.       *)
(***************************************************************************)
EXTENDS ComplaintSearch, FiniteSetTheorems, SequenceTheorems, TLAPS

IsUiRecord(u) ==
    /\ u = [view |-> u.view, type |-> u.type, filters |-> u.filters, search |-> u.search,
            page |-> u.page, descending |-> u.descending]
    /\ u.view \in Views

IsStoreRecord(s) ==
    s = [rows |-> s.rows, total |-> s.total, mapped |-> s.mapped,
         unmapped |-> s.unmapped, counts |-> s.counts]

IsMessage(m) ==
    /\ m = [kind |-> m.kind, type |-> m.type, filters |-> m.filters, search |-> m.search,
            page |-> m.page, descending |-> m.descending,
            cause |-> m.cause, stamp |-> m.stamp, got |-> m.got]
    /\ m.kind \in Views

\* The records keep their fields, and a request keeps its kind.
Shape == IsUiRecord(ui) /\ IsStoreRecord(store) /\ \A m \in flight : IsMessage(m)

\* The list is on its first page or on one there is; also while the list is not
\* shown, because the views share the page and the total.
OnPage == ui.page = 1 \/ ui.page <= LastPage(store.total)

-----------------------------------------------------------------------------
(* The shape of the state.                                                 *)

LEMMA RequestIsMessage ==
    ASSUME NEW u, NEW cause, u.view \in Views
    PROVE  IsMessage(Request(u, cause))
BY DEF Request, IsMessage

LEMMA AsksForMessages ==
    ASSUME NEW u, NEW a, NEW b, u.view \in Views
    PROVE  \A m \in AsksFor(u, a, b) : IsMessage(m)
BY RequestIsMessage DEF AsksFor

\* What the user does keeps the shape, if what it puts in the page and asks has it.
LEMMA DoesKeepsShape ==
    ASSUME Shape, NEW u, NEW asked, Does(u, asked),
           IsUiRecord(u), \A m \in asked : IsMessage(m), IsStoreRecord(store')
    PROVE  Shape'
BY DEF Does, Shape

LEMMA NewUiShape ==
    ASSUME NEW v \in Views
    PROVE  IsUiRecord(NewUi(v)) /\ NewUi(v).page = 1 /\ NewUi(v).filters = DefaultFilters
BY DEF NewUi, IsUiRecord

\* A view that goes away leaves the total of the list.
LEMMA UnmountedShape ==
    ASSUME NEW v, Shape
    PROVE  IsStoreRecord(Unmounted(v)) /\ Unmounted(v).total = store.total
<1>1. CASE v = "list"
  <2>1. Unmounted(v) = [store EXCEPT !.rows = [t \in Types |-> <<>>]]
    BY <1>1 DEF Unmounted
  <2>2. QED
    BY <2>1 DEF Shape, IsStoreRecord
<1>2. CASE v # "list"
  <2>1. Unmounted(v) = [store EXCEPT !.mapped = {}, !.unmapped = 0]
    BY <1>2 DEF Unmounted
  <2>2. QED
    BY <2>1 DEF Shape, IsStoreRecord
<1>3. QED
  BY <1>1, <1>2

\* An answer keeps the fields of the store; only one to the list changes the total.
LEMMA AnsweredShape ==
    ASSUME NEW m, Shape, m.kind \in Views
    PROVE  /\ IsStoreRecord(Answered(m))
           /\ Answered(m).total = IF m.kind = "list" THEN m.got[2] ELSE store.total
<1>1. CASE m.kind = "list"
  <2>1. Answered(m) = [store EXCEPT !.rows[m.type] = m.got[1], !.total = m.got[2]]
    BY <1>1 DEF Answered
  <2>2. QED
    BY <1>1, <2>1 DEF Shape, IsStoreRecord
<1>2. CASE m.kind = "map"
  <2>1. Answered(m) = [store EXCEPT !.mapped = m.got[1], !.unmapped = m.got[2]]
    BY <1>2 DEF Answered
  <2>2. QED
    BY <1>2, <2>1 DEF Shape, IsStoreRecord
<1>3. CASE m.kind = "glance"
  <2>1. Answered(m) = [store EXCEPT !.counts[m.type] = m.got]
    BY <1>3 DEF Answered
  <2>2. QED
    BY <1>3, <2>1 DEF Shape, IsStoreRecord
<1>4. QED
  BY <1>1, <1>2, <1>3 DEF Views

-----------------------------------------------------------------------------
(* What a step does to the fields of the page and to the total of the list. *)

LEMMA FilteredEffect ==
    ASSUME Shape, NEW f, Filtered(f)
    PROVE  Shape' /\ store' = store /\ ui'.page = ui.page /\ ui'.filters = f
<1> DEFINE u == [ui EXCEPT !.filters = f]
<1>1. IsUiRecord(u) /\ u.page = ui.page /\ u.filters = f
  BY DEF Shape, IsUiRecord
<1>2. u.view \in Views
  BY <1>1 DEF IsUiRecord
<1>3. Does(u, AsksFor(u, TRUE, FALSE)) /\ store' = store
  BY DEF Filtered
<1> HIDE DEF u
<1>4. \A m \in AsksFor(u, TRUE, FALSE) : IsMessage(m)
  BY <1>2, AsksForMessages
<1>5. Shape'
  BY <1>1, <1>3, <1>4, DoesKeepsShape DEF Shape
<1>6. QED
  BY <1>1, <1>3, <1>5 DEF Does

LEMMA TabEffect ==
    ASSUME Shape, NEW type, handleComplaintTabChange(type)
    PROVE  Shape' /\ store' = store /\ ui'.page = ui.page /\ ui'.filters = DefaultFilters
<1> DEFINE u == [ui EXCEPT !.type = type, !.filters = DefaultFilters, !.search = ""]
<1>1. IsUiRecord(u) /\ u.page = ui.page /\ u.filters = DefaultFilters
  <2> DEFINE u1 == [ui EXCEPT !.type = type]
             u2 == [u1 EXCEPT !.filters = DefaultFilters]
  <2>1. IsUiRecord(u1) /\ u1.page = ui.page
    BY DEF Shape, IsUiRecord
  <2>2. u = [u2 EXCEPT !.search = ""]
    OBVIOUS
  <2> HIDE DEF u, u1
  <2>3. IsUiRecord(u2) /\ u2.page = ui.page /\ u2.filters = DefaultFilters
    BY <2>1 DEF IsUiRecord
  <2> HIDE DEF u2
  <2>4. QED
    BY <2>2, <2>3 DEF IsUiRecord
<1>2. u.view \in Views
  BY <1>1 DEF IsUiRecord
<1>3. Does(u, AsksFor(u, TRUE, ui.search # "")) /\ store' = store
  BY DEF handleComplaintTabChange
<1> HIDE DEF u
<1>4. \A m \in AsksFor(u, TRUE, ui.search # "") : IsMessage(m)
  BY <1>2, AsksForMessages
<1>5. Shape'
  BY <1>1, <1>3, <1>4, DoesKeepsShape DEF Shape
<1>6. QED
  BY <1>1, <1>3, <1>5 DEF Does

LEMMA SearchEffect ==
    ASSUME Shape, handleSearch
    PROVE  Shape' /\ store' = store /\ ui'.page = ui.page /\ ui'.filters = ui.filters
<1> DEFINE u == [ui EXCEPT !.search = "text"]
           first == [u EXCEPT !.page = 1, !.descending = TRUE]
<1>1. IsUiRecord(u) /\ u.page = ui.page /\ u.filters = ui.filters
  BY DEF Shape, IsUiRecord
<1>2. first.view \in Views
  BY <1>1 DEF IsUiRecord
<1>3. Does(u, {Request(first, "text")}) /\ store' = store
  BY DEF handleSearch
<1> HIDE DEF u, first
<1>4. \A m \in {Request(first, "text")} : IsMessage(m)
  BY <1>2, RequestIsMessage
<1>5. Shape'
  BY <1>1, <1>3, <1>4, DoesKeepsShape DEF Shape
<1>6. QED
  BY <1>1, <1>3, <1>5 DEF Does

LEMMA ClearEffect ==
    ASSUME Shape, handleClear
    PROVE  Shape' /\ store' = store /\ ui'.page = ui.page /\ ui'.filters = ui.filters
<1> DEFINE u == [ui EXCEPT !.search = "undefined"]
<1>1. IsUiRecord(u) /\ u.page = ui.page /\ u.filters = ui.filters
  BY DEF Shape, IsUiRecord
<1>2. u.view \in Views
  BY <1>1 DEF IsUiRecord
<1>3. Does(u, AsksFor(u, FALSE, TRUE)) /\ store' = store
  BY DEF handleClear
<1> HIDE DEF u
<1>4. \A m \in AsksFor(u, FALSE, TRUE) : IsMessage(m)
  BY <1>2, AsksForMessages
<1>5. Shape'
  BY <1>1, <1>3, <1>4, DoesKeepsShape DEF Shape
<1>6. QED
  BY <1>1, <1>3, <1>5 DEF Does

LEMMA SortEffect ==
    ASSUME Shape, handleSort
    PROVE  Shape' /\ store' = store /\ ui'.page = ui.page /\ ui'.filters = ui.filters
<1> DEFINE u == [ui EXCEPT !.descending = ~ui.descending]
<1>1. IsUiRecord(u) /\ u.page = ui.page /\ u.filters = ui.filters
  BY DEF Shape, IsUiRecord
<1>2. u.view \in Views
  BY <1>1 DEF IsUiRecord
<1>3. Does(u, AsksFor(u, TRUE, FALSE)) /\ store' = store
  BY DEF handleSort
<1> HIDE DEF u
<1>4. \A m \in AsksFor(u, TRUE, FALSE) : IsMessage(m)
  BY <1>2, AsksForMessages
<1>5. Shape'
  BY <1>1, <1>3, <1>4, DoesKeepsShape DEF Shape
<1>6. QED
  BY <1>1, <1>3, <1>5 DEF Does

\* The list goes to one of its pages.
LEMMA PageEffect ==
    ASSUME Shape, handlePageChange
    PROVE  Shape' /\ store' = store /\ ui'.filters = ui.filters
           /\ ui'.page \in 1..LastPage(store.total)
<1>1. PICK p \in 1..LastPage(store.total) :
        /\ Does([ui EXCEPT !.page = p], AsksFor([ui EXCEPT !.page = p], TRUE, FALSE))
        /\ store' = store
  BY DEF handlePageChange
<1> DEFINE u == [ui EXCEPT !.page = p]
<1>2. IsUiRecord(u) /\ u.page = p /\ u.filters = ui.filters
  BY DEF Shape, IsUiRecord
<1>3. u.view \in Views
  BY <1>2 DEF IsUiRecord
<1>4. Does(u, AsksFor(u, TRUE, FALSE)) /\ store' = store
  BY <1>1
<1> HIDE DEF u
<1>5. \A m \in AsksFor(u, TRUE, FALSE) : IsMessage(m)
  BY <1>3, AsksForMessages
<1>6. Shape'
  BY <1>2, <1>4, <1>5, DoesKeepsShape DEF Shape
<1>7. QED
  BY <1>2, <1>4, <1>6 DEF Does

LEMMA ToggleEffect ==
    ASSUME Shape, toggleViewType
    PROVE  Shape' /\ store'.total = store.total /\ ui'.page = 1 /\ ui'.filters = ui.filters
<1> DEFINE other == IF ui.view = "list" THEN "map" ELSE "list"
           u == [ui EXCEPT !.view = other, !.page = 1, !.descending = TRUE]
<1>1. IsUiRecord(u) /\ u.page = 1 /\ u.filters = ui.filters
  <2> DEFINE u1 == [ui EXCEPT !.view = other]
             u2 == [u1 EXCEPT !.page = 1]
  <2>1. other \in Views
    BY DEF Views
  <2>2. u = [u2 EXCEPT !.descending = TRUE]
    OBVIOUS
  <2> HIDE DEF u, other
  <2>3. IsUiRecord(u1) /\ u1.filters = ui.filters
    BY <2>1 DEF Shape, IsUiRecord
  <2> HIDE DEF u1
  <2>4. IsUiRecord(u2) /\ u2.page = 1 /\ u2.filters = ui.filters
    BY <2>3 DEF IsUiRecord
  <2> HIDE DEF u2
  <2>5. QED
    BY <2>2, <2>4 DEF IsUiRecord
<1>2. u.view \in Views
  BY <1>1 DEF IsUiRecord
<1>3. Does(u, AsksFor(u, TRUE, TRUE)) /\ store' = Unmounted(ui.view)
  BY DEF toggleViewType
<1> HIDE DEF u
<1>4. \A m \in AsksFor(u, TRUE, TRUE) : IsMessage(m)
  BY <1>2, AsksForMessages
<1>5. IsStoreRecord(store') /\ store'.total = store.total
  BY <1>3, UnmountedShape
<1>6. Shape'
  BY <1>1, <1>3, <1>4, <1>5, DoesKeepsShape
<1>7. QED
  BY <1>1, <1>3, <1>5, <1>6 DEF Does

LEMMA GlanceEffect ==
    ASSUME Shape, Glance
    PROVE  Shape' /\ store'.total = store.total /\ ui'.page = 1 /\ ui'.filters = DefaultFilters
<1> DEFINE u == NewUi("glance")
           asked == {Request([u EXCEPT !.type = t], "filters") : t \in Types}
<1>1. IsUiRecord(u) /\ u.page = 1 /\ u.filters = DefaultFilters
  BY NewUiShape DEF Views
<1>2. Does(u, asked) /\ store' = Unmounted(ui.view)
  BY DEF Glance
<1>3. \A t \in Types : [u EXCEPT !.type = t].view \in Views
  BY DEF NewUi, Views
<1>4. \A m \in asked : IsMessage(m)
  BY <1>3, RequestIsMessage
<1>5. IsStoreRecord(store') /\ store'.total = store.total
  BY <1>2, UnmountedShape
<1> HIDE DEF u, asked
<1>6. Shape'
  BY <1>1, <1>2, <1>4, <1>5, DoesKeepsShape
<1>7. QED
  BY <1>1, <1>2, <1>5, <1>6 DEF Does

LEMMA ReturnEffect ==
    ASSUME Shape, Return
    PROVE  Shape' /\ store' = store /\ ui'.page = 1 /\ ui'.filters = DefaultFilters
<1> DEFINE u == NewUi("list")
<1>1. IsUiRecord(u) /\ u.page = 1 /\ u.filters = DefaultFilters
  BY NewUiShape DEF Views
<1>2. Does(u, AsksFor(u, TRUE, TRUE)) /\ store' = store
  BY DEF Return
<1> HIDE DEF u
<1>3. \A m \in AsksFor(u, TRUE, TRUE) : IsMessage(m)
  BY <1>1, AsksForMessages DEF IsUiRecord
<1>4. Shape'
  BY <1>1, <1>2, <1>3, DoesKeepsShape DEF Shape
<1>5. QED
  BY <1>1, <1>2, <1>4 DEF Does

LEMMA ServeEffect ==
    ASSUME Shape, NEW m \in flight, Serve(m)
    PROVE  Shape' /\ store' = store /\ ui' = ui
<1> DEFINE n == [m EXCEPT !.got = Append(@, Query(m, Len(@) + 1))]
<1>1. flight' = (flight \ {m}) \cup {n} /\ store' = store /\ ui' = ui
  BY DEF Serve
<1>2. IsMessage(n)
  BY DEF Shape, IsMessage
<1> HIDE DEF n
<1>3. QED
  BY <1>1, <1>2 DEF Shape

LEMMA FailsEffect ==
    ASSUME Shape, NEW m \in flight, Fails(m)
    PROVE  Shape' /\ store' = store /\ ui' = ui
BY DEF Shape, Fails

LEMMA OthersEffect ==
    ASSUME Shape, NEW c \in Complaints, Others(c)
    PROVE  Shape' /\ store' = store /\ ui' = ui
BY DEF Shape, Others

\* An answer with another total takes the list back to its first page.
LEMMA ReceiveEffect ==
    ASSUME Shape, NEW m \in flight, Receive(m)
    PROVE  /\ Shape' /\ ui'.filters = ui.filters
           /\ ui'.page = 1 \/ (ui'.page = ui.page /\ store'.total = store.total)
<1> DEFINE back == m.kind = "list" /\ m.got[2] # store.total /\ ui.page # 1
           u == IF back THEN [ui EXCEPT !.page = 1] ELSE ui
<1>1. IsUiRecord(u) /\ u.filters = ui.filters /\ u.page = (IF back THEN 1 ELSE ui.page)
  BY DEF Shape, IsUiRecord
<1>2. ui' = u /\ store' = Answered(m) /\ flight' = (flight \ {m}) \cup AsksFor(u, back, FALSE)
  BY DEF Receive
<1>3. IsStoreRecord(store') /\ store'.total = IF m.kind = "list" THEN m.got[2] ELSE store.total
  BY <1>2, AnsweredShape DEF Shape, IsMessage
<1>4. ui'.page = 1 \/ (ui'.page = ui.page /\ store'.total = store.total)
  BY <1>1, <1>2, <1>3
<1> HIDE DEF u
<1>5. \A n \in AsksFor(u, back, FALSE) : IsMessage(n)
  BY <1>1, AsksForMessages DEF IsUiRecord
<1>6. QED
  BY <1>1, <1>2, <1>3, <1>4, <1>5 DEF Shape

-----------------------------------------------------------------------------
(* The page of the list.                                                   *)

\* Every action of the user leaves the total, and the page as it was, first, or
\* one there is.
LEMMA UserEffect ==
    ASSUME Shape, User
    PROVE  /\ Shape' /\ store'.total = store.total
           /\ \/ ui'.page \in {1, ui.page}
              \/ ui'.page \in 1..LastPage(store.total)
<1>1. CASE SetFilter
  <2>1. PICK f : Filtered(f)
    BY <1>1 DEF SetFilter
  <2>2. QED
    BY <2>1, FilteredEffect
<1>2. CASE handleSearch
  BY <1>2, SearchEffect
<1>3. CASE handleClear
  BY <1>3, ClearEffect
<1>4. CASE handleSort
  BY <1>4, SortEffect
<1>5. CASE handlePageChange
  BY <1>5, PageEffect
<1>6. CASE toggleViewType
  BY <1>6, ToggleEffect
<1>7. CASE Glance
  BY <1>7, GlanceEffect
<1>8. CASE Return
  BY <1>8, ReturnEffect
<1>9. CASE \E t \in Types : handleComplaintTabChange(t)
  BY <1>9, TabEffect
<1>10. QED
  BY <1>1, <1>2, <1>3, <1>4, <1>5, <1>6, <1>7, <1>8, <1>9 DEF User

LEMMA InitShape == Init => Shape /\ ui = NewUi("list")
<1> SUFFICES ASSUME Init
             PROVE  Shape /\ ui = NewUi("list")
  OBVIOUS
<1>1. ui = NewUi("list") /\ store = NoStore /\ flight = AsksFor(ui, TRUE, TRUE)
  BY DEF Init
<1>2. IsUiRecord(ui)
  BY <1>1, NewUiShape DEF Views
<1>3. IsStoreRecord(store)
  BY <1>1 DEF NoStore, IsStoreRecord
<1>4. \A m \in flight : IsMessage(m)
  BY <1>1, <1>2, AsksForMessages DEF IsUiRecord
<1>5. QED
  BY <1>1, <1>2, <1>3, <1>4 DEF Shape

\* The list is on a page there is: a page is only left for one of those the total
\* allows, and whoever changes the total takes the list back to the first.
LEMMA PageStep ==
    ASSUME Shape, OnPage, [Next]_vars
    PROVE  Shape' /\ OnPage'
<1>1. CASE User
  <2>1. /\ Shape' /\ store'.total = store.total
        /\ ui'.page \in {1, ui.page} \/ ui'.page \in 1..LastPage(store.total)
    BY <1>1, UserEffect
  <2>2. CASE ui'.page \in {1, ui.page}
    BY <2>1, <2>2 DEF OnPage, LastPage
  <2>3. CASE ui'.page \in 1..LastPage(store.total)
    BY <2>1, <2>3 DEF OnPage, LastPage
  <2>4. QED
    BY <2>1, <2>2, <2>3
<1>2. ASSUME NEW m \in flight, Serve(m)
      PROVE  Shape' /\ OnPage'
  BY <1>2, ServeEffect DEF OnPage, LastPage
<1>3. ASSUME NEW m \in flight, Fails(m)
      PROVE  Shape' /\ OnPage'
  BY <1>3, FailsEffect DEF OnPage, LastPage
<1>4. ASSUME NEW m \in flight, Receive(m)
      PROVE  Shape' /\ OnPage'
  BY <1>4, ReceiveEffect DEF OnPage, LastPage
<1>5. ASSUME NEW c \in Complaints, Others(c)
      PROVE  Shape' /\ OnPage'
  BY <1>5, OthersEffect DEF OnPage, LastPage
<1>6. CASE UNCHANGED vars
  BY <1>6 DEF vars, Shape, OnPage, LastPage
<1>7. QED
  BY <1>1, <1>2, <1>3, <1>4, <1>5, <1>6 DEF Next

\* The page the list of complaints is on is always one the pagination can leave,
\* for every number of complaints and every size of a page.
THEOREM ListPageExists == Spec => []PageExists
<1>1. Init => Shape /\ OnPage
  BY InitShape, NewUiShape DEF OnPage, Views
<1>2. (Shape /\ OnPage) /\ [Next]_vars => (Shape /\ OnPage)'
  BY PageStep
<1>3. OnPage => PageExists
  BY DEF OnPage, PageExists
<1>4. QED
  BY <1>1, <1>2, <1>3, PTL DEF Spec

-----------------------------------------------------------------------------
(* The filters of a place.                                                 *)

PlaceOK(f) == f \in Filters /\ \E c \in Communities : Located(c, f)

\* The filters the page starts with: the default zone has a community.
LEMMA DefaultsAgree == PlaceOK(DefaultFilters)
<1>1. PICK c \in Communities : ZoneOf[c] = DefaultZone
  BY SearchAssumption
<1> DEFINE zoned == [NoFilters EXCEPT !.zone = DefaultZone]
<1>a. DefaultFilters = [zoned EXCEPT !.status = "OPEN"]
  BY DEF DefaultFilters
<1>b. zoned = [region |-> None, zone |-> DefaultZone, community |-> None,
               status |-> None, officer |-> None]
  BY DEF NoFilters
<1> HIDE DEF zoned
<1>2. DefaultFilters = [region |-> None, zone |-> DefaultZone, community |-> None,
                        status |-> "OPEN", officer |-> None]
  BY <1>a, <1>b
<1>3. DefaultFilters \in Filters
  BY <1>2, SearchAssumption DEF Filters
<1>4. Located(c, DefaultFilters)
  BY <1>1, <1>2 DEF Located
<1>5. QED
  BY <1>3, <1>4 DEF PlaceOK

LEMMA RegionAgrees ==
    ASSUME NEW f, PlaceOK(f), NEW r \in Offered(selectCascadedRegion(f), f.region)
    PROVE  PlaceOK([f EXCEPT !.region = r])
<1> DEFINE g == [f EXCEPT !.region = r]
<1>1. PICK c \in Communities : Located(c, f)
  BY DEF PlaceOK
<1>2. /\ f \in Filters
      /\ ZoneOf[c] \in Zones /\ RegionOf[ZoneOf[c]] \in Regions
      /\ c # None /\ ZoneOf[c] # None /\ RegionOf[ZoneOf[c]] # None
  BY SearchAssumption DEF PlaceOK
<1>3. r \in Regions \cup {None}
  BY DEF Offered, selectCascadedRegion
<1>4. /\ g \in Filters
      /\ g.region = r /\ g.zone = f.zone /\ g.community = f.community
  BY <1>2, <1>3 DEF Filters
<1> HIDE DEF g
<1>5. CASE r \in {None, f.region}
  <2>1. Located(c, g)
    BY <1>1, <1>4, <1>5 DEF Located
  <2>2. QED
    BY <1>4, <2>1 DEF PlaceOK, g
<1>6. CASE r \notin {None, f.region} /\ (f.community # None \/ f.zone # None)
  <2>1. r = RegionOf[ZoneOf[c]]
    BY <1>1, <1>2, <1>6 DEF Offered, selectCascadedRegion, Located
  <2>2. Located(c, g)
    BY <1>1, <1>4, <2>1 DEF Located
  <2>3. QED
    BY <1>4, <2>2 DEF PlaceOK, g
<1>7. CASE r # None /\ f.community = None /\ f.zone = None
  <2>1. PICK z \in Zones : RegionOf[z] = r
    BY <1>3, <1>7, SearchAssumption
  <2>2. PICK d \in Communities : ZoneOf[d] = z
    BY SearchAssumption
  <2>3. Located(d, g)
    BY <1>4, <1>7, <2>1, <2>2 DEF Located
  <2>4. QED
    BY <1>4, <2>3 DEF PlaceOK, g
<1>8. QED
  BY <1>5, <1>6, <1>7

LEMMA ZoneAgrees ==
    ASSUME NEW f, PlaceOK(f), NEW z \in Offered(selectCascadedZone(f), f.zone)
    PROVE  PlaceOK([f EXCEPT !.zone = z])
<1> DEFINE g == [f EXCEPT !.zone = z]
<1>1. PICK c \in Communities : Located(c, f)
  BY DEF PlaceOK
<1>2. /\ f \in Filters
      /\ ZoneOf[c] \in Zones /\ RegionOf[ZoneOf[c]] \in Regions
      /\ c # None /\ ZoneOf[c] # None /\ RegionOf[ZoneOf[c]] # None
  BY SearchAssumption DEF PlaceOK
<1>3. z \in Zones \cup {None}
  BY DEF Offered, selectCascadedZone
<1>4. /\ g \in Filters
      /\ g.region = f.region /\ g.zone = z /\ g.community = f.community
  BY <1>2, <1>3 DEF Filters
<1> HIDE DEF g
<1>5. CASE z \in {None, f.zone}
  <2>1. Located(c, g)
    BY <1>1, <1>4, <1>5 DEF Located
  <2>2. QED
    BY <1>4, <2>1 DEF PlaceOK, g
<1>6. CASE z \notin {None, f.zone} /\ f.community # None
  <2>1. z = ZoneOf[c]
    BY <1>1, <1>2, <1>6 DEF Offered, selectCascadedZone, Located
  <2>2. Located(c, g)
    BY <1>1, <1>4, <2>1 DEF Located
  <2>3. QED
    BY <1>4, <2>2 DEF PlaceOK, g
<1>7. CASE z \notin {None, f.zone} /\ f.community = None
  <2>1. z \in Zones /\ f.region \in {None, RegionOf[z]}
    BY <1>3, <1>7 DEF Offered, selectCascadedZone
  <2>2. PICK d \in Communities : ZoneOf[d] = z
    BY <2>1, SearchAssumption
  <2>3. Located(d, g)
    BY <1>4, <1>7, <2>1, <2>2 DEF Located
  <2>4. QED
    BY <1>4, <2>3 DEF PlaceOK, g
<1>8. QED
  BY <1>5, <1>6, <1>7

LEMMA CommunityAgrees ==
    ASSUME NEW f, PlaceOK(f), NEW d \in Offered(selectCascadedCommunity(f), f.community)
    PROVE  PlaceOK([f EXCEPT !.community = d])
<1> DEFINE g == [f EXCEPT !.community = d]
<1>1. PICK c \in Communities : Located(c, f)
  BY DEF PlaceOK
<1>2. /\ f \in Filters
      /\ ZoneOf[c] \in Zones /\ RegionOf[ZoneOf[c]] \in Regions
      /\ c # None /\ ZoneOf[c] # None /\ RegionOf[ZoneOf[c]] # None
  BY SearchAssumption DEF PlaceOK
<1>3. d \in Communities \cup {None}
  BY DEF Offered, selectCascadedCommunity
<1>4. /\ g \in Filters
      /\ g.region = f.region /\ g.zone = f.zone /\ g.community = d
  BY <1>2, <1>3 DEF Filters
<1> HIDE DEF g
<1>5. CASE d = None
  <2>1. Located(c, g)
    BY <1>1, <1>4, <1>5 DEF Located
  <2>2. QED
    BY <1>4, <2>1 DEF PlaceOK, g
<1>6. CASE d # None
  <2>1. /\ d \in Communities
        /\ f.zone \in {None, ZoneOf[d]} /\ (f.zone = None => f.region \in {None, RegionOf[ZoneOf[d]]})
    BY <1>3, <1>6 DEF Offered, selectCascadedCommunity
  <2>2. f.region \in {None, RegionOf[ZoneOf[d]]}
    BY <1>1, <1>2, <2>1 DEF Located
  <2>3. Located(d, g)
    BY <1>4, <2>1, <2>2 DEF Located
  <2>4. QED
    BY <1>4, <2>1, <2>3 DEF PlaceOK, g
<1>7. QED
  BY <1>5, <1>6

\* The status and the officer say nothing of the place.
LEMMA OthersAgree ==
    ASSUME NEW f, PlaceOK(f)
    PROVE  /\ \A v \in {"OPEN", None} : PlaceOK([f EXCEPT !.status = v])
           /\ \A o \in {"Unassigned", None} : PlaceOK([f EXCEPT !.officer = o])
<1>1. PICK c \in Communities : Located(c, f)
  BY DEF PlaceOK
<1>2. f \in Filters
  BY DEF PlaceOK
<1>3. ASSUME NEW v \in {"OPEN", None}
      PROVE  PlaceOK([f EXCEPT !.status = v])
  <2> DEFINE g == [f EXCEPT !.status = v]
  <2>1. g \in Filters /\ g.region = f.region /\ g.zone = f.zone /\ g.community = f.community
    BY <1>2 DEF Filters
  <2> HIDE DEF g
  <2>2. Located(c, g)
    BY <1>1, <2>1 DEF Located
  <2>3. QED
    BY <2>1, <2>2 DEF PlaceOK, g
<1>4. ASSUME NEW o \in {"Unassigned", None}
      PROVE  PlaceOK([f EXCEPT !.officer = o])
  <2> DEFINE g == [f EXCEPT !.officer = o]
  <2>1. g \in Filters /\ g.region = f.region /\ g.zone = f.zone /\ g.community = f.community
    BY <1>2 DEF Filters
  <2> HIDE DEF g
  <2>2. Located(c, g)
    BY <1>1, <2>1 DEF Located
  <2>3. QED
    BY <2>1, <2>2 DEF PlaceOK, g
<1>5. QED
  BY <1>3, <1>4

LEMMA SetFilterAgrees ==
    ASSUME Shape, PlaceOK(ui.filters), SetFilter
    PROVE  PlaceOK(ui'.filters)
<1> DEFINE f == ui.filters
<1>1. ASSUME NEW r \in Offered(selectCascadedRegion(f), f.region), Filtered([f EXCEPT !.region = r])
      PROVE  PlaceOK(ui'.filters)
  BY <1>1, FilteredEffect, RegionAgrees
<1>2. ASSUME NEW z \in Offered(selectCascadedZone(f), f.zone), Filtered([f EXCEPT !.zone = z])
      PROVE  PlaceOK(ui'.filters)
  BY <1>2, FilteredEffect, ZoneAgrees
<1>3. ASSUME NEW c \in Offered(selectCascadedCommunity(f), f.community),
             Filtered([f EXCEPT !.community = c])
      PROVE  PlaceOK(ui'.filters)
  BY <1>3, FilteredEffect, CommunityAgrees
<1>4. ASSUME NEW v \in Offered({"OPEN"}, f.status), Filtered([f EXCEPT !.status = v])
      PROVE  PlaceOK(ui'.filters)
  <2>1. v \in {"OPEN", None}
    BY <1>4 DEF Offered
  <2>2. QED
    BY <1>4, <2>1, FilteredEffect, OthersAgree
<1>5. ASSUME NEW o \in Offered({"Unassigned"}, f.officer), Filtered([f EXCEPT !.officer = o])
      PROVE  PlaceOK(ui'.filters)
  <2>1. o \in {"Unassigned", None}
    BY <1>5 DEF Offered
  <2>2. QED
    BY <1>5, <2>1, FilteredEffect, OthersAgree
<1>6. QED
  BY <1>1, <1>2, <1>3, <1>4, <1>5 DEF SetFilter

LEMMA PlaceStep ==
    ASSUME Shape, PlaceOK(ui.filters), [Next]_vars
    PROVE  Shape' /\ PlaceOK(ui'.filters)
<1>1. CASE User
  <2>1. Shape'
    BY <1>1, UserEffect
  <2>2. CASE SetFilter
    BY <2>1, <2>2, SetFilterAgrees
  <2>3. CASE handleSearch \/ handleClear \/ handleSort \/ handlePageChange \/ toggleViewType
    BY <2>1, <2>3, SearchEffect, ClearEffect, SortEffect, PageEffect, ToggleEffect
  <2>4. CASE Glance \/ Return \/ \E t \in Types : handleComplaintTabChange(t)
    BY <2>1, <2>4, GlanceEffect, ReturnEffect, TabEffect, DefaultsAgree
  <2>5. QED
    BY <1>1, <2>2, <2>3, <2>4 DEF User
<1>2. ASSUME NEW m \in flight, Serve(m)
      PROVE  Shape' /\ PlaceOK(ui'.filters)
  BY <1>2, ServeEffect
<1>3. ASSUME NEW m \in flight, Fails(m)
      PROVE  Shape' /\ PlaceOK(ui'.filters)
  BY <1>3, FailsEffect
<1>4. ASSUME NEW m \in flight, Receive(m)
      PROVE  Shape' /\ PlaceOK(ui'.filters)
  BY <1>4, ReceiveEffect
<1>5. ASSUME NEW c \in Complaints, Others(c)
      PROVE  Shape' /\ PlaceOK(ui'.filters)
  BY <1>5, OthersEffect
<1>6. CASE UNCHANGED vars
  BY <1>6 DEF vars, Shape
<1>7. QED
  BY <1>1, <1>2, <1>3, <1>4, <1>5, <1>6 DEF Next

\* In whatever order region, zone and community are set and cleared, some community
\* satisfies the three, for every division of the province.
THEOREM PlaceFiltersAgree == Spec => []FiltersAgree
<1> DEFINE Inv == Shape /\ PlaceOK(ui.filters)
<1>1. Init => Inv
  BY InitShape, NewUiShape, DefaultsAgree DEF Views
<1>2. Inv /\ [Next]_vars => Inv'
  BY PlaceStep
<1>3. Inv => FiltersAgree
  BY DEF PlaceOK, FiltersAgree
<1> HIDE DEF Inv
<1>4. QED
  BY <1>1, <1>2, <1>3, PTL DEF Spec

-----------------------------------------------------------------------------
(* What the queries answer.                                                *)

Counts == 0..Cardinality(Complaints)

LEMMA CountOK ==
    ASSUME NEW S \in SUBSET Complaints
    PROVE  IsFiniteSet(S) /\ Cardinality(S) \in Nat /\ Cardinality(S) \in Counts
<1>1. IsFiniteSet(Complaints) /\ Cardinality(Complaints) \in Nat
  BY SearchAssumption, FS_CardinalityType
<1>2. IsFiniteSet(S) /\ Cardinality(S) <= Cardinality(Complaints)
  BY <1>1, FS_Subset
<1>3. Cardinality(S) \in Nat
  BY <1>2, FS_CardinalityType
<1>4. QED
  BY <1>1, <1>2, <1>3 DEF Counts

\* The order is total: each complaint found has a row of its own.
LEMMA SortedOK ==
    ASSUME NEW found \in SUBSET Complaints, NEW descending
    PROVE  /\ Sorted(found, descending) \in Seq(Complaints)
           /\ Len(Sorted(found, descending)) = Cardinality(found)
           /\ IsInjective(Sorted(found, descending))
<1> DEFINE B(c) == Before(found, c, descending)
           N == Cardinality(found)
           r == [c \in found |-> Cardinality(B(c)) + 1]
           s == Sorted(found, descending)
<1>1. IsFiniteSet(found) /\ N \in Nat /\ found \subseteq Nat
  BY CountOK, SearchAssumption
<1>2. \A c \in found : B(c) \subseteq found /\ c \notin B(c)
  BY <1>1 DEF Before
<1>3. \A c \in found : IsFiniteSet(B(c)) /\ Cardinality(B(c)) \in Nat
  <2>1. \A c \in found : B(c) \in SUBSET Complaints
    BY <1>2
  <2>2. QED
    BY <2>1, CountOK
<1>4. \A c, d \in found : c # d => c \in B(d) \/ d \in B(c)
  BY <1>1 DEF Before
<1>5. ASSUME NEW c \in found, NEW d \in found, c \in B(d)
      PROVE  B(c) \subseteq B(d)
  <2>1. CASE descending
    <3>1. c > d
      BY <1>5, <2>1 DEF Before
    <3>2. \A e \in found : e > c => e > d
      BY <1>1, <3>1
    <3>3. QED
      BY <2>1, <3>2 DEF Before
  <2>2. CASE ~descending
    <3>1. c < d
      BY <1>5, <2>2 DEF Before
    <3>2. \A e \in found : e < c => e < d
      BY <1>1, <3>1
    <3>3. QED
      BY <2>2, <3>2 DEF Before
  <2>3. QED
    BY <2>1, <2>2
<1> HIDE DEF B
<1>6. ASSUME NEW S, IsFiniteSet(S), NEW T \in SUBSET S, T # S, Cardinality(S) \in Nat, Cardinality(T) \in Nat
      PROVE  Cardinality(T) < Cardinality(S)
  BY <1>6, FS_Subset
<1>7. ASSUME NEW c \in found, NEW d \in found, c \in B(d)
      PROVE  Cardinality(B(c)) < Cardinality(B(d))
  <2>1. B(c) \in SUBSET B(d) /\ B(c) # B(d)
    BY <1>2, <1>5, <1>7
  <2>2. QED
    BY <1>3, <1>6, <2>1
<1>8. ASSUME NEW c \in found PROVE Cardinality(B(c)) < N
  <2>1. B(c) \in SUBSET found /\ B(c) # found
    BY <1>2
  <2>2. QED
    BY <1>1, <1>3, <1>6, <2>1
<1>9. r \in Injection(found, 1..N)
  <2>1. r \in [found -> 1..N]
    BY <1>1, <1>3, <1>8
  <2>2. \A c, d \in found : r[c] = r[d] => c = d
    BY <1>3, <1>4, <1>7
  <2>3. QED
    BY <2>1, <2>2 DEF Injection, IsInjective
<1>10. r \in Surjection(found, 1..N)
  <2>1. IsFiniteSet(1..N) /\ Cardinality(1..N) = N
    BY <1>1, FS_Interval
  <2>2. QED
    BY <1>9, <2>1, FS_Injection
<1>11. s = [n \in 1..N |-> CHOOSE c \in found : Cardinality(B(c)) = n - 1]
  BY DEF Sorted, B
<1>12. ASSUME NEW n \in 1..N
       PROVE  s[n] \in found /\ Cardinality(B(s[n])) = n - 1
  <2>1. \E c \in found : Cardinality(B(c)) = n - 1
    <3>1. PICK c \in found : r[c] = n
      BY <1>10 DEF Surjection
    <3>2. QED
      BY <1>1, <1>3, <3>1
  <2>2. QED
    BY <1>11, <2>1
<1> HIDE DEF s
<1>13. s \in [1..N -> Complaints]
  BY <1>11, <1>12
<1>14. s \in Seq(Complaints) /\ Len(s) = N
  BY <1>1, <1>13
<1>15. IsInjective(s)
  <2>1. ASSUME NEW m \in 1..N, NEW n \in 1..N, s[m] = s[n] PROVE m = n
    BY <1>1, <1>12, <2>1
  <2>2. DOMAIN s = 1..N
    BY <1>13
  <2>3. QED
    BY <2>1, <2>2 DEF IsInjective
<1>16. QED
  BY <1>14, <1>15 DEF s

PageLists == {rows \in Seq(Complaints) : Len(rows) <= PageSize /\ IsInjective(rows)}

\* A page is as long as a page, and has no complaint twice.
LEMMA PageOK ==
    ASSUME NEW rows \in Seq(Complaints), IsInjective(rows), NEW page \in Nat \ {0}
    PROVE  PageOf(rows, page) \in PageLists
<1> DEFINE first == (page - 1) * PageSize
           last == IF page * PageSize < Len(rows) THEN page * PageSize ELSE Len(rows)
           s == SubSeq(rows, first + 1, last)
<1>1. PageSize \in Nat \ {0} /\ Len(rows) \in Nat /\ DOMAIN rows = 1..Len(rows)
  BY SearchAssumption
<1>2. first \in Nat /\ page * PageSize = first + PageSize
  <2>1. page - 1 \in Nat /\ PageSize \in Nat
    BY <1>1
  <2>2. first \in Nat
    BY <2>1
  <2>3. page * PageSize = first + PageSize
    BY <1>1
  <2>4. QED
    BY <2>2, <2>3
<1>3. PageOf(rows, page) = s
  BY DEF PageOf
<1> HIDE DEF first
<1>4. last \in Nat /\ last <= first + PageSize /\ last <= Len(rows)
  BY <1>1, <1>2
<1> HIDE DEF last
<1>5. /\ s \in Seq(Complaints)
      /\ Len(s) = IF first + 1 <= last THEN last - first ELSE 0
      /\ \A i \in 1..Len(s) : s[i] = rows[first + i] /\ first + i \in 1..Len(rows)
  <2>1. CASE first + 1 <= last
    BY <1>1, <1>2, <1>4, <2>1
  <2>2. CASE ~ (first + 1 <= last)
    <3>1. Len(s) = 0 /\ s \in Seq(Complaints)
      BY <1>1, <1>2, <1>4, <2>2
    <3>2. QED
      BY <2>2, <3>1
  <2>3. QED
    BY <2>1, <2>2
<1> HIDE DEF s
<1>6. Len(s) <= PageSize
  BY <1>1, <1>2, <1>4, <1>5
<1>7. IsInjective(s)
  <2>1. DOMAIN s = 1..Len(s) /\ Len(s) \in Nat
    BY <1>5
  <2>2. \A i, j \in 1..Len(s) : s[i] = s[j] => first + i = first + j
    BY <1>1, <1>5 DEF IsInjective
  <2>3. QED
    BY <1>2, <2>1, <2>2 DEF IsInjective
<1>8. QED
  BY <1>3, <1>5, <1>6, <1>7 DEF PageLists

LEMMA PlacesOK == Places \in Seq(UNION {SUBSET Communities, Offices}) /\ Len(Places) \in Nat
<1> DEFINE S == UNION {SUBSET Communities, Offices}
           n == Cardinality(Offices)
           zone == <<{c \in Communities : ZoneOf[c] = DefaultZone}>>
<1>1. n \in Nat /\ ExistsBijection(1..n, Offices)
  BY SearchAssumption, FS_CardinalityType
<1>2. PICK b : b \in Bijection(1..n, Offices)
  BY <1>1 DEF ExistsBijection
<1>3. b \in [1..n -> Offices] /\ IsInjective(b)
  BY <1>2 DEF Bijection, Injection
<1>4. SetToSeq(Offices) \in [1..n -> Offices]
  BY <1>3 DEF SetToSeq
<1>5. SetToSeq(Offices) \in Seq(S)
  BY <1>1, <1>4
<1>6. zone \in Seq(S)
  OBVIOUS
<1> HIDE DEF zone, S
<1>7. zone \o SetToSeq(Offices) \in Seq(S)
  BY <1>5, <1>6, ConcatProperties
<1>8. QED
  BY <1>7 DEF Places, zone, S

-----------------------------------------------------------------------------
(* What the page, its requests and the store hold.                         *)

Pages == {1} \cup 1..Cardinality(Complaints)

Uis == [view : Views, type : Types, filters : Filters, search : Searches,
        page : Pages, descending : BOOLEAN]

Tallies == {s \in Seq(Counts) : Len(s) \in {0, 2 * Len(Places)}}

Stores == [rows : [Types -> PageLists], total : Counts, mapped : SUBSET Complaints,
           unmapped : Counts, counts : [Types -> Tallies]]

AnswersTo(kind, n) ==
    IF kind = "glance" \/ n = 2 THEN Counts ELSE IF kind = "list" THEN PageLists ELSE SUBSET Complaints

Messages == [kind : Views, type : Types, filters : Filters, search : Searches,
             page : Pages, descending : BOOLEAN, cause : {"none", "filters", "search", "text"},
             stamp : Nat, got : Seq(PageLists \cup (SUBSET Complaints) \cup Counts)]

MessageOK(m) ==
    /\ m \in Messages
    /\ Len(m.got) <= Queries(m) /\ \A n \in DOMAIN m.got : m.got[n] \in AnswersTo(m.kind, n)

\* A request asks what a page shows: the view, the type, the filters and the text.
Asked(m, u) ==
    /\ m.kind = u.view
    /\ u.view # "glance" => /\ m.type = u.type /\ m.filters = u.filters
                            /\ (m.search = "text") = (u.search = "text")

\* Requests as they are sent.
Asks(u, requests) ==
    /\ requests # {}
    /\ \A m \in requests : MessageOK(m) /\ Asked(m, u) /\ m.stamp = changes /\ m.got = <<>>

LEMMA RequestOK ==
    ASSUME changes \in Nat, NEW u \in Uis, NEW cause \in {"none", "filters", "search", "text"}
    PROVE  /\ MessageOK(Request(u, cause)) /\ Asked(Request(u, cause), u)
           /\ Request(u, cause).stamp = changes /\ Request(u, cause).got = <<>>
           /\ Request(u, cause).kind = u.view
           /\ Request(u, cause).type = u.type /\ Request(u, cause).filters = u.filters
           /\ Request(u, cause).search = u.search
<1> DEFINE m == Request(u, cause)
<1>1. m = [kind |-> u.view, type |-> u.type, filters |-> u.filters, search |-> u.search,
           page |-> u.page, descending |-> u.descending,
           cause |-> cause, stamp |-> changes, got |-> <<>>]
  BY DEF Request
<1>2. <<>> \in Seq(PageLists \cup (SUBSET Complaints) \cup Counts) /\ Len(<<>>) = 0 /\ DOMAIN <<>> = {}
  OBVIOUS
<1> HIDE DEF m
<1>3. m \in Messages
  BY <1>1, <1>2 DEF Uis, Messages
<1>4. /\ m.kind = u.view /\ m.type = u.type /\ m.filters = u.filters /\ m.search = u.search
      /\ m.stamp = changes /\ m.got = <<>>
  BY <1>1
<1>5. Queries(m) \in Nat
  BY PlacesOK DEF Queries
<1>6. MessageOK(m)
  BY <1>2, <1>3, <1>4, <1>5 DEF MessageOK
<1>7. QED
  BY <1>4, <1>6 DEF m, Asked

LEMMA AsksForOK ==
    ASSUME changes \in Nat, NEW u \in Uis, NEW filters \in BOOLEAN, NEW search \in BOOLEAN
    PROVE  /\ \A m \in AsksFor(u, filters, search) :
                 MessageOK(m) /\ Asked(m, u) /\ m.stamp = changes /\ m.got = <<>>
           /\ filters \/ (search /\ u.search # "text") => AsksFor(u, filters, search) # {}
<1>1. \A cause \in {"filters", "search"} :
         /\ MessageOK(Request(u, cause)) /\ Asked(Request(u, cause), u)
         /\ Request(u, cause).stamp = changes /\ Request(u, cause).got = <<>>
  BY RequestOK
<1>2. QED
  BY <1>1 DEF AsksFor

LEMMA UpToOK ==
    ASSUME NEW total \in Counts, NEW p \in 1..LastPage(total)
    PROVE  p \in Pages
<1> DEFINE k == PageSize
           q == (total + k - 1) \div k
<1>1. k \in Nat \ {0} /\ Cardinality(Complaints) \in Nat /\ total \in Nat /\ total <= Cardinality(Complaints)
  BY SearchAssumption, FS_CardinalityType DEF Counts
<1>2. q \in Int /\ q * k <= total + k - 1
  BY <1>1
<1>3. q = LastPage(total)
  BY DEF LastPage
<1> HIDE DEF q, k
<1>4. q <= total \/ q <= 1
  <2>1. SUFFICES ASSUME q >= total + 1, q >= 2 PROVE FALSE
    BY <1>1, <1>2
  <2>2. (q - 1) * k >= q - 1
    <3>1. q - 1 \in Nat /\ k - 1 \in Nat
      BY <1>1, <1>2, <2>1
    <3>2. (q - 1) * (k - 1) >= 0
      BY <3>1
    <3>3. (q - 1) * k = (q - 1) * (k - 1) + (q - 1)
      BY <1>1, <1>2
    <3>4. QED
      BY <1>1, <1>2, <3>2, <3>3
  <2>3. q * k = (q - 1) * k + k
    BY <1>1, <1>2
  <2>4. QED
    BY <1>1, <1>2, <2>1, <2>2, <2>3
<1>5. p \in Nat /\ 1 <= p /\ p <= q
  BY <1>2, <1>3
<1>6. QED
  BY <1>1, <1>4, <1>2, <1>5 DEF Pages

LEMMA DefaultsOK ==
    ASSUME NEW v \in Views
    PROVE  NewUi(v) \in Uis /\ NewUi(v).view = v /\ DefaultFilters \in Filters /\ NewUi(v).search = ""
<1>1. DefaultFilters \in Filters
  BY DefaultsAgree DEF PlaceOK
<1>2. QED
  BY <1>1, SearchAssumption DEF NewUi, Uis, Pages, Searches

\* What filters offer are filters.
LEMMA OfferedOK ==
    ASSUME NEW f \in Filters
    PROVE  /\ \A r \in Offered(selectCascadedRegion(f), f.region) : [f EXCEPT !.region = r] \in Filters
           /\ \A z \in Offered(selectCascadedZone(f), f.zone) : [f EXCEPT !.zone = z] \in Filters
           /\ \A c \in Offered(selectCascadedCommunity(f), f.community) : [f EXCEPT !.community = c] \in Filters
           /\ \A v \in Offered({"OPEN"}, f.status) : [f EXCEPT !.status = v] \in Filters
           /\ \A o \in Offered({"Unassigned"}, f.officer) : [f EXCEPT !.officer = o] \in Filters
<1>1. /\ Offered(selectCascadedRegion(f), f.region) \subseteq Regions \cup {None}
      /\ Offered(selectCascadedZone(f), f.zone) \subseteq Zones \cup {None}
      /\ Offered(selectCascadedCommunity(f), f.community) \subseteq Communities \cup {None}
      /\ Offered({"OPEN"}, f.status) \subseteq {"OPEN", None}
      /\ Offered({"Unassigned"}, f.officer) \subseteq {"Unassigned", None}
  BY DEF Offered, selectCascadedRegion, selectCascadedZone, selectCascadedCommunity
<1>2. \A r \in Regions \cup {None} : [f EXCEPT !.region = r] \in Filters
  BY DEF Filters
<1>3. \A z \in Zones \cup {None} : [f EXCEPT !.zone = z] \in Filters
  BY DEF Filters
<1>4. \A c \in Communities \cup {None} : [f EXCEPT !.community = c] \in Filters
  BY DEF Filters
<1>5. \A v \in {"OPEN", None} : [f EXCEPT !.status = v] \in Filters
  BY DEF Filters
<1>6. \A o \in {"Unassigned", None} : [f EXCEPT !.officer = o] \in Filters
  BY DEF Filters
<1>7. QED
  BY <1>1, <1>2, <1>3, <1>4, <1>5, <1>6

\* What the user does asks for what the page then shows.
LEMMA UserAsks ==
    ASSUME changes \in Nat, ui \in Uis, store \in Stores, User
    PROVE  \E u \in Uis : \E requests :
              /\ Does(u, requests) /\ Asks(u, requests)
              /\ store' = store \/ store' = Unmounted(ui.view)
<1>0. /\ ui.view \in Views /\ ui.type \in Types /\ ui.filters \in Filters /\ ui.search \in Searches
      /\ ui.page \in Pages /\ ui.descending \in BOOLEAN /\ 1 \in Pages /\ store.total \in Counts
  BY DEF Uis, Pages, Stores
<1>1. CASE SetFilter
  <2>1. PICK f \in Filters : Filtered(f)
    BY <1>0, <1>1, OfferedOK DEF SetFilter
  <2> DEFINE u == [ui EXCEPT !.filters = f]
  <2>2. u \in Uis
    BY DEF Uis
  <2>3. Does(u, AsksFor(u, TRUE, FALSE)) /\ store' = store
    BY <2>1 DEF Filtered
  <2> HIDE DEF u
  <2>4. Asks(u, AsksFor(u, TRUE, FALSE))
    BY <2>2, AsksForOK DEF Asks
  <2>5. QED
    BY <2>2, <2>3, <2>4
<1>2. CASE handleSearch
  <2> DEFINE u == [ui EXCEPT !.search = "text"]
             v == [u EXCEPT !.page = 1, !.descending = TRUE]
  <2>1. u \in Uis /\ v \in Uis
    BY <1>0 DEF Uis, Searches
  <2>2. v.view = u.view /\ v.type = u.type /\ v.filters = u.filters /\ v.search = u.search
    BY DEF Uis
  <2>3. Does(u, {Request(v, "text")}) /\ store' = store
    BY <1>2 DEF handleSearch
  <2> HIDE DEF u, v
  <2>4. /\ MessageOK(Request(v, "text")) /\ Asked(Request(v, "text"), v)
        /\ Request(v, "text").stamp = changes /\ Request(v, "text").got = <<>>
    BY <2>1, RequestOK
  <2>5. Asked(Request(v, "text"), u)
    BY <2>2, <2>4 DEF Asked
  <2>6. Asks(u, {Request(v, "text")})
    BY <2>4, <2>5 DEF Asks
  <2>7. QED
    BY <2>1, <2>3, <2>6
<1>3. CASE handleClear
  <2> DEFINE u == [ui EXCEPT !.search = "undefined"]
  <2>1. u \in Uis /\ u.search = "undefined"
    BY DEF Uis, Searches
  <2>2. Does(u, AsksFor(u, FALSE, TRUE)) /\ store' = store
    BY <1>3 DEF handleClear
  <2> HIDE DEF u
  <2>3. Asks(u, AsksFor(u, FALSE, TRUE))
    BY <2>1, AsksForOK DEF Asks
  <2>4. QED
    BY <2>1, <2>2, <2>3
<1>4. CASE handleSort
  <2> DEFINE u == [ui EXCEPT !.descending = ~ui.descending]
  <2>1. u \in Uis
    BY DEF Uis
  <2>2. Does(u, AsksFor(u, TRUE, FALSE)) /\ store' = store
    BY <1>4 DEF handleSort
  <2> HIDE DEF u
  <2>3. Asks(u, AsksFor(u, TRUE, FALSE))
    BY <2>1, AsksForOK DEF Asks
  <2>4. QED
    BY <2>1, <2>2, <2>3
<1>5. CASE handlePageChange
  <2>1. PICK p \in 1..LastPage(store.total) :
          /\ Does([ui EXCEPT !.page = p], AsksFor([ui EXCEPT !.page = p], TRUE, FALSE))
          /\ store' = store
    BY <1>5 DEF handlePageChange
  <2>2. p \in Pages
    BY <1>0, UpToOK
  <2> DEFINE u == [ui EXCEPT !.page = p]
  <2>3. u \in Uis
    BY <2>2 DEF Uis
  <2>4. Does(u, AsksFor(u, TRUE, FALSE)) /\ store' = store
    BY <2>1
  <2> HIDE DEF u
  <2>5. Asks(u, AsksFor(u, TRUE, FALSE))
    BY <2>3, AsksForOK DEF Asks
  <2>6. QED
    BY <2>3, <2>4, <2>5
<1>6. CASE toggleViewType
  <2> DEFINE other == IF ui.view = "list" THEN "map" ELSE "list"
             u == [ui EXCEPT !.view = other, !.page = 1, !.descending = TRUE]
  <2>1. other \in Views
    BY DEF Views
  <2>2. Does(u, AsksFor(u, TRUE, TRUE)) /\ store' = Unmounted(ui.view)
    BY <1>6 DEF toggleViewType
  <2> HIDE DEF other
  <2>3. u \in Uis
    BY <1>0, <2>1 DEF Uis
  <2> HIDE DEF u
  <2>4. Asks(u, AsksFor(u, TRUE, TRUE))
    BY <2>3, AsksForOK DEF Asks
  <2>5. QED
    BY <2>2, <2>3, <2>4
<1>7. CASE Glance
  <2> DEFINE u == NewUi("glance")
             requests == {Request([u EXCEPT !.type = t], "filters") : t \in Types}
  <2>1. u \in Uis /\ u.view = "glance"
    BY DefaultsOK DEF Views
  <2>2. Does(u, requests) /\ store' = Unmounted(ui.view)
    BY <1>7 DEF Glance
  <2> HIDE DEF u
  <2>3. ASSUME NEW t \in Types
        PROVE  LET m == Request([u EXCEPT !.type = t], "filters")
               IN  MessageOK(m) /\ Asked(m, u) /\ m.stamp = changes /\ m.got = <<>>
    <3> DEFINE v == [u EXCEPT !.type = t]
               m == Request(v, "filters")
    <3>1. v \in Uis /\ v.view = "glance"
      BY <2>1 DEF Uis
    <3> HIDE DEF v
    <3>2. MessageOK(m) /\ m.kind = v.view /\ m.stamp = changes /\ m.got = <<>>
      BY <3>1, RequestOK
    <3> HIDE DEF m
    <3>3. Asked(m, u)
      BY <2>1, <3>1, <3>2 DEF Asked
    <3>4. QED
      BY <3>2, <3>3 DEF m, v
  <2>4. requests # {}
    <3>1. "HWCR" \in Types
      BY SearchAssumption
    <3>2. Request([u EXCEPT !.type = "HWCR"], "filters") \in requests
      BY <3>1
    <3>3. QED
      BY <3>2
  <2>5. \A m \in requests : MessageOK(m) /\ Asked(m, u) /\ m.stamp = changes /\ m.got = <<>>
    BY <2>3
  <2> HIDE DEF requests
  <2>6. Asks(u, requests)
    BY <2>4, <2>5 DEF Asks
  <2>7. QED
    BY <2>1, <2>2, <2>6
<1>8. CASE Return
  <2> DEFINE u == NewUi("list")
  <2>1. u \in Uis
    BY DefaultsOK DEF Views
  <2>2. Does(u, AsksFor(u, TRUE, TRUE)) /\ store' = store
    BY <1>8 DEF Return
  <2> HIDE DEF u
  <2>3. Asks(u, AsksFor(u, TRUE, TRUE))
    BY <2>1, AsksForOK DEF Asks
  <2>4. QED
    BY <2>1, <2>2, <2>3
<1>9. ASSUME NEW t \in Types, handleComplaintTabChange(t)
      PROVE  \E u \in Uis : \E requests :
                /\ Does(u, requests) /\ Asks(u, requests)
                /\ store' = store \/ store' = Unmounted(ui.view)
  <2> DEFINE u == [ui EXCEPT !.type = t, !.filters = DefaultFilters, !.search = ""]
  <2>1. DefaultFilters \in Filters
    BY DefaultsOK DEF Views
  <2>2. u \in Uis
    BY <1>0, <2>1 DEF Uis, Searches
  <2>3. Does(u, AsksFor(u, TRUE, ui.search # "")) /\ store' = store
    BY <1>9 DEF handleComplaintTabChange
  <2> HIDE DEF u
  <2>4. Asks(u, AsksFor(u, TRUE, ui.search # ""))
    BY <2>2, AsksForOK DEF Asks
  <2>5. QED
    BY <2>2, <2>3, <2>4
<1>10. QED
  BY <1>1, <1>2, <1>3, <1>4, <1>5, <1>6, <1>7, <1>8, <1>9 DEF User

-----------------------------------------------------------------------------
(* What an answer says of the complaints, as they were and as they are.     *)

Rows == [open : BOOLEAN, assigned : BOOLEAN, point : Points]

FoundOf(rows, m) ==
    _applySearch({c \in Complaints :
                     /\ TypeOf[c] = m.type /\ Located(CommunityOf[c], m.filters)
                     /\ m.filters.status = "OPEN" => rows[c].open
                     /\ m.filters.officer = "Unassigned" => ~rows[c].assigned},
                 m.search)

MapOf(rows, m, n) ==
    IF n = 1 THEN {c \in FoundOf(rows, m) : rows[c].point = "both"}
    ELSE Cardinality({c \in FoundOf(rows, m) : rows[c].point = "none"})

Open(rows, type, place) ==
    {c \in Complaints : TypeOf[c] = type /\ CommunityOf[c] \in place /\ rows[c].open}
Unassigned(rows, type, place) ==
    {c \in Complaints : TypeOf[c] = type /\ CommunityOf[c] \in place /\ rows[c].open /\ ~rows[c].assigned}

Totals(rows, type) == [i \in 1..Len(Places) |-> Cardinality(Open(rows, type, Places[i]))]
Unassigneds(rows, type) == [i \in 1..Len(Places) |-> Cardinality(Unassigned(rows, type, Places[i]))]

\* The counts of a place: both, or the first.
Near(got, totals, unassigneds, slack) ==
    \A i \in 1..Len(Places) :
        /\ 2 * i <= Len(got) => Distance(got[2 * i - 1] - got[2 * i], unassigneds[i]) <= slack
        /\ Len(got) = 2 * i - 1 => Distance(got[2 * i - 1], totals[i]) <= slack

\* A request at the time `now`: what it got for a map is true if nothing has
\* changed since it was sent, and what it got of counts is out by no more than has.
Holds(m, rows, now) ==
    /\ MessageOK(m) /\ m.stamp <= now
    /\ m.kind = "map" /\ m.stamp = now => \A n \in DOMAIN m.got : m.got[n] = MapOf(rows, m, n)
    /\ m.kind = "glance" => Near(m.got, Totals(rows, m.type), Unassigneds(rows, m.type), now - m.stamp)

LEMMA QueriesOf ==
    /\ \A m : Found(m) = FoundOf(complaint, m)
    /\ \A m, n : MapQuery(m, n) = MapOf(complaint, m, n)
    /\ \A type, place : TotalIn(type, place) = Cardinality(Open(complaint, type, place))
<1>1. \A m : Found(m) = FoundOf(complaint, m)
  BY DEF Found, FoundOf, _applyFilters
<1>2. \A m, n : MapQuery(m, n) = MapOf(complaint, m, n)
  BY <1>1 DEF MapQuery, MapOf, Unmapped
<1>3. \A type, place : TotalIn(type, place) = Cardinality(Open(complaint, type, place))
  BY DEF TotalIn, Open
<1>4. QED
  BY <1>1, <1>2, <1>3

LEMMA FoundOK ==
    ASSUME NEW rows, NEW m
    PROVE  FoundOf(rows, m) \in SUBSET Complaints
BY DEF FoundOf, _applySearch

\* Open complaints are assigned or not.
LEMMA OpenSplit ==
    ASSUME complaint \in [Complaints -> Rows], NEW type, NEW place
    PROVE  /\ AssignedIn(type, place) \in Counts
           /\ Cardinality(Open(complaint, type, place)) \in Counts
           /\ Cardinality(Unassigned(complaint, type, place)) \in Counts
           /\ Cardinality(Open(complaint, type, place))
                = AssignedIn(type, place) + Cardinality(Unassigned(complaint, type, place))
<1> DEFINE A == {c \in Complaints : /\ TypeOf[c] = type /\ CommunityOf[c] \in place
                                    /\ complaint[c].open /\ complaint[c].assigned}
           U == Unassigned(complaint, type, place)
           O == Open(complaint, type, place)
<1>1. A \in SUBSET Complaints /\ U \in SUBSET Complaints /\ O \in SUBSET Complaints
  BY DEF Unassigned, Open
<1>2. O = A \cup U /\ A \cap U = {}
  BY DEF Unassigned, Open
<1>3. AssignedIn(type, place) = Cardinality(A)
  BY DEF AssignedIn
<1> HIDE DEF A, U, O
<1>4. IsFiniteSet(A) /\ IsFiniteSet(U) /\ Cardinality(A) \in Counts /\ Cardinality(U) \in Counts
      /\ Cardinality(O) \in Counts /\ Cardinality(A) \in Nat /\ Cardinality(U) \in Nat
  BY <1>1, CountOK
<1>5. Cardinality(A \cup U) = Cardinality(A) + Cardinality(U) - Cardinality(A \cap U)
  BY <1>4, FS_Union
<1>6. Cardinality(A \cap U) = 0
  BY <1>2, FS_EmptySet
<1>7. QED
  BY <1>2, <1>3, <1>4, <1>5, <1>6 DEF U, O

\* Two counts of sets that differ in one complaint differ by one.
LEMMA OneApart ==
    ASSUME NEW A \in SUBSET Complaints, NEW B \in SUBSET Complaints, NEW x, A \ {x} = B \ {x}
    PROVE  Distance(Cardinality(A), Cardinality(B)) <= 1
<1>1. IsFiniteSet(A) /\ IsFiniteSet(B) /\ Cardinality(A) \in Nat /\ Cardinality(B) \in Nat
  BY CountOK
<1>2. Cardinality(A \ {x}) \in {Cardinality(A), Cardinality(A) - 1}
  BY <1>1, FS_RemoveElement
<1>3. Cardinality(B \ {x}) \in {Cardinality(B), Cardinality(B) - 1}
  BY <1>1, FS_RemoveElement
<1>4. QED
  BY <1>1, <1>2, <1>3 DEF Distance

\* When one complaint changes, each count is out by one more.
LEMMA NearAgain ==
    ASSUME NEW rows, NEW new, NEW c, \A d \in Complaints : d # c => new[d] = rows[d],
           NEW type, NEW got \in Seq(Counts), NEW slack \in Nat,
           Near(got, Totals(rows, type), Unassigneds(rows, type), slack)
    PROVE  Near(got, Totals(new, type), Unassigneds(new, type), slack + 1)
<1>1. ASSUME NEW place
      PROVE  /\ Distance(Cardinality(Open(rows, type, place)), Cardinality(Open(new, type, place))) <= 1
             /\ Distance(Cardinality(Unassigned(rows, type, place)),
                         Cardinality(Unassigned(new, type, place))) <= 1
             /\ Cardinality(Open(rows, type, place)) \in Nat /\ Cardinality(Open(new, type, place)) \in Nat
             /\ Cardinality(Unassigned(rows, type, place)) \in Nat
             /\ Cardinality(Unassigned(new, type, place)) \in Nat
  <2>1. Open(rows, type, place) \in SUBSET Complaints /\ Open(new, type, place) \in SUBSET Complaints
        /\ Open(rows, type, place) \ {c} = Open(new, type, place) \ {c}
    BY DEF Open
  <2>2. Unassigned(rows, type, place) \in SUBSET Complaints /\ Unassigned(new, type, place) \in SUBSET Complaints
        /\ Unassigned(rows, type, place) \ {c} = Unassigned(new, type, place) \ {c}
    BY DEF Unassigned
  <2>3. QED
    BY <2>1, <2>2, OneApart, CountOK
<1>2. \A n \in 1..Len(got) : got[n] \in Nat
  <2>1. Cardinality(Complaints) \in Nat
    BY SearchAssumption, FS_CardinalityType
  <2>2. Counts \subseteq Nat
    BY <2>1 DEF Counts
  <2>3. \A n \in 1..Len(got) : got[n] \in Counts
    OBVIOUS
  <2>4. QED
    BY <2>2, <2>3
<1>3. \A a, d, e \in Int : Distance(a, d) <= slack /\ Distance(d, e) <= 1 => Distance(a, e) <= slack + 1
  BY DEF Distance
<1> DEFINE t == Totals(rows, type)
           u == Unassigneds(rows, type)
           t2 == Totals(new, type)
           u2 == Unassigneds(new, type)
<1>4. \A i \in 1..Len(Places) : /\ t[i] \in Nat /\ u[i] \in Nat /\ t2[i] \in Nat /\ u2[i] \in Nat
                                /\ Distance(t[i], t2[i]) <= 1 /\ Distance(u[i], u2[i]) <= 1
  BY <1>1 DEF Totals, Unassigneds
<1> HIDE DEF t, u, t2, u2
<1>5. ASSUME NEW i \in 1..Len(Places), 2 * i <= Len(got)
      PROVE  Distance(got[2 * i - 1] - got[2 * i], u2[i]) <= slack + 1
  <2>1. Distance(got[2 * i - 1] - got[2 * i], u[i]) <= slack
    BY <1>5 DEF Near, u, t
  <2>2. got[2 * i - 1] \in Nat /\ got[2 * i] \in Nat
    <3>1. Len(got) \in Nat /\ i \in Nat /\ 1 <= i
      BY PlacesOK
    <3>2. 2 * i - 1 \in 1..Len(got) /\ 2 * i \in 1..Len(got)
      BY <1>5, <3>1
    <3>3. QED
      BY <1>2, <3>2
  <2>3. got[2 * i - 1] - got[2 * i] \in Int /\ u[i] \in Int /\ u2[i] \in Int /\ Distance(u[i], u2[i]) <= 1
    BY <1>4, <2>2
  <2>4. QED
    BY <1>3, <2>1, <2>3
<1>6. ASSUME NEW i \in 1..Len(Places), Len(got) = 2 * i - 1
      PROVE  Distance(got[2 * i - 1], t2[i]) <= slack + 1
  <2>1. Distance(got[2 * i - 1], t[i]) <= slack
    BY <1>6 DEF Near, t, u
  <2>2. got[2 * i - 1] \in Nat
    <3>1. Len(got) \in Nat /\ i \in Nat /\ 1 <= i
      BY PlacesOK
    <3>2. 2 * i - 1 \in 1..Len(got)
      BY <1>6, <3>1
    <3>3. QED
      BY <1>2, <3>2
  <2>3. got[2 * i - 1] \in Int /\ t[i] \in Int /\ t2[i] \in Int /\ Distance(t[i], t2[i]) <= 1
    BY <1>4, <2>2
  <2>4. QED
    BY <1>3, <2>1, <2>3
<1>7. QED
  BY <1>5, <1>6 DEF Near, t2, u2

LEMMA QueryOK ==
    ASSUME complaint \in [Complaints -> Rows], NEW m, MessageOK(m), NEW n \in 1..Queries(m)
    PROVE  Query(m, n) \in AnswersTo(m.kind, n)
<1>1. m.kind \in Views /\ m.page \in Nat \ {0}
  BY DEF MessageOK, Messages, Pages
<1>2. Found(m) \in SUBSET Complaints
  BY QueriesOf, FoundOK
<1>3. CASE m.kind = "list"
  <2>1. Query(m, n) = SearchQuery(m, n)
    BY <1>3 DEF Query
  <2>2. CASE n = 1
    <3>1. SearchQuery(m, n) = PageOf(Sorted(Found(m), m.descending), m.page)
      BY <2>2 DEF SearchQuery
    <3>2. Sorted(Found(m), m.descending) \in Seq(Complaints) /\ IsInjective(Sorted(Found(m), m.descending))
      BY <1>2, SortedOK
    <3>3. PageOf(Sorted(Found(m), m.descending), m.page) \in PageLists
      BY <1>1, <3>2, PageOK
    <3>4. QED
      BY <1>3, <2>1, <2>2, <3>1, <3>3 DEF AnswersTo
  <2>3. CASE n # 1
    <3>1. SearchQuery(m, n) = Cardinality(Found(m)) /\ n = 2
      BY <1>3, <2>3 DEF SearchQuery, Queries
    <3>2. QED
      BY <1>2, <2>1, <3>1, CountOK DEF AnswersTo
  <2>4. QED
    BY <2>2, <2>3
<1>4. CASE m.kind = "map"
  <2>1. Query(m, n) = MapQuery(m, n)
    BY <1>4 DEF Query
  <2>2. CASE n = 1
    <3>1. MapQuery(m, n) = {c \in Found(m) : complaint[c].point = "both"}
      BY <2>2 DEF MapQuery
    <3>2. QED
      BY <1>2, <1>4, <2>1, <2>2, <3>1 DEF AnswersTo
  <2>3. CASE n # 1
    <3>1. MapQuery(m, n) = Cardinality({c \in Found(m) : complaint[c].point = "none"}) /\ n = 2
      BY <1>4, <2>3 DEF MapQuery, Unmapped, Queries
    <3>2. {c \in Found(m) : complaint[c].point = "none"} \in SUBSET Complaints
      BY <1>2
    <3>3. QED
      BY <2>1, <3>1, <3>2, CountOK DEF AnswersTo
  <2>4. QED
    BY <2>2, <2>3
<1>5. CASE m.kind = "glance"
  <2>1. Query(m, n) = StatsQuery(m, n)
    BY <1>5 DEF Query
  <2> DEFINE place == Places[(n + 1) \div 2]
  <2>2. StatsQuery(m, n) = TotalIn(m.type, place) \/ StatsQuery(m, n) = AssignedIn(m.type, place)
    BY DEF StatsQuery
  <2> HIDE DEF place
  <2>3. TotalIn(m.type, place) \in Counts /\ AssignedIn(m.type, place) \in Counts
    BY OpenSplit, QueriesOf
  <2>4. QED
    BY <1>5, <2>1, <2>2, <2>3 DEF AnswersTo
<1>6. QED
  BY <1>1, <1>3, <1>4, <1>5 DEF Views

\* The counts of a request are the counts of places, one after the other.
LEMMA StatsNear ==
    ASSUME complaint \in [Complaints -> Rows], NEW m, MessageOK(m), m.kind = "glance",
           Len(m.got) < Queries(m), NEW slack \in Nat,
           Near(m.got, Totals(complaint, m.type), Unassigneds(complaint, m.type), slack)
    PROVE  Near(Append(m.got, StatsQuery(m, Len(m.got) + 1)),
                Totals(complaint, m.type), Unassigneds(complaint, m.type), slack)
<1> DEFINE got == m.got
           L == Len(m.got)
           x == StatsQuery(m, L + 1)
           new == Append(got, x)
           t == Totals(complaint, m.type)
           u == Unassigneds(complaint, m.type)
<1>1. /\ got \in Seq(PageLists \cup (SUBSET Complaints) \cup Counts) /\ L \in Nat /\ L < 2 * Len(Places)
      /\ Len(Places) \in Nat
  BY PlacesOK DEF MessageOK, Messages, Queries
<1>2. /\ Len(new) = L + 1 /\ new[L + 1] = x
      /\ \A n \in 1..L : new[n] = got[n]
  BY <1>1
<1>3. ASSUME NEW i \in 1..Len(Places)
      PROVE  /\ t[i] \in Nat /\ u[i] \in Nat /\ AssignedIn(m.type, Places[i]) \in Nat
             /\ t[i] = AssignedIn(m.type, Places[i]) + u[i]
             /\ TotalIn(m.type, Places[i]) = t[i]
  <2>1. Cardinality(Complaints) \in Nat
    BY SearchAssumption, FS_CardinalityType
  <2>2. Counts \subseteq Nat
    BY <2>1 DEF Counts
  <2>3. QED
    BY <2>2, OpenSplit, QueriesOf DEF Totals, Unassigneds
<1>4. \A n \in 1..L : got[n] \in Nat
  <2>1. \A n \in 1..L : got[n] \in Counts
    BY <1>1 DEF MessageOK, AnswersTo
  <2>2. Cardinality(Complaints) \in Nat
    BY SearchAssumption, FS_CardinalityType
  <2>3. QED
    BY <2>1, <2>2 DEF Counts
<1>5. x = IF (L + 1) % 2 = 1 THEN TotalIn(m.type, Places[(L + 2) \div 2])
          ELSE AssignedIn(m.type, Places[(L + 2) \div 2])
  <2>1. (L + 1) + 1 = L + 2
    BY <1>1
  <2>2. QED
    BY <2>1 DEF StatsQuery
<1> HIDE DEF t, u, new, x, L
<1>6. ASSUME NEW i \in 1..Len(Places), 2 * i <= L + 1
      PROVE  Distance(new[2 * i - 1] - new[2 * i], u[i]) <= slack
  <2>1. i \in Nat /\ 1 <= i
    BY <1>1
  <2>2. CASE 2 * i <= L
    <3>1. new[2 * i - 1] = got[2 * i - 1] /\ new[2 * i] = got[2 * i]
      BY <1>1, <1>2, <2>1, <2>2
    <3>2. Distance(got[2 * i - 1] - got[2 * i], u[i]) <= slack
      BY <2>2 DEF Near, t, u, L
    <3>3. QED
      BY <3>1, <3>2
  <2>3. CASE 2 * i = L + 1
    <3>1. (L + 1) % 2 = 0 /\ (L + 2) \div 2 = i
      BY <1>1, <2>1, <2>3
    <3>2. x = AssignedIn(m.type, Places[i])
      BY <1>5, <3>1
    <3>3. new[2 * i] = x /\ new[2 * i - 1] = got[2 * i - 1] /\ got[2 * i - 1] \in Nat
      <4>1. 2 * i = L + 1 /\ 2 * i - 1 = L /\ L \in 1..L
        BY <1>1, <2>1, <2>3
      <4>2. QED
        BY <1>2, <1>4, <4>1
    <3>4. Distance(got[2 * i - 1], t[i]) <= slack
      <4>1. L = 2 * i - 1
        BY <1>1, <2>1, <2>3
      <4>2. QED
        BY <4>1 DEF Near, t, u, L
    <3>5. \A a, b, c \in Nat : Distance(a, b + c) <= slack => Distance(a - b, c) <= slack
      BY DEF Distance
    <3>6. x \in Nat /\ u[i] \in Nat /\ t[i] = x + u[i]
      BY <1>3, <3>2
    <3>7. QED
      BY <3>3, <3>4, <3>5, <3>6
  <2>4. QED
    BY <1>1, <1>6, <2>1, <2>2, <2>3
<1>7. ASSUME NEW i \in 1..Len(Places), L + 1 = 2 * i - 1
      PROVE  Distance(new[2 * i - 1], t[i]) <= slack
  <2>1. i \in Nat /\ 1 <= i
    BY <1>1
  <2>2. (L + 1) % 2 = 1 /\ (L + 2) \div 2 = i
    BY <1>1, <1>7, <2>1
  <2>3. x = TotalIn(m.type, Places[i])
    BY <1>5, <2>2
  <2>4. new[2 * i - 1] = x /\ x = t[i] /\ t[i] \in Nat
    BY <1>2, <1>3, <1>7, <2>3
  <2>5. QED
    BY <2>4 DEF Distance
<1>8. Near(new, t, u, slack)
  BY <1>2, <1>6, <1>7 DEF Near
<1>9. QED
  BY <1>8 DEF new, x, t, u, L

\* An answer to one more of its queries.
LEMMA ServedOK ==
    ASSUME complaint \in [Complaints -> Rows], changes \in Nat,
           NEW m, Holds(m, complaint, changes), Len(m.got) < Queries(m)
    PROVE  LET n == [m EXCEPT !.got = Append(@, Query(m, Len(@) + 1))]
           IN  /\ Holds(n, complaint, changes)
               /\ n.kind = m.kind /\ n.type = m.type /\ n.filters = m.filters /\ n.search = m.search
<1> DEFINE L == Len(m.got)
           x == Query(m, L + 1)
           n == [m EXCEPT !.got = Append(@, Query(m, Len(@) + 1))]
<1>1. MessageOK(m) /\ m \in Messages /\ m.got \in Seq(PageLists \cup (SUBSET Complaints) \cup Counts) /\ L \in Nat
      /\ m.stamp \in Nat /\ m.stamp <= changes /\ Queries(m) \in Nat
  BY PlacesOK DEF Holds, MessageOK, Messages, Queries
<1>2. x \in AnswersTo(m.kind, L + 1)
  BY <1>1, QueryOK
<1>3. AnswersTo(m.kind, L + 1) \subseteq PageLists \cup (SUBSET Complaints) \cup Counts
  BY DEF AnswersTo
<1>4. n = [m EXCEPT !.got = Append(m.got, x)]
  OBVIOUS
<1> HIDE DEF x
<1>5. /\ Append(m.got, x) \in Seq(PageLists \cup (SUBSET Complaints) \cup Counts)
      /\ Len(Append(m.got, x)) = L + 1 /\ Append(m.got, x)[L + 1] = x
      /\ \A k \in 1..L : Append(m.got, x)[k] = m.got[k]
  BY <1>1, <1>2, <1>3
<1> HIDE DEF n
<1>6. /\ n \in Messages /\ n.got = Append(m.got, x) /\ n.kind = m.kind /\ n.type = m.type
      /\ n.filters = m.filters /\ n.search = m.search /\ n.stamp = m.stamp
  BY <1>1, <1>4, <1>5 DEF Messages
<1>7. Queries(n) = Queries(m)
  BY <1>6 DEF Queries
<1>8. MessageOK(n)
  <2>1. \A k \in DOMAIN n.got : n.got[k] \in AnswersTo(n.kind, k)
    <3>1. DOMAIN n.got = 1..(L + 1) /\ DOMAIN m.got = 1..L
      BY <1>1, <1>5, <1>6
    <3>2. ASSUME NEW k \in 1..(L + 1) PROVE n.got[k] \in AnswersTo(n.kind, k)
      <4>1. CASE k = L + 1
        BY <1>2, <1>5, <1>6, <4>1
      <4>2. CASE k # L + 1
        BY <1>1, <1>5, <1>6, <3>1, <4>2 DEF MessageOK
      <4>3. QED
        BY <4>1, <4>2
    <3>3. QED
      BY <3>1, <3>2
  <2>2. QED
    BY <1>1, <1>5, <1>6, <1>7, <2>1 DEF MessageOK
<1>9. ASSUME m.kind = "map", m.stamp = changes, NEW k \in DOMAIN n.got
      PROVE  n.got[k] = MapOf(complaint, n, k)
  <2>1. DOMAIN n.got = 1..(L + 1) /\ DOMAIN m.got = 1..L
    BY <1>1, <1>5, <1>6
  <2>2. MapOf(complaint, n, k) = MapOf(complaint, m, k)
    BY <1>6 DEF MapOf, FoundOf
  <2>3. CASE k = L + 1
    <3>1. x = MapOf(complaint, m, L + 1)
      BY <1>9, QueriesOf DEF x, Query
    <3>2. QED
      BY <1>5, <1>6, <2>2, <2>3, <3>1
  <2>4. CASE k # L + 1
    BY <1>1, <1>5, <1>6, <1>9, <2>1, <2>2, <2>4 DEF Holds
  <2>5. QED
    BY <2>3, <2>4
<1>10. ASSUME m.kind = "glance"
       PROVE  Near(n.got, Totals(complaint, n.type), Unassigneds(complaint, n.type), changes - n.stamp)
  <2>1. x = StatsQuery(m, L + 1)
    BY <1>10 DEF x, Query
  <2>2. changes - m.stamp \in Nat
    BY <1>1
  <2>3. Near(m.got, Totals(complaint, m.type), Unassigneds(complaint, m.type), changes - m.stamp)
    BY <1>10 DEF Holds
  <2>4. Near(Append(m.got, x), Totals(complaint, m.type), Unassigneds(complaint, m.type), changes - m.stamp)
    BY <1>1, <1>10, <2>1, <2>2, <2>3, StatsNear
  <2>5. QED
    BY <1>6, <2>4
<1>11. Holds(n, complaint, changes)
  BY <1>1, <1>6, <1>8, <1>9, <1>10 DEF Holds
<1>12. QED
  BY <1>6, <1>11 DEF n

\* Time passes: a complaint of others changes, or something fails.
LEMMA LaterOK ==
    ASSUME NEW m, NEW rows, NEW new, NEW now \in Nat, Holds(m, rows, now),
           NEW c, \A d \in Complaints : d # c => new[d] = rows[d]
    PROVE  Holds(m, new, now + 1)
<1>1. MessageOK(m) /\ m.stamp \in Nat /\ m.stamp <= now
  BY DEF Holds, MessageOK, Messages
<1>2. ASSUME m.kind = "glance"
      PROVE  Near(m.got, Totals(new, m.type), Unassigneds(new, m.type), (now + 1) - m.stamp)
  <2>1. m.got \in Seq(Counts)
    <3>1. m.got \in Seq(PageLists \cup (SUBSET Complaints) \cup Counts)
      BY <1>1 DEF MessageOK, Messages
    <3>2. \A n \in 1..Len(m.got) : m.got[n] \in Counts
      BY <1>1, <1>2, <3>1 DEF MessageOK, AnswersTo
    <3>3. m.got \in [1..Len(m.got) -> Counts] /\ Len(m.got) \in Nat
      BY <3>1, <3>2
    <3>4. QED
      BY <3>3
  <2>2. now - m.stamp \in Nat /\ (now - m.stamp) + 1 = (now + 1) - m.stamp
    BY <1>1
  <2>3. Near(m.got, Totals(rows, m.type), Unassigneds(rows, m.type), now - m.stamp)
    BY <1>2 DEF Holds
  <2>4. Near(m.got, Totals(new, m.type), Unassigneds(new, m.type), (now - m.stamp) + 1)
    BY <2>1, <2>2, <2>3, NearAgain
  <2>5. QED
    BY <2>2, <2>4
<1>3. m.stamp <= now + 1 /\ m.stamp # now + 1
  BY <1>1
<1>4. QED
  BY <1>1, <1>2, <1>3 DEF Holds

-----------------------------------------------------------------------------
(* The inductive invariant.                                                *)

MapShown(m, s) ==
    m.kind = "map" => Len(m.got) = 2 /\ s.mapped = m.got[1] /\ s.unmapped = m.got[2]

CountsShown(m, s) ==
    m.kind = "glance" => Len(m.got) = 2 * Len(Places) /\ s.counts[m.type] = m.got

IInv ==
    /\ complaint \in [Complaints -> Rows] /\ ui \in Uis /\ store \in Stores
    /\ lost \in BOOLEAN /\ acts \in 0..MaxActs /\ changes \in 0..MaxChanges
    /\ Holds(shown, complaint, changes)
    /\ \A m \in flight : Holds(m, complaint, changes) /\ Asked(m, ui)
    /\ flight = {} /\ ~lost => Asked(shown, ui) /\ MapShown(shown, store)
    /\ CountsShown(shown, store)

LEMMA NewHolds ==
    ASSUME NEW m, MessageOK(m), m.got = <<>>, NEW rows, NEW now \in Nat, m.stamp <= now
    PROVE  Holds(m, rows, now)
<1>1. Len(m.got) = 0 /\ DOMAIN m.got = {}
  OBVIOUS
<1>2. \A i \in 1..Len(Places) : ~(2 * i <= 0) /\ 0 # 2 * i - 1
  BY PlacesOK
<1>3. Near(m.got, Totals(rows, m.type), Unassigneds(rows, m.type), now - m.stamp)
  BY <1>1, <1>2 DEF Near
<1>4. QED
  BY <1>1, <1>3 DEF Holds

LEMMA InitOK == Init => IInv
<1> SUFFICES ASSUME Init PROVE IInv
  OBVIOUS
<1>1. /\ complaint = First /\ ui = NewUi("list") /\ store = NoStore
      /\ acts = 0 /\ changes = 0 /\ lost = FALSE
      /\ flight = AsksFor(ui, TRUE, TRUE) /\ shown = Request(ui, "none")
  BY DEF Init
<1>2. complaint \in [Complaints -> Rows] /\ MaxActs \in Nat /\ MaxChanges \in Nat
  BY <1>1, SearchAssumption DEF Rows, Points
<1>3. ui \in Uis /\ ui.view = "list" /\ ui.search = ""
  BY <1>1, DefaultsOK DEF Views
<1>4. /\ MessageOK(shown) /\ shown.stamp = changes /\ shown.got = <<>> /\ shown.kind = "list"
  BY <1>1, <1>3, RequestOK
<1>5. /\ \A m \in flight : MessageOK(m) /\ Asked(m, ui) /\ m.stamp = changes /\ m.got = <<>>
      /\ flight # {}
  BY <1>1, <1>3, AsksForOK
<1>6. store \in Stores
  <2>1. <<>> \in PageLists
    BY SearchAssumption DEF PageLists, IsInjective
  <2>2. <<>> \in Tallies
    BY DEF Tallies
  <2>3. 0 \in Counts
    BY SearchAssumption, FS_CardinalityType DEF Counts
  <2>4. QED
    BY <1>1, <2>1, <2>2, <2>3 DEF NoStore, Stores
<1>7. Holds(shown, complaint, changes)
  BY <1>1, <1>4, NewHolds
<1>8. ASSUME NEW m \in flight PROVE Holds(m, complaint, changes) /\ Asked(m, ui)
  <2>1. MessageOK(m) /\ m.got = <<>> /\ Asked(m, ui) /\ m.stamp = changes
    BY <1>5
  <2>2. changes \in Nat /\ m.stamp <= changes
    BY <1>1, <2>1
  <2>3. QED
    BY <2>1, <2>2, NewHolds
<1>9. CountsShown(shown, store)
  BY <1>4 DEF CountsShown
<1>10. lost \in BOOLEAN /\ acts \in 0..MaxActs /\ changes \in 0..MaxChanges
  <2>1. lost \in BOOLEAN
    BY <1>1
  <2>2. acts = 0 /\ changes = 0
    BY <1>1
  <2>3. QED
    BY <1>2, <2>1, <2>2
<1>11. QED
  BY <1>2, <1>3, <1>5, <1>6, <1>7, <1>8, <1>9, <1>10 DEF IInv

\* What a view leaves behind.
LEMMA UnmountedOK ==
    ASSUME store \in Stores, NEW v
    PROVE  Unmounted(v) \in Stores /\ Unmounted(v).counts = store.counts
<1>1. [t \in Types |-> <<>>] \in [Types -> PageLists]
  BY SearchAssumption DEF PageLists, IsInjective
<1>2. 0 \in Counts
  BY SearchAssumption, FS_CardinalityType DEF Counts
<1>3. CASE v = "list"
  <2>1. Unmounted(v) = [store EXCEPT !.rows = [t \in Types |-> <<>>]]
    BY <1>3 DEF Unmounted
  <2>2. QED
    BY <1>1, <2>1 DEF Stores
<1>4. CASE v # "list"
  <2>1. Unmounted(v) = [store EXCEPT !.mapped = {}, !.unmapped = 0]
    BY <1>4 DEF Unmounted
  <2>2. QED
    BY <1>2, <2>1 DEF Stores
<1>5. QED
  BY <1>3, <1>4

LEMMA AnsweredOK ==
    ASSUME store \in Stores, NEW m, MessageOK(m), Len(m.got) = Queries(m)
    PROVE  /\ Answered(m) \in Stores
           /\ MapShown(m, Answered(m)) /\ CountsShown(m, Answered(m))
<1>1. /\ m.kind \in Views /\ m.type \in Types
      /\ m.got \in Seq(PageLists \cup (SUBSET Complaints) \cup Counts)
  BY DEF MessageOK, Messages
<1>2. /\ store.rows \in [Types -> PageLists] /\ store.total \in Counts
      /\ store.mapped \in SUBSET Complaints /\ store.unmapped \in Counts
      /\ store.counts \in [Types -> Tallies]
      /\ store = [rows |-> store.rows, total |-> store.total, mapped |-> store.mapped,
                  unmapped |-> store.unmapped, counts |-> store.counts]
  BY DEF Stores
<1>3. CASE m.kind = "list"
  <2>1. Len(m.got) = 2 /\ DOMAIN m.got = 1..2
    BY <1>1, <1>3 DEF Queries
  <2>2. m.got[1] \in PageLists /\ m.got[2] \in Counts
    BY <1>3, <2>1 DEF MessageOK, AnswersTo
  <2> DEFINE rows == [store.rows EXCEPT ![m.type] = m.got[1]]
  <2>3. Answered(m) = [rows |-> rows, total |-> m.got[2], mapped |-> store.mapped,
                       unmapped |-> store.unmapped, counts |-> store.counts]
    <3>1. Answered(m) = [store EXCEPT !.rows[m.type] = m.got[1], !.total = m.got[2]]
      BY <1>3 DEF Answered
    <3>2. QED
      BY <1>2, <3>1
  <2>4. rows \in [Types -> PageLists]
    BY <1>2, <2>2
  <2> HIDE DEF rows
  <2>5. QED
    BY <1>2, <1>3, <2>2, <2>3, <2>4 DEF Stores, MapShown, CountsShown
<1>4. CASE m.kind = "map"
  <2>1. Len(m.got) = 2 /\ DOMAIN m.got = 1..2
    BY <1>1, <1>4 DEF Queries
  <2>2. m.got[1] \in SUBSET Complaints /\ m.got[2] \in Counts
    BY <1>4, <2>1 DEF MessageOK, AnswersTo
  <2>3. Answered(m) = [rows |-> store.rows, total |-> store.total, mapped |-> m.got[1],
                       unmapped |-> m.got[2], counts |-> store.counts]
    <3>1. Answered(m) = [store EXCEPT !.mapped = m.got[1], !.unmapped = m.got[2]]
      BY <1>4 DEF Answered
    <3>2. QED
      BY <1>2, <3>1
  <2>4. QED
    BY <1>2, <1>4, <2>1, <2>2, <2>3 DEF Stores, MapShown, CountsShown
<1>5. CASE m.kind = "glance"
  <2>1. Len(m.got) = 2 * Len(Places) /\ Len(m.got) \in Nat
    BY <1>1, <1>5 DEF Queries
  <2>2. m.got \in Seq(Counts)
    <3>1. \A n \in 1..Len(m.got) : m.got[n] \in Counts
      BY <1>1, <1>5 DEF MessageOK, AnswersTo
    <3>2. m.got \in [1..Len(m.got) -> Counts]
      BY <1>1, <3>1
    <3>3. QED
      BY <2>1, <3>2
  <2>3. m.got \in Tallies
    BY <2>1, <2>2 DEF Tallies
  <2> DEFINE counts == [store.counts EXCEPT ![m.type] = m.got]
  <2>4. Answered(m) = [rows |-> store.rows, total |-> store.total, mapped |-> store.mapped,
                       unmapped |-> store.unmapped, counts |-> counts]
    <3>1. Answered(m) = [store EXCEPT !.counts[m.type] = m.got]
      BY <1>5 DEF Answered
    <3>2. QED
      BY <1>2, <3>1
  <2>5. counts \in [Types -> Tallies] /\ counts[m.type] = m.got
    BY <1>1, <1>2, <2>3
  <2> HIDE DEF counts
  <2>6. QED
    BY <1>2, <1>5, <2>1, <2>4, <2>5 DEF Stores, MapShown, CountsShown
<1>6. QED
  BY <1>1, <1>3, <1>4, <1>5 DEF Views

LEMMA UserOK == IInv /\ User => IInv'
<1> SUFFICES ASSUME IInv, User PROVE IInv'
  OBVIOUS
<1>1. changes \in Nat /\ ui \in Uis /\ store \in Stores /\ MaxActs \in Nat
  BY SearchAssumption DEF IInv
<1>2. PICK u \in Uis : \E requests :
         /\ Does(u, requests) /\ Asks(u, requests)
         /\ store' = store \/ store' = Unmounted(ui.view)
  BY <1>1, UserAsks
<1>3. PICK requests :
         /\ Does(u, requests) /\ Asks(u, requests)
         /\ store' = store \/ store' = Unmounted(ui.view)
  BY <1>2
<1>4. /\ flight = {} /\ acts < MaxActs /\ acts' = acts + 1
      /\ ui' = u /\ flight' = requests /\ lost' = FALSE
      /\ UNCHANGED <<complaint, shown, changes>>
  BY <1>3 DEF Does, Acts
<1>5. store' \in Stores /\ store'.counts = store.counts
  BY <1>1, <1>3, UnmountedOK
<1>6. \A m \in flight' : Holds(m, complaint, changes) /\ Asked(m, u)
  BY <1>1, <1>3, <1>4, NewHolds DEF Asks
<1>7. flight' # {}
  BY <1>3, <1>4 DEF Asks
<1>8. acts' \in 0..MaxActs
  BY <1>1, <1>4 DEF IInv
<1>9. CountsShown(shown', store')
  BY <1>4, <1>5 DEF IInv, CountsShown
<1>10. QED
  BY <1>4, <1>5, <1>6, <1>7, <1>8, <1>9 DEF IInv

LEMMA RequestsOK ==
    ASSUME IInv, NEW m \in flight, Serve(m) \/ Fails(m) \/ Receive(m)
    PROVE  IInv'
<1>1. /\ Holds(m, complaint, changes) /\ Asked(m, ui) /\ MessageOK(m) /\ MaxChanges \in Nat
      /\ changes \in Nat /\ complaint \in [Complaints -> Rows]
  BY SearchAssumption DEF IInv, Holds
<1>2. CASE Serve(m)
  <2> DEFINE n == [m EXCEPT !.got = Append(@, Query(m, Len(@) + 1))]
  <2>1. /\ flight' = (flight \ {m}) \cup {n} /\ Len(m.got) < Queries(m)
        /\ UNCHANGED <<complaint, ui, store, shown, lost, acts, changes>>
    BY <1>2 DEF Serve
  <2>2. /\ Holds(n, complaint, changes)
        /\ n.kind = m.kind /\ n.type = m.type /\ n.filters = m.filters /\ n.search = m.search
    BY <1>1, <2>1, ServedOK
  <2> HIDE DEF n
  <2>3. Asked(n, ui)
    BY <1>1, <2>2 DEF Asked
  <2>4. flight' # {}
    BY <2>1
  <2>5. \A k \in flight' : Holds(k, complaint, changes) /\ Asked(k, ui)
    BY <2>1, <2>2, <2>3 DEF IInv
  <2>6. QED
    BY <2>1, <2>4, <2>5 DEF IInv
<1>3. CASE Fails(m)
  <2>1. /\ changes < MaxChanges /\ changes' = changes + 1
        /\ flight' = flight \ {m} /\ lost' = TRUE
        /\ UNCHANGED <<complaint, ui, store, shown, acts>>
    BY <1>3 DEF Fails, Left
  <2>2. \A k : Holds(k, complaint, changes) => Holds(k, complaint, changes + 1)
    BY <1>1, LaterOK
  <2>3. changes' \in 0..MaxChanges
    BY <1>1, <2>1
  <2>4. Holds(shown', complaint', changes')
    BY <2>1, <2>2 DEF IInv
  <2>5. \A k \in flight' : Holds(k, complaint', changes') /\ Asked(k, ui')
    BY <2>1, <2>2 DEF IInv
  <2>6. QED
    BY <2>1, <2>3, <2>4, <2>5 DEF IInv
<1>4. CASE Receive(m)
  <2> DEFINE back == m.kind = "list" /\ m.got[2] # store.total /\ ui.page # 1
             u == IF back THEN [ui EXCEPT !.page = 1] ELSE ui
  <2>1. /\ Len(m.got) = Queries(m)
        /\ store' = Answered(m) /\ shown' = m /\ ui' = u
        /\ flight' = (flight \ {m}) \cup AsksFor(u, back, FALSE)
        /\ UNCHANGED <<complaint, lost, acts, changes>>
    BY <1>4 DEF Receive
  <2>2. /\ u \in Uis /\ u.view = ui.view /\ u.type = ui.type /\ u.filters = ui.filters
        /\ u.search = ui.search
    BY DEF IInv, Uis, Pages
  <2> HIDE DEF u
  <2>3. \A k \in AsksFor(u, back, FALSE) :
           MessageOK(k) /\ Asked(k, u) /\ k.stamp = changes /\ k.got = <<>>
    BY <1>1, <2>2, AsksForOK
  <2>4. \A k : Asked(k, ui) => Asked(k, u)
    BY <2>2 DEF Asked
  <2>5. ASSUME NEW k \in flight' PROVE Holds(k, complaint, changes) /\ Asked(k, u)
    <3>1. CASE k \in flight
      BY <2>4, <3>1 DEF IInv
    <3>2. CASE k \in AsksFor(u, back, FALSE)
      <4>1. MessageOK(k) /\ k.got = <<>> /\ Asked(k, u)
        BY <2>3, <3>2
      <4>2. k.stamp = changes
        BY <2>3, <3>2
      <4>3. k.stamp <= changes
        BY <1>1, <4>2
      <4>4. QED
        BY <1>1, <4>1, <4>3, NewHolds
    <3>3. QED
      BY <2>1, <3>1, <3>2
  <2>6. store' \in Stores /\ MapShown(m, store') /\ CountsShown(m, store')
    BY <1>1, <2>1, AnsweredOK DEF IInv
  <2>7. Asked(m, u)
    BY <1>1, <2>4
  <2>8. QED
    BY <1>1, <2>1, <2>2, <2>5, <2>6, <2>7 DEF IInv
<1>5. QED
  BY <1>2, <1>3, <1>4

LEMMA OthersOK ==
    ASSUME IInv, NEW c \in Complaints, Others(c)
    PROVE  IInv'
<1>1. /\ changes < MaxChanges /\ changes' = changes + 1
      /\ UNCHANGED <<ui, store, flight, shown, lost, acts>>
      /\ changes \in Nat /\ MaxChanges \in Nat
  BY SearchAssumption DEF Others, Left, IInv
<1>2. /\ complaint' \in [Complaints -> Rows]
      /\ \A d \in Complaints : d # c => complaint'[d] = complaint[d]
  <2>1. complaint \in [Complaints -> Rows] /\ complaint[c] \in Rows
    BY DEF IInv
  <2>2. CASE complaint' = [complaint EXCEPT ![c].open = ~@]
    BY <2>1, <2>2 DEF Rows
  <2>3. CASE complaint' = [complaint EXCEPT ![c].assigned = ~@]
    BY <2>1, <2>3 DEF Rows
  <2>4. CASE \E p \in Points \ {complaint[c].point} : complaint' = [complaint EXCEPT ![c].point = p]
    BY <2>1, <2>4 DEF Rows
  <2>5. QED
    BY <2>2, <2>3, <2>4 DEF Others
<1>3. \A k : Holds(k, complaint, changes) => Holds(k, complaint', changes + 1)
  BY <1>1, <1>2, LaterOK
<1>4. changes' \in 0..MaxChanges
  BY <1>1
<1>5. Holds(shown', complaint', changes')
  BY <1>1, <1>3 DEF IInv
<1>6. \A k \in flight' : Holds(k, complaint', changes') /\ Asked(k, ui')
  BY <1>1, <1>3 DEF IInv
<1>7. QED
  BY <1>1, <1>2, <1>4, <1>5, <1>6 DEF IInv

LEMMA Invariance == Spec => []IInv
<1>1. IInv /\ [Next]_vars => IInv'
  <2> SUFFICES ASSUME IInv, [Next]_vars PROVE IInv'
    OBVIOUS
  <2>1. CASE User
    BY <2>1, UserOK
  <2>2. ASSUME NEW m \in flight, Serve(m) \/ Fails(m) \/ Receive(m) PROVE IInv'
    BY <2>2, RequestsOK
  <2>3. ASSUME NEW c \in Complaints, Others(c) PROVE IInv'
    BY <2>3, OthersOK
  <2>4. CASE UNCHANGED vars
    BY <2>4 DEF vars, IInv
  <2>5. QED
    BY <2>1, <2>2, <2>3, <2>4 DEF Next
<1>2. QED
  BY InitOK, <1>1, PTL DEF Spec

-----------------------------------------------------------------------------
(* The theorems.                                                           *)

\* What the page, its requests and the store hold: a list is one page of distinct
\* complaints, for every number of complaints and every size of a page.
THEOREM TypeCorrect == Spec => []TypeOK
<1>1. ASSUME NEW m, MessageOK(m), m.stamp <= changes, changes \in Nat
      PROVE  IsRequest(m)
  BY <1>1 DEF MessageOK, Messages, Pages, IsRequest
<1>2. IInv => TypeOK
  <2> SUFFICES ASSUME IInv PROVE TypeOK
    OBVIOUS
  <2>1. changes \in Nat
    BY SearchAssumption DEF IInv
  <2>2. IsRequest(shown) /\ \A m \in flight : IsRequest(m)
    <3>1. MessageOK(shown) /\ shown.stamp <= changes
      BY DEF IInv, Holds
    <3>2. \A m \in flight : MessageOK(m) /\ m.stamp <= changes
      BY DEF IInv, Holds
    <3>3. QED
      BY <1>1, <2>1, <3>1, <3>2
  <2>3. IsUi(ui)
    BY DEF IInv, Uis, Pages, IsUi
  <2>4. /\ store.rows \in [Types -> PageLists] /\ store.total \in Counts
        /\ store.mapped \in SUBSET Complaints /\ store.unmapped \in Counts
        /\ store.counts \in [Types -> Tallies]
    BY DEF IInv, Stores
  <2>5. \A t \in Types : /\ Len(store.rows[t]) <= PageSize /\ IsInjective(store.rows[t])
                         /\ Len(store.counts[t]) \in {0, 2 * Len(Places)}
    BY <2>4 DEF PageLists, Tallies
  <2>6. complaint \in [Complaints -> [open : BOOLEAN, assigned : BOOLEAN, point : Points]]
    BY DEF IInv, Rows
  <2>7. QED
    BY <2>2, <2>3, <2>4, <2>5, <2>6 DEF TypeOK, IInv, Counts
<1>3. QED
  BY Invariance, <1>2, PTL

\* A page at rest shows what it asks for.
THEOREM ShownIsAskedThm == Spec => []ShownIsAsked
<1>1. IInv => ShownIsAsked
  BY DEF IInv, Asked, ShownIsAsked
<1>2. QED
  BY Invariance, <1>1, PTL

\* Each complaint found is on the map or counted, but for those with half a point.
THEOREM MapIsCompleteThm == Spec => []MapIsComplete
<1>1. ASSUME NEW found \in SUBSET Complaints, complaint \in [Complaints -> Rows]
      PROVE  Cardinality({c \in found : complaint[c].point = "both"})
               + Cardinality({c \in found : complaint[c].point = "none"})
             = Cardinality({c \in found : complaint[c].point # "one"})
  <2> DEFINE B == {c \in found : complaint[c].point = "both"}
             N == {c \in found : complaint[c].point = "none"}
             F == {c \in found : complaint[c].point # "one"}
  <2>1. B \in SUBSET Complaints /\ N \in SUBSET Complaints
    OBVIOUS
  <2>2. \A c \in found : complaint[c].point \in {"both", "one", "none"}
    BY <1>1 DEF Rows, Points
  <2>3. F = B \cup N /\ B \cap N = {}
    BY <2>2
  <2> HIDE DEF B, N, F
  <2>4. /\ IsFiniteSet(B) /\ IsFiniteSet(N) /\ Cardinality(B) \in Nat /\ Cardinality(N) \in Nat
    BY <2>1, CountOK
  <2>5. Cardinality(B \cup N) = Cardinality(B) + Cardinality(N) - Cardinality(B \cap N)
    BY <2>4, FS_Union
  <2>6. Cardinality(B \cap N) = 0
    BY <2>3, FS_EmptySet
  <2>7. Cardinality(B) + Cardinality(N) = Cardinality(F)
    BY <2>3, <2>4, <2>5, <2>6
  <2>8. QED
    BY <2>7 DEF B, N, F
<1>2. IInv => MapIsComplete
  <2> SUFFICES ASSUME IInv, ui.view = "map", flight = {}, ~lost, shown.stamp = changes
               PROVE  Cardinality(store.mapped) + store.unmapped
                        = Cardinality({c \in Found(shown) : complaint[c].point # "one"})
    BY DEF MapIsComplete
  <2> DEFINE found == Found(shown)
  <2>1. Asked(shown, ui) /\ MapShown(shown, store)
    BY DEF IInv
  <2>2. shown.kind = "map"
    BY <2>1 DEF Asked
  <2>3. Len(shown.got) = 2 /\ store.mapped = shown.got[1] /\ store.unmapped = shown.got[2]
    BY <2>1, <2>2 DEF MapShown
  <2>4. 1 \in DOMAIN shown.got /\ 2 \in DOMAIN shown.got
    <3>1. shown.got \in Seq(PageLists \cup (SUBSET Complaints) \cup Counts)
      BY DEF IInv, Holds, MessageOK, Messages
    <3>2. QED
      BY <2>3, <3>1
  <2>5. shown.got[1] = MapOf(complaint, shown, 1) /\ shown.got[2] = MapOf(complaint, shown, 2)
    BY <2>2, <2>4 DEF IInv, Holds
  <2>6. /\ MapOf(complaint, shown, 1) = {c \in found : complaint[c].point = "both"}
        /\ MapOf(complaint, shown, 2) = Cardinality({c \in found : complaint[c].point = "none"})
    BY QueriesOf DEF MapOf
  <2>7. found \in SUBSET Complaints
    BY QueriesOf, FoundOK
  <2>8. complaint \in [Complaints -> Rows]
    BY DEF IInv
  <2> HIDE DEF found
  <2>9. Cardinality({c \in found : complaint[c].point = "both"})
          + Cardinality({c \in found : complaint[c].point = "none"})
        = Cardinality({c \in found : complaint[c].point # "one"})
    BY <1>1, <2>7, <2>8
  <2>10. QED
    BY <2>3, <2>5, <2>6, <2>9 DEF found
<1>3. QED
  BY Invariance, <1>2, PTL

\* The difference of two counts is out by no more than was changed meanwhile.
THEOREM CountsAreCloseThm == Spec => []CountsAreClose
<1>1. IInv => CountsAreClose
  <2> SUFFICES ASSUME IInv, shown.kind = "glance", NEW i \in 1..Len(Places)
               PROVE  Distance(Bars(store.counts[shown.type], i).unassigned,
                               Cardinality({c \in Complaints :
                                   /\ TypeOf[c] = shown.type /\ CommunityOf[c] \in Places[i]
                                   /\ complaint[c].open /\ ~complaint[c].assigned}))
                        <= changes - shown.stamp
    BY DEF CountsAreClose
  <2> DEFINE U == Cardinality(Unassigned(complaint, shown.type, Places[i]))
  <2>1. Len(shown.got) = 2 * Len(Places) /\ store.counts[shown.type] = shown.got
    BY DEF IInv, CountsShown
  <2>2. Near(shown.got, Totals(complaint, shown.type), Unassigneds(complaint, shown.type), changes - shown.stamp)
    BY DEF IInv, Holds
  <2>3. 2 * i <= Len(shown.got)
    BY <2>1, PlacesOK
  <2>4. Unassigneds(complaint, shown.type)[i] = U
    BY DEF Unassigneds
  <2>5. Distance(shown.got[2 * i - 1] - shown.got[2 * i], U) <= changes - shown.stamp
    BY <2>2, <2>3, <2>4 DEF Near
  <2>6. Bars(store.counts[shown.type], i).unassigned = shown.got[2 * i - 1] - shown.got[2 * i]
    BY <2>1 DEF Bars
  <2>7. QED
    BY <2>5, <2>6 DEF Unassigned
<1>2. QED
  BY Invariance, <1>1, PTL
=============================================================================
