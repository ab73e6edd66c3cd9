SPECIFICATION RepoSpec
CONSTANTS
    Nil = Nil
    Mistyped = Mistyped
    Short = Short
    o0 = o0
    o1 = o1
    o2 = o2
    i0 = i0
    i1 = i1
    i2 = i2
    i3 = i3
    e0 = e0
    e1 = e1
    e2 = e2
    OrderIDs = {o0, o1, o2}
    ItemIDs = {i0, i1, i2, i3}
    EventIDs = {e0, e1, e2}
    Calls = {"c0", "c1", "c2"}
    Earlier = {"c0", "c1"}
    InitDB <- MCInitDB
    Requests <- MCRequests
    SalePrice <- MCSalePrice
    NewOrder <- MCNewOrder
    NewItems <- MCNewItems
    NewEvent <- MCNewEvent
    Filters <- MCFilters
    PageSize = 2
    Watched = {o0}
    MaxEvents = 2
    MaxFaults = 2
INVARIANT RepoTypeOK
INVARIANT OrdersAreWhole
INVARIANT ReadersSeeWholeOrders
INVARIANT PagingSkipsNothing
PROPERTY StatusesFollowLifecycle
\* A shop with nothing left to do may stop.
CHECK_DEADLOCK FALSE
