SPECIFICATION OrderServiceSpec
CONSTANTS
    o1 = o1
    o2 = o2
    Orders = {o1, o2, "o3"}
    Users = {"u1"}
    Variants = {"v1"}
    Cart <- MCCart
    Customer <- MCCustomer
    SalePrice <- MCPrice
    Price <- MCPrice
    OrderBatch = 1
    MaxLog = 2
    Faults = {"commit_lost", "restart", "publish_error", "ack_lost"}
    MaxFaults = 1
    LatestReset = {}
INVARIANTS
    OrderServiceTypeOK
    ProcessedWasPublished
    StatusJustified
    CommittedStockEventsApplied
PROPERTIES
    ImplementsLifecycle
SYMMETRY MCSymmetry
\* A shop with nothing left to do may stop.
CHECK_DEADLOCK FALSE
