SPECIFICATION ProductServiceSpec
CONSTANTS
    Orders = {"o1", "o4"}
    Users = {"u1"}
    Variants = {"v1", "v2", "v3"}
    Cart <- MCCart
    Customer <- MCCustomer
    SalePrice <- MCSalePrice
    Price <- MCPrice
    InitialStock <- MCStock
    Publishers = {"p1"}
    BatchSize = 2
    MaxAttempts = 5
    MaxEvents = 2
    Faults = {}
    MaxFaults = 0
    LatestReset = {"stock-consumer-group"}
INVARIANTS
    CommittedOrdersAnswered
\* A shop with nothing left to do may stop.
CHECK_DEADLOCK FALSE
