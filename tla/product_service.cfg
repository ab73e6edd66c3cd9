SPECIFICATION ProductServiceSpec
CONSTANTS
    Orders = {"o1", "o3", "o4", "o5"}
    Users = {"u1"}
    Variants = {"v1", "v2", "v3"}
    Cart <- MCCart
    Customer <- MCCustomer
    SalePrice <- MCSalePrice
    Price <- MCPrice
    InitialStock <- MCStock
    Publishers = {"p1", "p2"}
    BatchSize = 1
    MaxAttempts = 2
    MaxEvents = 2
    Faults = {"slow_publisher", "commit_lost", "restart", "publish_error", "ack_lost", "mark_error", "handler_error"}
    MaxFaults = 2
    LatestReset = {"stock-consumer-group"}
INVARIANTS
    ReservedIffAnnounced
    ProductServiceTypeOK
    StockConserved
    OutboxPublishedIsOnTopic
PROPERTIES
    EveryAnswerPublished
\* A shop with nothing left to do may stop.
CHECK_DEADLOCK FALSE
