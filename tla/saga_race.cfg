SPECIFICATION SagaSpec
CONSTANTS
    Orders = {"o2"}
    Users = {"rich", "poor"}
    Registered = {"rich", "poor"}
    NoRow = NoRow
    Variants = {"v1", "v2"}
    Cart <- MCCart
    Customer <- MCCustomer
    SalePrice <- MCPrice
    Price <- MCPrice
    InitialStock <- MCStock
    InitialWallet <- MCWallet
    OrderBatch = 2
    Publishers = {"p1"}
    BatchSize = 2
    MaxAttempts = 5
    UserBatch = 2
    UserAttempts = 10
    MaxPasswords = 0
    MaxLog = 0
    MaxEvents = 0
    MaxReserved = 0
    Faults = {}
    MaxFaults = 0
    LatestReset = {"stock-consumer-group", "asp-user-group"}
PROPERTIES
    PaidIsShown
\* A shop with nothing left to do may stop.
CHECK_DEADLOCK FALSE
