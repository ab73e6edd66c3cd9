SPECIFICATION UserServiceSpec
CONSTANTS
    Orders = {"o1", "o2", "o3"}
    Users = {"u1", "u2"}
    Registered = {"u1"}
    NoRow = NoRow
    Variants = {"v1"}
    Cart <- MCCart
    Customer <- MCCustomer
    SalePrice <- MCPrice
    Price <- MCPrice
    InitialWallet <- MCWallet
    UserBatch = 2
    UserAttempts = 10
    MaxPasswords = 1
    MaxReserved = 3
    Faults = {"commit_lost", "restart", "publish_error", "ack_lost", "handler_error", "save_error", "tx_commit_error"}
    MaxFaults = 2
    LatestReset = {}
INVARIANTS
    UserServiceTypeOK
    SentWasPublished
\* A shop with nothing left to do may stop.
CHECK_DEADLOCK FALSE
