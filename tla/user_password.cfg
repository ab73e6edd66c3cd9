SPECIFICATION UserServiceSpec
CONSTANTS
    Orders = {"o1"}
    Users = {"u1"}
    Registered = {"u1"}
    NoRow = NoRow
    Variants = {"v1"}
    Cart <- MCCart
    Customer <- MCCustomer
    SalePrice <- MCPrice
    Price <- MCPrice
    InitialWallet <- MCWallet
    UserBatch = 2
    UserAttempts = 10
    MaxPasswords = 1
    MaxReserved = 1
    Faults = {}
    MaxFaults = 0
    LatestReset = {}
INVARIANTS
    WalletConserved
\* A shop with nothing left to do may stop.
CHECK_DEADLOCK FALSE
