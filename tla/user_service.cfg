SPECIFICATION UserServiceSpec
CONSTANTS
    Orders = {"o1", "o2"}
    Users = {"u1"}
    Registered = {"u1"}
    NoRow = NoRow
    Variants = {"v1"}
    Cart <- MCCart
    Customer <- MCCustomer
    SalePrice <- MCPrice
    Price <- MCPrice
    InitialWallet <- MCWallet
    UserBatch = 2
    UserAttempts = 10
    MaxPasswords = 0
    MaxReserved = 3
    Faults = {"commit_lost", "restart", "publish_error", "ack_lost"}
    MaxFaults = 2
    LatestReset = {}
INVARIANTS
    WalletConserved
    OnePaymentOutcome
    CommittedReservationsDecided
PROPERTIES
    EveryOutcomePublished
\* A shop with nothing left to do may stop.
CHECK_DEADLOCK FALSE
