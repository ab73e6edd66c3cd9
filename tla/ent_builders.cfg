SPECIFICATION BuildersSpec
CONSTANTS
    Nil = Nil
    Mistyped = Mistyped
    o1 = o1
    o2 = o2
    o3 = o3
    i1 = i1
    i2 = i2
    i3 = i3
    i4 = i4
    e1 = e1
    e2 = e2
    OrderIDs = {o1, o2, o3}
    ItemIDs = {i1, i2, i3, i4}
    EventIDs = {e1, e2}
    InitDB <- MCInitDB
    Filled <- MCFilled
    SetterCalls <- MCSetterCalls
    NamedCalls <- MCNamedCalls
    QueryCalls <- MCQueryCalls
    MaxBuilders = 1
    MaxCalls = 2
    MaxExecs = 2
INVARIANT OnlyAddEscapesValidation
INVARIANT OldIsBefore
INVARIANT FreshQueriesAnswerInFull
PROPERTY SavedAsTold
PROPERTY ItemsKeepTheirOrder
\* A program may stop using the client.
CHECK_DEADLOCK FALSE
