SPECIFICATION ChatSpec
CONSTANTS
    Nil = Nil
    m1 = m1
    m2 = m2
    Users <- MCUsers
    Trimmed <- MCTrimmed
    Joined <- MCJoined
    Calls = {"c1", "c2"}
    Pairs <- MCPairs
    Messages = {m1, m2}
    Payloads <- MCPayloads
    Formats = {"plain", "container"}
    JoinRooms = {"r1"}
    MaxRooms = 4
    MaxFaults = 1
INVARIANT ChatTypeOK
INVARIANT RoomsAgree
INVARIANT CommittedIsStored
PROPERTY StoredOnce
PROPERTY QueuedIsStored
\* Nobody has to send messages or start the writer.
CHECK_DEADLOCK FALSE
