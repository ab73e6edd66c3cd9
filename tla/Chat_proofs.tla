----------------------------- MODULE Chat_proofs -----------------------------
(***************************************************************************)
(* What the chat guarantees for any number of users, calls and messages,   *)
(* and any failures of the process, Cassandra and the broker: concurrent   *)
(* calls agree on the room of a pair's key, and no record is committed     *)
(* before its message is stored, once and as it was sent, or the record    *)
(* was thrown away with its poll.                                          *)
(***************************************************************************)
EXTENDS Chat, TLAPS, SequenceTheorems

----------------------------------------------------------------------------
(***************************************************************************)
(* Rooms.  A row of chat_rooms_by_pair is never replaced and identifiers   *)
(* are drawn once, so the row a call holds is the row of its key, and a    *)
(* row of chat_rooms_by_id with its identifier is a copy of it.            *)
(***************************************************************************)
Requests == [user : Users, peer : Users]

CallSteps == {"new", "find", "insert", "reread", "ensure", "done", "failed", "refused"}

CallRecords == [pc : CallSteps, pair : Requests \cup {Nil},
                room : RoomRows \cup {Nil}, created : BOOLEAN]

RoomTypes ==
    /\ byPair \in [PairKeys -> RoomRows \cup {Nil}]
    /\ byID \in [1..MaxRooms -> RoomRows \cup {Nil}]
    /\ fresh \in 0..MaxRooms
    /\ call \in [Calls -> CallRecords]

\* A row by pair is of its key, as its two users are, and has an identifier of its own.
RowsByPair ==
    \A k \in PairKeys : byPair[k] # Nil =>
        /\ byPair[k].key = k /\ Joined[byPair[k].users] = k
        /\ byPair[k].id <= fresh
        /\ \A l \in PairKeys : byPair[l] # Nil /\ byPair[l].id = byPair[k].id => l = k

\* A row by identifier is the row of its key.
RowsByID ==
    \A id \in 1..MaxRooms : byID[id] # Nil =>
        byID[id].id = id /\ byPair[byID[id].key] = byID[id]

\* What a call that is under way or answered holds.
CallHolds(c) ==
    /\ call[c].pc \in {"find", "insert", "reread", "ensure", "done"}
           => call[c].pair \in Requests /\ ValidParticipants(call[c].pair)
    /\ call[c].pc = "reread" => byPair[Key(c)] # Nil
    /\ call[c].pc \in {"ensure", "done"}
           => byPair[Key(c)] # Nil /\ call[c].room = byPair[Key(c)]
    /\ call[c].pc = "done" => byID[call[c].room.id] = call[c].room

CallsHold == \A c \in Calls : CallHolds(c)

RoomInvariant == RoomTypes /\ RowsByPair /\ RowsByID /\ CallsHold

\* The key of a pair is the key of the two users, trimmed and in order.
LEMMA KeyOfPair ==
    ASSUME NEW p \in Requests
    PROVE  /\ Participants(p) \in Users \X Users
           /\ PairKey(p) = Joined[Participants(p)] /\ PairKey(p) \in PairKeys
           /\ \A u : u \in {Participants(p)[1], Participants(p)[2]}
                      <=> u \in {Trimmed[p.user], Trimmed[p.peer]}
<1>1. Trimmed[p.user] \in Users /\ Trimmed[p.peer] \in Users
  BY ChatAssumption DEF Requests
<1>2. \/ Participants(p) = <<Trimmed[p.user], Trimmed[p.peer]>>
      \/ Participants(p) = <<Trimmed[p.peer], Trimmed[p.user]>>
  BY DEF Participants
<1>3. PairKey(p) = Joined[Participants(p)]
  BY DEF PairKey
<1>4. PairKey(p) \in PairKeys
  BY <1>1, <1>2, <1>3 DEF PairKeys
<1> QED
  BY <1>1, <1>2, <1>3, <1>4

\* Rows, once written, stay.
TablesKept ==
    /\ \A k \in PairKeys : byPair[k] # Nil => byPair'[k] = byPair[k]
    /\ \A id \in 1..MaxRooms : byID[id] # Nil => byID'[id] = byID[id]

\* A call that does nothing keeps what it holds, whatever the others insert.
LEMMA HoldsOn ==
    ASSUME RoomTypes, NEW c \in Calls, CallHolds(c), TablesKept, call'[c] = call[c]
    PROVE  CallHolds(c)'
<1>1. Key(c)' = Key(c)
  BY DEF Key
<1>2. call[c] \in CallRecords
  BY DEF RoomTypes
<1>3. call[c].pc \in {"find", "insert", "reread", "ensure", "done"} => Key(c) \in PairKeys
  BY KeyOfPair DEF CallHolds, Key
<1>4. \A k \in PairKeys : byPair[k] # Nil => byPair[k] \in RoomRows
  BY DEF RoomTypes
<1>5. call[c].pc = "done" => call[c].room.id \in 1..MaxRooms /\ call[c].room # Nil
  BY <1>3, <1>4 DEF CallHolds, RoomRows
<1> QED
  BY <1>1, <1>3, <1>5 DEF CallHolds, TablesKept

\* Tables that do not change keep what is said of them.
LEMMA TablesStay ==
    ASSUME RoomInvariant, UNCHANGED <<byPair, byID, fresh>>
    PROVE  RowsByPair' /\ RowsByID' /\ TablesKept
BY DEF RoomInvariant, RowsByPair, RowsByID, TablesKept

\* A step of one call that writes no row.
LEMMA CallMoves ==
    ASSUME RoomInvariant, UNCHANGED <<byPair, byID, fresh>>, NEW c \in Calls,
           NEW r \in CallRecords, call' = [call EXCEPT ![c] = r], CallHolds(c)'
    PROVE  RoomInvariant'
<1>1. RoomTypes' /\ \A d \in Calls \ {c} : call'[d] = call[d]
  BY DEF RoomInvariant, RoomTypes
<1>2. \A d \in Calls \ {c} : CallHolds(d)'
  BY <1>1, HoldsOn, TablesStay DEF RoomInvariant, CallsHold
<1> QED
  BY <1>1, <1>2, TablesStay DEF RoomInvariant, CallsHold

----------------------------------------------------------------------------
\* ResolveRoom only starts a call.
LEMMA ResolveRoomStep ==
    ASSUME RoomInvariant, NEW c \in Calls, ResolveRoom(c) PROVE RoomInvariant'
<1>1. PICK p \in Pairs[c] :
          call' = [call EXCEPT ![c].pc = IF ValidParticipants(p) THEN "find" ELSE "refused",
                               ![c].pair = p]
  BY DEF ResolveRoom
<1> DEFINE r == [call[c] EXCEPT !.pc = IF ValidParticipants(p) THEN "find" ELSE "refused",
                                !.pair = p]
<1>2. call[c] \in CallRecords /\ call \in [Calls -> CallRecords] /\ p \in Requests
  BY ChatAssumption DEF RoomInvariant, RoomTypes, Requests
<1>3. r \in CallRecords /\ r.pair = p /\ r.pc = IF ValidParticipants(p) THEN "find" ELSE "refused"
  BY <1>2 DEF CallRecords, CallSteps
<1>4. call' = [call EXCEPT ![c] = r]
  BY <1>1, <1>2 DEF CallRecords
<1> HIDE DEF r
<1>5. call'[c] = r
  BY <1>2, <1>4
<1>6. CallHolds(c)'
  BY <1>2, <1>3, <1>5 DEF CallHolds
<1>7. UNCHANGED <<byPair, byID, fresh>>
  BY DEF ResolveRoom
<1> QED
  BY <1>3, <1>4, <1>6, <1>7, CallMoves

\* Moving a call on keeps the pair and the room it holds.
LEMMA GotoSets ==
    ASSUME RoomInvariant, NEW c \in Calls, NEW pc \in CallSteps, Goto(c, pc)
    PROVE  \E r \in CallRecords : /\ call' = [call EXCEPT ![c] = r] /\ call'[c] = r
                                 /\ r.pc = pc /\ r.pair = call[c].pair /\ r.room = call[c].room
<1> DEFINE r == [call[c] EXCEPT !.pc = pc]
<1>1. call[c] \in CallRecords /\ call \in [Calls -> CallRecords]
  BY DEF RoomInvariant, RoomTypes
<1>2. r \in CallRecords /\ r.pc = pc /\ r.pair = call[c].pair /\ r.room = call[c].room
  BY <1>1 DEF CallRecords
<1>3. call' = [call EXCEPT ![c] = r]
  BY DEF Goto
<1> HIDE DEF r
<1> QED
  BY <1>1, <1>2, <1>3

\* A call that takes a room in hand keeps its pair.
LEMMA HoldingSets ==
    ASSUME RoomInvariant, NEW c \in Calls, NEW pc \in CallSteps, NEW room \in RoomRows \cup {Nil},
           NEW created \in BOOLEAN, Holding(c, pc, room, created)
    PROVE  \E r \in CallRecords : /\ call' = [call EXCEPT ![c] = r] /\ call'[c] = r
                                 /\ r.pc = pc /\ r.pair = call[c].pair /\ r.room = room
<1> DEFINE r == [call[c] EXCEPT !.pc = pc, !.room = room, !.created = created]
<1>1. call[c] \in CallRecords /\ call \in [Calls -> CallRecords]
  BY DEF RoomInvariant, RoomTypes
<1>2. r \in CallRecords /\ r.pc = pc /\ r.pair = call[c].pair /\ r.room = room
  BY <1>1 DEF CallRecords
<1>3. call' = [call EXCEPT ![c] = r]
  BY DEF Holding
<1> HIDE DEF r
<1> QED
  BY <1>1, <1>2, <1>3

\* A statement that fails ends the call and writes no row.
LEMMA ResolveFailsStep ==
    ASSUME RoomInvariant, NEW c \in Calls, ResolveFails(c) PROVE RoomInvariant'
<1>1. UNCHANGED <<byPair, byID, fresh>> /\ Goto(c, "failed") /\ "failed" \in CallSteps
  BY DEF ResolveFails, CallSteps
<1>2. PICK r \in CallRecords : call' = [call EXCEPT ![c] = r] /\ call'[c] = r /\ r.pc = "failed"
  BY <1>1, GotoSets
<1>3. CallHolds(c)'
  BY <1>2 DEF CallHolds
<1> QED
  BY <1>1, <1>2, <1>3, CallMoves

\* A call that names its pair's key.
LEMMA HeldKey ==
    ASSUME RoomInvariant, NEW c \in Calls,
           call[c].pc \in {"find", "insert", "reread", "ensure", "done"}
    PROVE  /\ call[c].pair \in Requests /\ ValidParticipants(call[c].pair)
           /\ Key(c) \in PairKeys
           /\ byPair[Key(c)] \in RoomRows \cup {Nil}
<1>1. call[c].pair \in Requests /\ ValidParticipants(call[c].pair)
  BY DEF RoomInvariant, CallsHold, CallHolds
<1>2. Key(c) \in PairKeys
  BY <1>1, KeyOfPair DEF Key
<1> QED
  BY <1>1, <1>2 DEF RoomInvariant, RoomTypes

\* A call reads the room of its pair from chat_rooms_by_pair.
LEMMA FindRoomStep ==
    ASSUME RoomInvariant, NEW c \in Calls, FindRoom(c) PROVE RoomInvariant'
<1> DEFINE pc == IF byPair[Key(c)] = Nil THEN "insert" ELSE "ensure"
<1>1. /\ UNCHANGED <<byPair, byID, fresh>> /\ Holding(c, pc, byPair[Key(c)], FALSE)
      /\ call[c].pc = "find" /\ pc \in CallSteps
  BY DEF FindRoom, CallSteps
<1>2. /\ call[c].pair \in Requests /\ ValidParticipants(call[c].pair)
      /\ byPair[Key(c)] \in RoomRows \cup {Nil}
  BY <1>1, HeldKey
<1> HIDE DEF pc
<1>3. PICK r \in CallRecords : /\ call' = [call EXCEPT ![c] = r] /\ call'[c] = r
                               /\ r.pc = pc /\ r.pair = call[c].pair /\ r.room = byPair[Key(c)]
  <2>1. \E b \in BOOLEAN : Holding(c, pc, byPair[Key(c)], b)
    BY <1>1
  <2> QED
    BY <1>1, <1>2, <2>1, HoldingSets
<1>4. Key(c)' = Key(c)
  BY <1>3 DEF Key
<1>5. CallHolds(c)'
  BY <1>1, <1>2, <1>3, <1>4 DEF CallHolds, pc
<1> QED
  BY <1>1, <1>3, <1>5, CallMoves

\* After its insert a call holds the room that is in the table, whoever put it there.
LEMMA RereadRoomStep ==
    ASSUME RoomInvariant, NEW c \in Calls, RereadRoom(c) PROVE RoomInvariant'
<1>1. /\ UNCHANGED <<byPair, byID, fresh>> /\ Holding(c, "ensure", byPair[Key(c)], TRUE)
      /\ call[c].pc = "reread" /\ "ensure" \in CallSteps
  BY DEF RereadRoom, CallSteps
<1>2. /\ call[c].pair \in Requests /\ ValidParticipants(call[c].pair)
      /\ byPair[Key(c)] \in RoomRows \cup {Nil}
  BY <1>1, HeldKey
<1>3. PICK r \in CallRecords : /\ call' = [call EXCEPT ![c] = r] /\ call'[c] = r
                               /\ r.pc = "ensure" /\ r.pair = call[c].pair
                               /\ r.room = byPair[Key(c)]
  <2>1. \E b \in BOOLEAN : Holding(c, "ensure", byPair[Key(c)], b)
    BY <1>1
  <2> QED
    BY <1>1, <1>2, <2>1, HoldingSets
<1>4. Key(c)' = Key(c) /\ byPair[Key(c)] # Nil
  BY <1>1, <1>3 DEF Key, RoomInvariant, CallsHold, CallHolds
<1>5. CallHolds(c)'
  BY <1>1, <1>2, <1>3, <1>4 DEF CallHolds
<1> QED
  BY <1>1, <1>3, <1>5, CallMoves

\* INSERT ... IF NOT EXISTS stores the first room of a pair and no second one.
LEMMA InsertByPairStep ==
    ASSUME RoomInvariant, NEW c \in Calls, InsertByPair(c) PROVE RoomInvariant'
<1> DEFINE key == Key(c)
           users == Participants(call[c].pair)
           row == [id |-> fresh + 1, key |-> key, users |-> users]
<1>1. /\ fresh' = fresh + 1 /\ fresh \in 0..MaxRooms /\ fresh' \in 0..MaxRooms
      /\ fresh' \in 1..MaxRooms /\ byID' = byID /\ call[c].pc = "insert"
  BY ChatAssumption DEF InsertByPair, RoomInvariant, RoomTypes
<1>2. /\ call[c].pair \in Requests /\ ValidParticipants(call[c].pair)
      /\ key \in PairKeys
  BY <1>1, HeldKey
<1>2a. users \in Users \X Users /\ Joined[users] = key
  BY <1>2, KeyOfPair DEF Key
<1>3. /\ row \in RoomRows /\ row # Nil /\ row.id = fresh + 1
      /\ row.key = key /\ Joined[row.users] = key
  <2> HIDE DEF key, users
  <2> QED
    BY <1>1, <1>2, <1>2a, ChatAssumption DEF RoomRows
<1>4. byPair' = InsertIfNotExists(byPair, key, row) /\ byPair \in [PairKeys -> RoomRows \cup {Nil}]
  BY DEF InsertByPair, RoomInvariant, RoomTypes
<1> HIDE DEF row, key, users
<1>5. /\ byPair' \in [PairKeys -> RoomRows \cup {Nil}]
      /\ \A k \in PairKeys : byPair[k] # Nil => byPair'[k] = byPair[k]
      /\ \A k \in PairKeys : byPair'[k] # Nil =>
             byPair'[k] = byPair[k] \/ (k = key /\ byPair'[k] = row)
      /\ byPair'[key] # Nil
  BY <1>2, <1>3, <1>4 DEF InsertIfNotExists
<1>6. TablesKept
  BY <1>1, <1>5 DEF TablesKept
<1>7. \A k \in PairKeys : byPair[k] # Nil => byPair[k].id \in Nat /\ byPair[k].id <= fresh
  <2>1. \A k \in PairKeys : byPair[k] # Nil => byPair[k].id \in 1..MaxRooms
    BY <1>4 DEF RoomRows
  <2> QED
    BY <2>1, ChatAssumption DEF RoomInvariant, RowsByPair
<1>8. RowsByPair'
  <2> SUFFICES ASSUME NEW k \in PairKeys, byPair'[k] # Nil
               PROVE  /\ byPair'[k].key = k /\ Joined[byPair'[k].users] = k
                      /\ byPair'[k].id <= fresh'
                      /\ \A l \in PairKeys :
                            byPair'[l] # Nil /\ byPair'[l].id = byPair'[k].id => l = k
    BY DEF RowsByPair
  <2>1. byPair'[k].key = k /\ Joined[byPair'[k].users] = k /\ byPair'[k].id <= fresh'
    BY <1>1, <1>3, <1>5, <1>7 DEF RoomInvariant, RowsByPair
  <2>2. ASSUME NEW l \in PairKeys, byPair'[l] # Nil, byPair'[l].id = byPair'[k].id PROVE l = k
    <3>1. \/ byPair'[k] = byPair[k]
          \/ k = key /\ byPair'[k].id = fresh + 1
      BY <1>3, <1>5
    <3>2. \/ byPair'[l] = byPair[l]
          \/ l = key /\ byPair'[l].id = fresh + 1
      BY <1>3, <1>5, <2>2
    <3> QED
      BY <1>1, <1>7, <2>2, <3>1, <3>2 DEF RoomInvariant, RowsByPair
  <2> QED
    BY <2>1, <2>2
<1>9. RowsByID'
  <2>1. \A id \in 1..MaxRooms : byID[id] # Nil => byID[id].key \in PairKeys /\ byID[id] # Nil
    BY DEF RoomInvariant, RoomTypes, RoomRows
  <2> QED
    BY <1>1, <1>5, <2>1 DEF RoomInvariant, RowsByID
<1>10. PICK r \in CallRecords : /\ call' = [call EXCEPT ![c] = r] /\ call'[c] = r
                                /\ r.pc \in {"reread", "failed"} /\ r.pair = call[c].pair
  <2>1. /\ Goto(c, "reread") \/ Goto(c, "failed")
        /\ "reread" \in CallSteps /\ "failed" \in CallSteps
    BY DEF InsertByPair, CallSteps
  <2> QED
    BY <2>1, GotoSets
<1>11. RoomTypes' /\ \A d \in Calls \ {c} : call'[d] = call[d]
  BY <1>1, <1>5, <1>10 DEF RoomInvariant, RoomTypes
<1>12. CallHolds(c)'
  <2>1. Key(c)' = key
    BY <1>10 DEF Key, key
  <2> QED
    BY <1>2, <1>5, <1>10, <2>1 DEF CallHolds
<1>13. \A d \in Calls \ {c} : CallHolds(d)'
  BY <1>6, <1>11, HoldsOn DEF RoomInvariant, CallsHold
<1> QED
  BY <1>8, <1>9, <1>11, <1>12, <1>13 DEF RoomInvariant, CallsHold

\* chat_rooms_by_id gains the row of the room that the call holds for its pair.
LEMMA EnsureRoomStep ==
    ASSUME RoomInvariant, NEW c \in Calls, EnsureRoomByID(c) PROVE RoomInvariant'
<1> DEFINE key == Key(c)
           row == byPair[key]
<1>1. byPair' = byPair /\ fresh' = fresh /\ call[c].pc = "ensure"
  BY DEF EnsureRoomByID
<1>2. /\ call[c].pair \in Requests /\ ValidParticipants(call[c].pair)
      /\ key \in PairKeys /\ row # Nil /\ call[c].room = row /\ row \in RoomRows
  BY <1>1, HeldKey DEF RoomInvariant, CallsHold, CallHolds
<1>3. row.key = key /\ row.id \in 1..MaxRooms
  BY <1>2 DEF RoomInvariant, RowsByPair, RoomRows
<1>4. /\ byID' = InsertIfNotExists(byID, row.id, row)
      /\ byID \in [1..MaxRooms -> RoomRows \cup {Nil}]
  BY <1>2 DEF EnsureRoomByID, RoomInvariant, RoomTypes
<1>4a. byPair[key] = row
  OBVIOUS
<1> HIDE DEF row, key
<1>5. /\ byID' \in [1..MaxRooms -> RoomRows \cup {Nil}]
      /\ \A id \in 1..MaxRooms : byID[id] # Nil => byID'[id] = byID[id]
      /\ \A id \in 1..MaxRooms : byID'[id] # Nil =>
             byID'[id] = byID[id] \/ (id = row.id /\ byID'[id] = row)
      /\ byID[row.id] = Nil => byID'[row.id] = row
  BY <1>2, <1>3, <1>4 DEF InsertIfNotExists
<1>6. TablesKept
  BY <1>1, <1>5 DEF TablesKept
<1>7. RowsByPair'
  BY <1>1 DEF RoomInvariant, RowsByPair
<1>8. RowsByID'
  BY <1>1, <1>3, <1>4a, <1>5 DEF RoomInvariant, RowsByID
<1>9. byID'[row.id] = row
  <2>1. CASE byID[row.id] # Nil
    <3>1. /\ byID[row.id] \in RoomRows /\ byID[row.id].id = row.id
          /\ byPair[byID[row.id].key] = byID[row.id]
      BY <1>3, <1>4, <2>1 DEF RoomInvariant, RowsByID
    <3>2. byID[row.id].key \in PairKeys
      BY <3>1 DEF RoomRows
    <3>3. byID[row.id].key = key
      BY <1>2, <1>4a, <2>1, <3>1, <3>2 DEF RoomInvariant, RowsByPair
    <3> QED
      BY <1>3, <1>4a, <1>5, <2>1, <3>1, <3>3
  <2> QED
    BY <1>5, <2>1
<1>10. PICK r \in CallRecords : /\ call' = [call EXCEPT ![c] = r] /\ call'[c] = r
                                /\ r.pc \in {"done", "failed"} /\ r.pair = call[c].pair
                                /\ r.room = call[c].room
  <2>1. /\ Goto(c, "done") \/ Goto(c, "failed")
        /\ "done" \in CallSteps /\ "failed" \in CallSteps
    BY DEF EnsureRoomByID, CallSteps
  <2> QED
    BY <2>1, GotoSets
<1>11. RoomTypes' /\ \A d \in Calls \ {c} : call'[d] = call[d]
  BY <1>1, <1>5, <1>10 DEF RoomInvariant, RoomTypes
<1>12. CallHolds(c)'
  <2>1. Key(c)' = key
    BY <1>10 DEF Key, key
  <2> QED
    BY <1>1, <1>2, <1>4a, <1>9, <1>10, <2>1 DEF CallHolds
<1>13. \A d \in Calls \ {c} : CallHolds(d)'
  BY <1>6, <1>11, HoldsOn DEF RoomInvariant, CallsHold
<1> QED
  BY <1>7, <1>8, <1>11, <1>12, <1>13 DEF RoomInvariant, CallsHold

\* The end of the process fails the calls it was serving, and no others.
LEMMA RoomsOutlive ==
    ASSUME RoomInvariant, UNCHANGED <<byPair, byID, fresh>>, Down \/ UNCHANGED call
    PROVE  RoomInvariant'
<1>1. \A c \in Calls : call[c] \in CallRecords
  BY DEF RoomInvariant, RoomTypes
<1>2. ASSUME NEW c \in Calls
      PROVE  /\ [call[c] EXCEPT !.pc = "failed"] \in CallRecords
             /\ [call[c] EXCEPT !.pc = "failed"].pc = "failed"
  BY <1>1 DEF CallRecords, CallSteps
<1>3. CASE Down
  <2>1. ASSUME NEW c \in Calls
        PROVE  call'[c] = call[c] \/ (call'[c] \in CallRecords /\ call'[c].pc = "failed")
    BY <1>2, <1>3 DEF Down
  <2>2. RoomTypes'
    <3>1. \A c \in Calls : call'[c] \in CallRecords
      BY <1>1, <2>1
    <3>2. call' \in [Calls -> CallRecords]
      BY <1>3, <3>1 DEF Down
    <3> QED
      BY <3>2 DEF RoomInvariant, RoomTypes
  <2>3. ASSUME NEW c \in Calls PROVE CallHolds(c)'
    <3>1. CASE call'[c] = call[c]
      BY <3>1, HoldsOn, TablesStay DEF RoomInvariant, CallsHold
    <3>2. CASE call'[c].pc = "failed"
      BY <3>2 DEF CallHolds
    <3> QED
      BY <2>1, <3>1, <3>2
  <2> QED
    BY <2>2, <2>3, TablesStay DEF RoomInvariant, CallsHold
<1>4. CASE UNCHANGED call
  <2>1. \A c \in Calls : CallHolds(c)'
    BY <1>4, HoldsOn, TablesStay DEF RoomInvariant, CallsHold
  <2>2. RoomTypes'
    BY <1>4 DEF RoomInvariant, RoomTypes
  <2> QED
    BY <2>1, <2>2, TablesStay DEF RoomInvariant, CallsHold
<1> QED
  BY <1>3, <1>4

\* Every step keeps the two room tables and the calls in agreement.
LEMMA RoomInvariantNext == RoomInvariant /\ [Next]_vars => RoomInvariant'
<1> SUFFICES ASSUME RoomInvariant, [Next]_vars PROVE RoomInvariant'
  OBVIOUS
<1>1. ASSUME NEW c \in Calls, Resolve(c) PROVE RoomInvariant'
  BY <1>1, ResolveRoomStep, ResolveFailsStep, FindRoomStep, InsertByPairStep, RereadRoomStep,
     EnsureRoomStep DEF Resolve
<1>2. CASE UNCHANGED <<byPair, byID, fresh>> /\ (Down \/ UNCHANGED call)
  BY <1>2, RoomsOutlive
<1> QED
  BY <1>1, <1>2 DEF Next, Join, SendMessage, PublishMessage, HandleRecord, DiscardFetches,
                    CommitRecord, Crash, Restart, vars, roomVars

----------------------------------------------------------------------------
(***************************************************************************)
(* Messages.  A socket sends one message, so every record of it, and the   *)
(* row stored for it, carry what the socket sent.                          *)
(***************************************************************************)
Sockets == [room : JoinRooms \cup {Nil}, reply : Replies \cup {Nil}, message : ChatMessages \cup {Nil}]

Records == [format : Formats, message : ChatMessages]

MessageTypes ==
    /\ socket \in [Messages -> Sockets]
    /\ topic \in Seq(Records)
    /\ writer \in {"down", "poll", "commit"}
    /\ position \in Nat /\ committed \in Nat /\ clock \in Nat
    /\ stored \in [Messages -> StoredRows \cup {Nil}]

\* A message is what its socket sent.
IsSent(message) ==
    socket[message.message_id].reply # Nil /\ socket[message.message_id].message = message

SentOnce ==
    /\ \A m \in Messages : socket[m].reply = "delivered"
           => socket[m].message # Nil /\ socket[m].message.message_id = m
    /\ \A k \in DOMAIN topic : IsSent(topic[k].message)
    /\ \A m \in Messages : stored[m] # Nil =>
           /\ IsSent(stored[m].message) /\ stored[m].message.message_id = m
           /\ "" \notin {stored[m].message.room_id, stored[m].message.body}

\* What has been read is stored or was thrown away with its poll, and is
\* committed only if it has been read.
ReadIsStored ==
    /\ committed <= position /\ position <= Len(topic)
    /\ discarded \subseteq 1..position
    /\ \A k \in 1..position : k \in discarded \/ IsStored(k)
    /\ writer = "commit" => position < Len(topic) /\ IsStored(position + 1)

MessageInvariant == MessageTypes /\ SentOnce /\ ReadIsStored

----------------------------------------------------------------------------
\* Rows of chat_messages are never replaced.
StoredKept == \A m \in Messages : stored[m] # Nil => stored'[m] = stored[m]

\* What a socket has sent is settled.
SentKept ==
    \A m \in Messages : socket[m].reply # Nil =>
        socket'[m].reply # Nil /\ socket'[m].message = socket[m].message

\* The topic only grows, and only by a message that has been sent.
TopicGrows ==
    /\ topic' \in Seq(Records)
    /\ Len(topic) <= Len(topic')
    /\ \A k \in 1..Len(topic) : topic'[k] = topic[k]
    /\ \A k \in 1..Len(topic') :
          k \notin 1..Len(topic) => topic'[k].message \in ChatMessages /\ IsSent(topic'[k].message)

\* What lies on the topic is a record of a message.
LEMMA TopicRecord ==
    ASSUME MessageTypes, NEW k \in 1..Len(topic)
    PROVE  topic[k] \in Records /\ topic[k].message \in ChatMessages
           /\ topic[k].message.message_id \in Messages /\ DOMAIN topic = 1..Len(topic)
<1>1. topic \in Seq(Records)
  BY DEF MessageTypes
<1>2. topic[k] \in Records /\ DOMAIN topic = 1..Len(topic)
  BY <1>1
<1> QED
  BY <1>2 DEF Records, ChatMessages

\* Rows are never overwritten by other rows, so a stored message stays stored.
LEMMA StoredStay ==
    ASSUME MessageTypes, StoredKept, NEW k \in 1..Len(topic), IsStored(k), topic'[k] = topic[k]
    PROVE  IsStored(k)'
BY TopicRecord DEF StoredKept, IsStored

\* Steps of the channel and the producer: the writer stands still.
LEMMA WriterStands ==
    ASSUME MessageInvariant, socket' \in [Messages -> Sockets], SentKept, TopicGrows,
           UNCHANGED writerVars,
           \A m \in Messages : socket'[m].reply = "delivered"
               => socket'[m].message # Nil /\ socket'[m].message.message_id = m
    PROVE  MessageInvariant'
<1>0. topic \in Seq(Records) /\ topic' \in Seq(Records) /\ Len(topic) \in Nat /\ Len(topic') \in Nat
  BY DEF MessageInvariant, MessageTypes, TopicGrows
<1>1. MessageTypes'
  BY DEF MessageInvariant, MessageTypes, TopicGrows, writerVars
<1>2. \A message \in ChatMessages : IsSent(message) =>
          /\ socket'[message.message_id].reply # Nil
          /\ socket'[message.message_id].message = message
  BY DEF SentKept, IsSent, ChatMessages
<1>3. ASSUME NEW k \in DOMAIN topic'
      PROVE  /\ socket'[topic'[k].message.message_id].reply # Nil
             /\ socket'[topic'[k].message.message_id].message = topic'[k].message
  <2>0. k \in 1..Len(topic')
    BY <1>0
  <2>1. CASE k \in 1..Len(topic)
    <3>1. topic'[k].message = topic[k].message /\ topic[k].message \in ChatMessages
      BY <2>1, TopicRecord DEF TopicGrows, MessageInvariant
    <3>2. k \in DOMAIN topic
      BY <1>0, <2>1
    <3>3. IsSent(topic[k].message)
      BY <3>2 DEF MessageInvariant, SentOnce
    <3> QED
      BY <1>2, <3>1, <3>3
  <2>2. CASE k \notin 1..Len(topic)
    BY <1>2, <2>0, <2>2 DEF TopicGrows
  <2> QED
    BY <2>1, <2>2
<1>4. \A m \in Messages : stored[m] # Nil => stored[m].message \in ChatMessages
  BY DEF MessageInvariant, MessageTypes, StoredRows
<1>4a. stored' = stored
  BY DEF writerVars
<1>5. SentOnce'
  <2>1. \A k \in DOMAIN topic' : IsSent(topic[k].message)'
    BY <1>3 DEF IsSent
  <2>2. ASSUME NEW m \in Messages, stored[m] # Nil
        PROVE  /\ IsSent(stored[m].message) /\ stored[m].message.message_id = m
               /\ "" \notin {stored[m].message.room_id, stored[m].message.body}
    BY <2>2 DEF MessageInvariant, SentOnce
  <2>3. ASSUME NEW m \in Messages, stored[m] # Nil
        PROVE  IsSent(stored[m].message)'
    BY <1>2, <1>4, <1>4a, <2>2, <2>3 DEF IsSent
  <2> QED
    BY <1>4a, <2>1, <2>2, <2>3 DEF SentOnce
<1>6. \A k \in 1..Len(topic) : IsStored(k) => IsStored(k)'
  BY StoredStay DEF StoredKept, TopicGrows, MessageInvariant, writerVars
<1>7. ReadIsStored'
  <2>1. /\ position \in Nat /\ committed \in Nat /\ committed <= position /\ position <= Len(topic)
        /\ Len(topic) <= Len(topic') /\ UNCHANGED <<position, committed, discarded, writer>>
          /\ discarded \subseteq 1..position
    BY DEF MessageInvariant, MessageTypes, ReadIsStored, TopicGrows, writerVars
  <2>2. position <= Len(topic') /\ 1..position \subseteq 1..Len(topic)
    BY <1>0, <2>1
  <2>3. writer = "commit" => /\ position < Len(topic) /\ position < Len(topic')
                             /\ position + 1 \in 1..Len(topic) /\ IsStored(position + 1)
    BY <1>0, <2>1 DEF MessageInvariant, ReadIsStored
  <2>4. writer = "commit" => IsStored(position + 1)'
    BY <1>6, <2>1, <2>3
  <2>5. \A k \in 1..position : k \in discarded \/ IsStored(k)'
    BY <1>6, <2>2 DEF MessageInvariant, ReadIsStored
  <2> QED
    BY <2>1, <2>2, <2>3, <2>4, <2>5 DEF ReadIsStored
<1> QED
  BY <1>1, <1>5, <1>7 DEF MessageInvariant

\* Joining a room sends no message.
LEMMA JoinStep ==
    ASSUME MessageInvariant, NEW m \in Messages, NEW room \in JoinRooms, Join(m, room)
    PROVE  MessageInvariant'
<1>1. /\ socket \in [Messages -> Sockets] /\ socket' = [socket EXCEPT ![m].room = room]
      /\ UNCHANGED <<topic, writerVars>>
  BY DEF Join, MessageInvariant, MessageTypes
<1>2. socket[m] \in Sockets
  BY <1>1
<1> DEFINE r == [socket[m] EXCEPT !.room = room]
<1>3. r \in Sockets /\ r.reply = socket[m].reply /\ r.message = socket[m].message
  BY <1>2 DEF Sockets
<1>4. socket' = [socket EXCEPT ![m] = r]
  BY <1>1
<1> HIDE DEF r
<1>5. /\ socket' \in [Messages -> Sockets]
      /\ \A x \in Messages : /\ socket'[x].reply = socket[x].reply
                             /\ socket'[x].message = socket[x].message
  BY <1>1, <1>3, <1>4
<1>6. SentKept
  BY <1>5 DEF SentKept
<1>7. TopicGrows
  BY <1>1 DEF TopicGrows, MessageInvariant, MessageTypes
<1> QED
  BY <1>1, <1>5, <1>6, <1>7, WriterStands DEF MessageInvariant, SentOnce

\* Message.build makes a message of the socket's, or nothing.
LEMMA BuildsMessage ==
    ASSUME MessageTypes, NEW m \in Messages, NEW p \in Payloads, socket[m].room # Nil
    PROVE  build(m, p) = Nil \/ (build(m, p) \in ChatMessages /\ build(m, p).message_id = m)
<1> DEFINE room == IF p.room = Nil THEN socket[m].room ELSE p.room
<1>1. socket[m] \in Sockets
  BY DEF MessageTypes
<1>2. room \in JoinRooms \cup {q.room : q \in Payloads}
  BY <1>1 DEF Sockets
<1>3. build(m, p) = IF room = "" \/ p.content = "" THEN Nil
                    ELSE [message_id |-> m, room_id |-> room, body |-> p.content]
  BY DEF build
<1>4. p.content \in {q.content : q \in Payloads}
  OBVIOUS
<1> HIDE DEF room
<1> DEFINE message == [message_id |-> m, room_id |-> room, body |-> p.content]
<1>5. message \in ChatMessages /\ message.message_id = m
  BY <1>2, <1>4 DEF ChatMessages
<1> QED
  BY <1>3, <1>5

\* handle_in refuses a message or delivers it under its own id.
LEMMA SendStep ==
    ASSUME MessageInvariant, NEW m \in Messages, NEW p \in Payloads, SendMessage(m, p)
    PROVE  MessageInvariant'
<1>1. /\ socket \in [Messages -> Sockets] /\ socket[m] \in Sockets /\ socket[m].reply = Nil
      /\ UNCHANGED <<topic, writerVars>>
  BY DEF SendMessage, MessageInvariant, MessageTypes
<1>2. PICK r \in Sockets : /\ socket' = [socket EXCEPT ![m] = r]
                           /\ r.reply = "delivered" => r.message # Nil /\ r.message.message_id = m
  <2>1. CASE socket[m].room # Nil /\ build(m, p) # Nil
    <3> DEFINE r == [socket[m] EXCEPT !.reply = "delivered", !.message = build(m, p)]
    <3>1. build(m, p) \in ChatMessages /\ build(m, p).message_id = m
      BY <2>1, BuildsMessage DEF MessageInvariant
    <3>2. socket' = [socket EXCEPT ![m] = r]
      BY <2>1 DEF SendMessage
    <3>3. r \in Sockets /\ r.message = build(m, p)
      BY <1>1, <3>1 DEF Sockets, Replies
    <3> QED
      BY <2>1, <3>1, <3>2, <3>3
  <2>2. CASE ~(socket[m].room # Nil /\ build(m, p) # Nil)
    <3>1. PICK x \in {"room_not_joined", "invalid_payload"} :
              socket' = [socket EXCEPT ![m].reply = x]
      BY <2>2 DEF SendMessage
    <3> DEFINE r == [socket[m] EXCEPT !.reply = x]
    <3>2. r \in Sockets /\ r.reply # "delivered"
      BY <1>1, <3>1 DEF Sockets, Replies
    <3>3. socket' = [socket EXCEPT ![m] = r]
      BY <3>1
    <3> QED
      BY <3>2, <3>3
  <2> QED
    BY <2>1, <2>2
<1>3. socket' \in [Messages -> Sockets] /\ socket'[m] = r /\ \A x \in Messages \ {m} : socket'[x] = socket[x]
  BY <1>1, <1>2
<1>4. SentKept
  BY <1>1, <1>3 DEF SentKept
<1>5. TopicGrows
  BY <1>1 DEF TopicGrows, MessageInvariant, MessageTypes
<1>6. \A x \in Messages : socket'[x].reply = "delivered"
               => socket'[x].message # Nil /\ socket'[x].message.message_id = x
  BY <1>2, <1>3 DEF MessageInvariant, SentOnce
<1> QED
  BY <1>1, <1>3, <1>4, <1>5, <1>6, WriterStands

\* A record appended once, twice or not at all.
LEMMA Appended ==
    ASSUME topic \in Seq(Records), NEW r \in Records, r.message \in ChatMessages, IsSent(r.message),
           topic' \in {topic, Append(topic, r), topic \o <<r, r>>}
    PROVE  TopicGrows
<1>1. Len(topic) \in Nat
  OBVIOUS
<1>2. CASE topic' = topic
  BY <1>2 DEF TopicGrows
<1>3. CASE topic' = Append(topic, r)
  <2>1. /\ topic' \in Seq(Records) /\ Len(topic') = Len(topic) + 1
        /\ \A k \in 1..Len(topic) : topic'[k] = topic[k]
        /\ topic'[Len(topic) + 1] = r
    BY <1>3
  <2> QED
    BY <1>1, <2>1 DEF TopicGrows
<1>4. CASE topic' = topic \o <<r, r>>
  <2>1. /\ topic' \in Seq(Records) /\ Len(topic') = Len(topic) + 2
        /\ \A k \in 1..Len(topic) : topic'[k] = topic[k]
        /\ topic'[Len(topic) + 1] = r /\ topic'[Len(topic) + 2] = r
    BY <1>4
  <2>2. \A k \in 1..Len(topic') :
            k \notin 1..Len(topic) => k = Len(topic) + 1 \/ k = Len(topic) + 2
    BY <1>1, <2>1
  <2> QED
    BY <1>1, <2>1, <2>2 DEF TopicGrows
<1> QED
  BY <1>2, <1>3, <1>4

\* A delivered message reaches the end of the topic once, twice after a retry, or not at all.
LEMMA PublishStep ==
    ASSUME MessageInvariant, NEW m \in Messages, PublishMessage(m)
    PROVE  MessageInvariant'
<1>1. /\ socket \in [Messages -> Sockets] /\ socket[m] \in Sockets /\ socket[m].reply = "delivered"
      /\ UNCHANGED writerVars /\ topic \in Seq(Records)
  BY DEF PublishMessage, MessageInvariant, MessageTypes
<1>2. socket[m].message \in ChatMessages /\ IsSent(socket[m].message)
  BY <1>1, ChatAssumption DEF MessageInvariant, SentOnce, IsSent, Sockets, Replies
<1>3. PICK f \in Formats, x \in {"queued", "error"} :
          /\ Reply(m, x)
          /\ topic' \in {topic, Append(topic, [format |-> f, message |-> socket[m].message]),
                         topic \o <<[format |-> f, message |-> socket[m].message],
                                    [format |-> f, message |-> socket[m].message]>>}
  BY DEF PublishMessage
<1> DEFINE record == [format |-> f, message |-> socket[m].message]
           r == [socket[m] EXCEPT !.reply = x]
<1>4. record \in Records /\ record.message = socket[m].message
  BY <1>2 DEF Records
<1>5. topic' \in {topic, Append(topic, record), topic \o <<record, record>>}
  BY <1>3
<1>6. r \in Sockets /\ r.reply = x /\ r.message = socket[m].message
  BY <1>1, <1>3 DEF Sockets, Replies
<1>7. socket' = [socket EXCEPT ![m] = r]
  BY <1>3 DEF Reply
<1> HIDE DEF record, r
<1>8. TopicGrows
  BY <1>1, <1>2, <1>4, <1>5, Appended
<1>9. socket' \in [Messages -> Sockets] /\ socket'[m] = r /\ \A y \in Messages \ {m} : socket'[y] = socket[y]
  BY <1>1, <1>6, <1>7
<1>10. SentKept
  BY <1>3, <1>6, <1>9, ChatAssumption DEF SentKept, Replies
<1>11. \A y \in Messages : socket'[y].reply = "delivered"
               => socket'[y].message # Nil /\ socket'[y].message.message_id = y
  BY <1>3, <1>6, <1>9 DEF MessageInvariant, SentOnce
<1> QED
  BY <1>1, <1>8, <1>9, <1>10, <1>11, WriterStands

----------------------------------------------------------------------------
\* A record the writer decodes is a message that was sent, and complete.
LEMMA Decoded ==
    ASSUME MessageInvariant, position < Len(topic), decodeMessage(topic[position + 1]) # Nil
    PROVE  LET message == decodeMessage(topic[position + 1])
           IN  /\ message = topic[position + 1].message /\ message \in ChatMessages
               /\ message.message_id \in Messages
               /\ IsSent(message) /\ "" \notin {message.room_id, message.body}
<1>1. position + 1 \in 1..Len(topic) /\ position + 1 \in DOMAIN topic
  BY DEF MessageInvariant, MessageTypes
<1>2. /\ topic[position + 1].message \in ChatMessages
      /\ topic[position + 1].message.message_id \in Messages
      /\ IsSent(topic[position + 1].message)
  BY <1>1, TopicRecord DEF MessageInvariant, SentOnce
<1> QED
  BY <1>2 DEF decodeMessage

\* The message at the position is stored, by this insert or an earlier one.
LEMMA InsertStores ==
    ASSUME MessageInvariant, position < Len(topic), decodeMessage(topic[position + 1]) # Nil,
           insertRow(decodeMessage(topic[position + 1])), UNCHANGED <<socket, topic>>
    PROVE  /\ stored' \in [Messages -> StoredRows \cup {Nil}] /\ StoredKept
           /\ \A k : k = position + 1 => IsStored(k)'
           /\ \A m \in Messages : stored'[m] # Nil =>
                 /\ IsSent(stored'[m].message) /\ stored'[m].message.message_id = m
                 /\ "" \notin {stored'[m].message.room_id, stored'[m].message.body}
<1> DEFINE message == topic[position + 1].message
           id == message.message_id
           row == [message |-> message, persisted_at |-> clock]
<1>1. /\ message \in ChatMessages /\ id \in Messages /\ IsSent(message)
      /\ "" \notin {message.room_id, message.body}
      /\ stored' = InsertIfNotExists(stored, id, row)
  BY Decoded DEF insertRow
<1>2. row \in StoredRows /\ row # Nil /\ row.message = message
  <2>1. clock \in Nat
    BY DEF MessageInvariant, MessageTypes
  <2> HIDE DEF message
  <2>2. row \in StoredRows /\ row.message = message
    BY <1>1, <2>1 DEF StoredRows
  <2>3. Nil \notin StoredRows
    BY ChatAssumption
  <2> QED
    BY <2>2, <2>3
<1>3. /\ stored \in [Messages -> StoredRows \cup {Nil}]
      /\ \A m \in Messages : stored[m] # Nil =>
            /\ IsSent(stored[m].message) /\ stored[m].message.message_id = m
            /\ "" \notin {stored[m].message.room_id, stored[m].message.body}
  BY DEF MessageInvariant, MessageTypes, SentOnce
<1> HIDE DEF row
<1>4. /\ stored' \in [Messages -> StoredRows \cup {Nil}] /\ StoredKept
      /\ \A m \in Messages : stored'[m] = stored[m] \/ (m = id /\ stored'[m] = row)
      /\ stored[id] = Nil => stored'[id] = row
  <2> HIDE DEF id
  <2> QED
    BY <1>1, <1>2, <1>3 DEF InsertIfNotExists, StoredKept
<1>5. stored'[id] # Nil /\ stored'[id].message = message
  <2>1. CASE stored[id] = Nil
    BY <1>2, <1>4, <2>1
  <2>2. CASE stored[id] # Nil
    <3>1. stored[id].message = message
      BY <1>1, <1>3, <2>2 DEF IsSent
    <3> QED
      BY <1>1, <1>4, <2>2, <3>1 DEF StoredKept
  <2> QED
    BY <2>1, <2>2
<1>6. ASSUME NEW k, k = position + 1
      PROVE  IsStored(k)'
  BY <1>5, <1>6 DEF IsStored
<1> HIDE DEF message, id
<1>7. \A m \in Messages : stored'[m] # Nil =>
          /\ IsSent(stored'[m].message) /\ stored'[m].message.message_id = m
          /\ "" \notin {stored'[m].message.room_id, stored'[m].message.body}
  <2> SUFFICES ASSUME NEW m \in Messages, stored'[m] # Nil
               PROVE  /\ IsSent(stored'[m].message) /\ stored'[m].message.message_id = m
                      /\ "" \notin {stored'[m].message.room_id, stored'[m].message.body}
    OBVIOUS
  <2>1. CASE stored'[m] = stored[m]
    BY <1>3, <2>1
  <2>2. CASE m = id /\ stored'[m] = row
    BY <1>1, <1>2, <2>2 DEF id
  <2> QED
    BY <1>4, <2>1, <2>2
<1> QED
  BY <1>4, <1>6, <1>7

\* The writer has read no further than the topic goes.
LEMMA OffsetsInTopic ==
    ASSUME MessageInvariant
    PROVE  /\ position \in Nat /\ committed \in Nat /\ Len(topic) \in Nat
           /\ committed <= position /\ position <= Len(topic)
           /\ 1..position \subseteq 1..Len(topic)
<1>1. /\ position \in Nat /\ committed \in Nat /\ Len(topic) \in Nat
      /\ committed <= position /\ position <= Len(topic)
  BY DEF MessageInvariant, MessageTypes, ReadIsStored
<1> QED
  BY <1>1

\* The writer's own steps: the topic and the sockets stand still.
LEMMA WriterMoves ==
    ASSUME MessageInvariant, UNCHANGED <<socket, topic>>, MessageTypes', StoredKept,
           \A m \in Messages : stored'[m] # Nil =>
               /\ IsSent(stored'[m].message) /\ stored'[m].message.message_id = m
               /\ "" \notin {stored'[m].message.room_id, stored'[m].message.body},
           committed' <= position', position' <= Len(topic), discarded' \subseteq 1..position',
           \A k \in 1..position' : \/ k \in discarded' \/ IsStored(k)'
                                   \/ k \in (1..position) \ discarded,
           writer' = "commit" =>
               position' < Len(topic) /\ \A k : k = position' + 1 => IsStored(k)'
    PROVE  MessageInvariant'
<1>1. SentOnce'
  <2>1. ASSUME NEW m \in Messages, stored'[m] # Nil PROVE IsSent(stored[m].message)'
    BY <2>1 DEF IsSent
  <2>2. \A k \in DOMAIN topic : IsSent(topic[k].message)'
    BY DEF MessageInvariant, SentOnce, IsSent
  <2> QED
    BY <2>1, <2>2 DEF MessageInvariant, SentOnce
<1>2. \A k \in 1..position' : k \in discarded' \/ IsStored(k)'
  <2>1. 1..position \subseteq 1..Len(topic)
    BY OffsetsInTopic
  <2>2. \A k \in (1..position) \ discarded : IsStored(k) /\ topic'[k] = topic[k]
    BY DEF MessageInvariant, ReadIsStored
  <2> QED
    BY <2>1, <2>2, StoredStay DEF MessageInvariant
<1>3. ReadIsStored'
  BY <1>2 DEF ReadIsStored
<1> QED
  BY <1>1, <1>3 DEF MessageInvariant

\* A step that stores nothing.
LEMMA NothingStored ==
    ASSUME MessageInvariant, UNCHANGED stored
    PROVE  /\ stored' \in [Messages -> StoredRows \cup {Nil}] /\ StoredKept
           /\ \A m \in Messages : stored'[m] # Nil =>
                 /\ IsSent(stored'[m].message) /\ stored'[m].message.message_id = m
                 /\ "" \notin {stored'[m].message.room_id, stored'[m].message.body}
BY DEF MessageInvariant, MessageTypes, SentOnce, StoredKept

\* The writer stores the record it has read or goes down before its offset moves.
LEMMA HandleRecordStep ==
    ASSUME MessageInvariant, HandleRecord PROVE MessageInvariant'
<1>1. /\ UNCHANGED <<socket, topic, position, committed, discarded>>
      /\ position < Len(topic) /\ writer' \in {"down", "commit"}
      /\ clock' = clock \/ clock' = clock + 1
  BY DEF HandleRecord, Down, phoenixVars
<1>2. \/ UNCHANGED stored /\ writer' = "down"
      \/ /\ decodeMessage(topic[position + 1]) # Nil
         /\ insertRow(decodeMessage(topic[position + 1]))
  BY DEF HandleRecord, Down
<1>3. /\ stored' \in [Messages -> StoredRows \cup {Nil}] /\ StoredKept
      /\ \A m \in Messages : stored'[m] # Nil =>
            /\ IsSent(stored'[m].message) /\ stored'[m].message.message_id = m
            /\ "" \notin {stored'[m].message.room_id, stored'[m].message.body}
      /\ writer' = "commit" => \A k : k = position + 1 => IsStored(k)'
  BY <1>1, <1>2, NothingStored, InsertStores
<1>4. MessageTypes'
  <2>1. clock \in Nat /\ clock' \in Nat
    BY <1>1 DEF MessageInvariant, MessageTypes
  <2> QED
    BY <1>1, <1>3, <2>1 DEF MessageInvariant, MessageTypes
<1>5. /\ committed' <= position' /\ position' <= Len(topic) /\ discarded' \subseteq 1..position'
      /\ \A k \in 1..position' : k \in discarded' \/ k \in (1..position) \ discarded
  BY <1>1 DEF MessageInvariant, ReadIsStored
<1> QED
  BY <1>1, <1>3, <1>4, <1>5, WriterMoves

\* A poll that reports an error moves the position over the records it had.
LEMMA DiscardStep ==
    ASSUME MessageInvariant, DiscardFetches PROVE MessageInvariant'
<1>1. /\ UNCHANGED <<socket, topic, writer, committed, stored, clock>> /\ writer = "poll"
      /\ position' \in (position + 1)..Len(topic)
      /\ discarded' = discarded \cup ((position + 1)..position')
  BY DEF DiscardFetches, phoenixVars
<1>2. /\ position \in Nat /\ committed \in Nat /\ Len(topic) \in Nat
      /\ committed <= position /\ discarded \subseteq 1..position
  BY OffsetsInTopic DEF MessageInvariant, ReadIsStored
<1>3. MessageTypes'
  BY <1>1, <1>2 DEF MessageInvariant, MessageTypes
<1>4. /\ committed' <= position' /\ position' <= Len(topic) /\ discarded' \subseteq 1..position'
      /\ \A k \in 1..position' : k \in discarded' \/ k \in (1..position) \ discarded
  BY <1>1, <1>2
<1> QED
  BY <1>1, <1>3, <1>4, NothingStored, WriterMoves

\* The writer commits the offset of a record it has handled.
LEMMA CommitRecordStep ==
    ASSUME MessageInvariant, CommitRecord PROVE MessageInvariant'
<1>1. /\ UNCHANGED <<socket, topic, stored, clock, discarded>>
      /\ position' = position + 1 /\ writer = "commit" /\ writer' \in {"down", "poll"}
      /\ committed' \in {committed, position + 1}
  BY DEF CommitRecord, Down, phoenixVars
<1>2. /\ position \in Nat /\ committed \in Nat /\ Len(topic) \in Nat
      /\ committed <= position /\ position < Len(topic) /\ IsStored(position + 1)
      /\ discarded \subseteq 1..position
  BY <1>1 DEF MessageInvariant, MessageTypes, ReadIsStored
<1>3. MessageTypes'
  BY <1>1, <1>2 DEF MessageInvariant, MessageTypes
<1>4. \A k \in 1..position' : \/ k \in discarded' \/ IsStored(k)'
                              \/ k \in (1..position) \ discarded
  <2>1. ASSUME NEW k, k = position + 1 PROVE IsStored(k)'
    BY <1>1, <1>2, <2>1 DEF IsStored
  <2> QED
    BY <1>1, <1>2, <2>1
<1>5. committed' <= position' /\ position' <= Len(topic) /\ discarded' \subseteq 1..position'
  BY <1>1, <1>2
<1> QED
  BY <1>1, <1>3, <1>4, <1>5, NothingStored, WriterMoves

\* The process ends, or starts again at the committed offset.
LEMMA ProcessStep ==
    ASSUME MessageInvariant, Crash \/ Restart PROVE MessageInvariant'
<1>1. /\ UNCHANGED <<socket, topic, stored, clock, committed>>
      /\ \/ position' = position /\ discarded' = discarded
         \/ position' = committed /\ discarded' = discarded \cap (1..committed)
      /\ writer' \in {"down", "poll"}
  BY DEF Crash, Restart, Down, phoenixVars
<1>2. /\ position \in Nat /\ committed \in Nat /\ Len(topic) \in Nat
      /\ committed <= position /\ position <= Len(topic) /\ discarded \subseteq 1..position
  BY OffsetsInTopic DEF MessageInvariant, ReadIsStored
<1>3. MessageTypes'
  BY <1>1, <1>2 DEF MessageInvariant, MessageTypes
<1>4. /\ committed' <= position' /\ position' <= Len(topic) /\ discarded' \subseteq 1..position'
      /\ \A k \in 1..position' : k \in discarded' \/ k \in (1..position) \ discarded
  <2>1. CASE position' = position /\ discarded' = discarded
    BY <1>1, <1>2, <2>1
  <2>2. CASE position' = committed /\ discarded' = discarded \cap (1..committed)
    <3>1. 1..committed \subseteq 1..position
      BY <1>2
    <3> QED
      BY <1>1, <1>2, <2>2, <3>1
  <2> QED
    BY <1>1, <2>1, <2>2
<1> QED
  BY <1>1, <1>3, <1>4, NothingStored, WriterMoves

\* Steps that leave sockets, topic and writer as they are.
LEMMA MessagesStay ==
    ASSUME MessageInvariant, UNCHANGED <<phoenixVars, writerVars>> PROVE MessageInvariant'
BY DEF MessageInvariant, MessageTypes, SentOnce, ReadIsStored, IsSent, IsStored, phoenixVars,
       writerVars

\* Every step keeps what was read stored, and what was sent sent once.
LEMMA MessageInvariantNext == MessageInvariant /\ [Next]_vars => MessageInvariant'
<1> SUFFICES ASSUME MessageInvariant, [Next]_vars PROVE MessageInvariant'
  OBVIOUS
<1>1. ASSUME NEW m \in Messages, \/ \E r \in JoinRooms : Join(m, r)
                                 \/ \E p \in Payloads : SendMessage(m, p)
                                 \/ PublishMessage(m)
      PROVE  MessageInvariant'
  BY <1>1, JoinStep, SendStep, PublishStep
<1>2. CASE HandleRecord \/ DiscardFetches \/ CommitRecord \/ Crash \/ Restart
  BY <1>2, HandleRecordStep, DiscardStep, CommitRecordStep, ProcessStep
<1>3. CASE UNCHANGED <<phoenixVars, writerVars>>
  BY <1>3, MessagesStay
<1>4. ASSUME NEW c \in Calls, Resolve(c) PROVE UNCHANGED <<phoenixVars, writerVars>>
  BY <1>4 DEF Resolve, ResolveRoom, ResolveFails, FindRoom, InsertByPair, RereadRoom, EnsureRoomByID
<1> QED
  BY <1>1, <1>2, <1>3, <1>4 DEF Next, vars

----------------------------------------------------------------------------
\* Nothing has been sent, read or stored to begin with.
LEMMA ChatInvariantInit == Init => RoomInvariant /\ MessageInvariant
<1> SUFFICES ASSUME Init PROVE RoomInvariant /\ MessageInvariant
  OBVIOUS
<1>1. RoomTypes
  BY ChatAssumption DEF Init, RoomTypes, CallRecords, CallSteps
<1>2. RowsByPair /\ RowsByID
  BY DEF Init, RowsByPair, RowsByID
<1>3. CallsHold
  BY DEF Init, CallsHold, CallHolds
<1>4. MessageTypes
  BY DEF Init, MessageTypes, Sockets
<1>5. SentOnce
  BY ChatAssumption DEF Init, SentOnce, Replies
<1>6. ReadIsStored
  BY DEF Init, ReadIsStored
<1> QED
  BY <1>1, <1>2, <1>3, <1>4, <1>5, <1>6 DEF RoomInvariant, MessageInvariant

\* Both invariants hold in every reachable state.
LEMMA ChatInvariantHolds == ChatSpec => [](RoomInvariant /\ MessageInvariant)
<1>1. ChatSpec => Init /\ [][Next]_vars
  BY PTL DEF ChatSpec
<1> QED
  BY <1>1, ChatInvariantInit, RoomInvariantNext, MessageInvariantNext, PTL

\* The two room tables name the same rooms, stored messages are complete and
\* no offset is committed that was not read, however many calls, messages and
\* failures there are.
THEOREM ChatTypes == ChatSpec => []ChatTypeOK
<1>1. RoomInvariant /\ MessageInvariant => ChatTypeOK
  <2> SUFFICES ASSUME RoomInvariant, MessageInvariant PROVE ChatTypeOK
    OBVIOUS
  <2>1. \A id \in 1..MaxRooms : byID[id] # Nil => byPair[byID[id].key] = byID[id]
    BY DEF RoomInvariant, RowsByID
  <2>2. \A c \in Calls : call[c].pc \in CallSteps
    BY DEF RoomInvariant, RoomTypes, CallRecords
  <2>3. /\ committed <= position /\ position <= Len(topic) /\ discarded \subseteq 1..position
        /\ writer \in {"down", "poll", "commit"}
    BY DEF MessageInvariant, MessageTypes, ReadIsStored
  <2> QED
    BY <2>1, <2>2, <2>3 DEF ChatTypeOK, CallSteps, MessageInvariant, SentOnce
<1> QED
  BY <1>1, ChatInvariantHolds, PTL

\* Any number of concurrent calls, retried and failing anywhere, are answered
\* with the one room of their pair's key, the same in both tables.  Where no
\* other pair has that key the room validates for its two users, trimmed, and
\* for nobody else.
THEOREM CallsAgreeOnRooms == ChatSpec => []RoomsAgree
<1>1. RoomInvariant => RoomsAgree
  <2> SUFFICES ASSUME RoomInvariant, NEW c \in Calls, call[c].pc = "done"
               PROVE  /\ call[c].room = byPair[Key(c)] /\ call[c].room = byID[call[c].room.id]
                      /\ OwnKey(c) => \A u \in Users :
                            ValidateRoom(call[c].room.id, u)
                            <=> u \in {Trimmed[call[c].pair.user], Trimmed[call[c].pair.peer]}
    BY DEF RoomsAgree
  <2> DEFINE room == call[c].room
             users == Participants(call[c].pair)
  <2>1. /\ call[c].pair \in Requests /\ Key(c) \in PairKeys
        /\ byPair[Key(c)] # Nil /\ room = byPair[Key(c)] /\ room \in RoomRows
        /\ byID[room.id] = room
    BY HeldKey DEF RoomInvariant, CallsHold, CallHolds
  <2>2. Joined[room.users] = Key(c) /\ room.users \in Users \X Users
    BY <2>1 DEF RoomInvariant, RowsByPair, RoomRows
  <2>3. \A u : u \in {users[1], users[2]}
               <=> u \in {Trimmed[call[c].pair.user], Trimmed[call[c].pair.peer]}
    BY <2>1, KeyOfPair
  <2>4. OwnKey(c) => room.users = users
    BY <2>2 DEF OwnKey
  <2>5. byID[room.id] # Nil
    BY <2>1
  <2> QED
    BY <2>1, <2>3, <2>4, <2>5 DEF ValidateRoom
<1> QED
  BY <1>1, ChatInvariantHolds, PTL

\* Every record below the committed offset is stored as it was sent or was
\* thrown away with a poll that reported an error, although the insert, the
\* commit and the process itself may fail at any point and the producer may
\* write a record twice.
THEOREM NoMessageIsPassedOver == ChatSpec => []CommittedIsStored
<1>1. MessageInvariant => CommittedIsStored
  <2> SUFFICES ASSUME MessageInvariant, NEW k \in 1..committed
               PROVE  k \in discarded \/ IsStored(k)
    BY DEF CommittedIsStored
  <2>1. k \in 1..position
    BY DEF MessageInvariant, MessageTypes, ReadIsStored
  <2> QED
    BY <2>1 DEF MessageInvariant, ReadIsStored
<1> QED
  BY <1>1, ChatInvariantHolds, PTL

\* No step replaces a stored message: redelivered and repeated records meet
\* INSERT ... IF NOT EXISTS.
THEOREM MessagesAreStoredOnce == ChatSpec => StoredOnce
<1>1. MessageInvariant /\ [Next]_vars =>
          [\A m \in Messages : stored[m] # Nil => stored'[m] = stored[m]]_stored
  <2> SUFFICES ASSUME MessageInvariant, Next, stored' # stored PROVE StoredKept
    BY DEF StoredKept, vars, writerVars
  <2>1. HandleRecord
    BY DEF Next, Resolve, ResolveRoom, ResolveFails, FindRoom, InsertByPair, RereadRoom,
           EnsureRoomByID, Join, SendMessage, PublishMessage, DiscardFetches, CommitRecord, Crash,
           Restart, writerVars
  <2>2. /\ position < Len(topic) /\ decodeMessage(topic[position + 1]) # Nil
        /\ insertRow(decodeMessage(topic[position + 1])) /\ UNCHANGED <<socket, topic>>
    BY <2>1 DEF HandleRecord, phoenixVars
  <2> QED
    BY <2>2, InsertStores
<1>2. ChatSpec => [][Next]_vars
  BY PTL DEF ChatSpec
<1> QED
  BY <1>1, <1>2, ChatInvariantHolds, PTL DEF StoredOnce
=============================================================================
