-------------------------------- MODULE Chat --------------------------------
(***************************************************************************)
(* The chat: the Phoenix channel that delivers a message and queues it for *)
(* persistence, and the message writer, one process that runs a Kafka      *)
(* consumer, which stores the messages in Cassandra, and the HTTP API that *)
(* resolves the room of two users.  A record the consumer cannot decode,   *)
(* store or commit ends the process (log.Fatalf), and the API's calls with *)
(* it; it goes on from the committed offset when somebody starts it again. *)
(* A poll that reports an error does not end it: the error is logged and   *)
(* the records that came with it are thrown away.                          *)
(*                                                                         *)
(* Nothing in the repository fills the membership and block caches, so the *)
(* channel's check_not_blocked always passes and nobody is notified.       *)
(***************************************************************************)
EXTENDS Integers, Sequences, FiniteSets

CONSTANTS
    Nil,
    Users,       \* identifiers as clients write them, ordered as numbers; 0 is the empty one
    Trimmed,     \* Trimmed[u]: u without the white space around it
    Joined,      \* Joined[<<a, b>>]: a, a colon and b; a colon may also be part of a or b
    Calls,       \* calls of the API
    Pairs,       \* Pairs[c]: the users and peers the call may name
    Messages,    \* messages sent, each from a socket of its own
    Payloads,    \* what a client may send: a room (Nil: not named) and content
    Formats,     \* the Avro formats the producer's library may write
    JoinRooms,   \* the rooms a socket may join
    MaxRooms,    \* bound: room identifiers, which TimeUUID draws in order
    MaxFaults    \* bound: failed statements and polls, lost answers and crashes

VARIABLES
    byPair, byID,   \* chat_rooms_by_pair and chat_rooms_by_id
    fresh,          \* room identifiers drawn so far
    call,           \* call[c]: progress of ResolveRoom
    socket,         \* socket[m]: the room joined and the reply to message:send
    topic,          \* chat.messages.v1, one partition
    writer,         \* "down", "poll", "commit"
    position, committed,
    discarded,      \* history: records thrown away with their poll and not read again
    stored,         \* chat_messages
    clock,          \* time.Now of the writer
    faults

PairKeys == {Joined[users] : users \in Users \X Users}

RoomRows == [id : 1..MaxRooms, key : PairKeys, users : Users \X Users]

ChatMessages == [message_id : Messages,
                 room_id : JoinRooms \cup {p.room : p \in Payloads},
                 body : {p.content : p \in Payloads}]

Replies == {"room_not_joined", "invalid_payload", "delivered", "queued", "error"}

StoredRows == [message : ChatMessages, persisted_at : Nat]

\* Identifiers can be compared, and Nil is no row, message or reply.  Nothing
\* is said of Joined: two pairs may well have one key.
ASSUME ChatAssumption ==
    /\ Users \subseteq Nat
    /\ Trimmed \in [Users -> Users]
    /\ \A c \in Calls : Pairs[c] \subseteq [user : Users, peer : Users]
    /\ MaxRooms \in Nat /\ MaxFaults \in Nat
    /\ Nil \notin RoomRows \cup ChatMessages \cup StoredRows \cup Replies

roomVars   == <<byPair, byID, fresh, call>>
phoenixVars == <<socket, topic>>
writerVars == <<writer, position, committed, discarded, stored, clock>>
vars == <<roomVars, phoenixVars, writerVars, faults>>

Fault   == faults < MaxFaults /\ faults' = faults + 1
NoFault == UNCHANGED faults

----------------------------------------------------------------------------
(***************************************************************************)
(* Rooms.  A lightweight transaction that reports an error may still have  *)
(* been applied.                                                           *)
(***************************************************************************)
\* The two users a pair is about, in order: normalizeRoomParticipants.
Participants(p) ==
    LET user == Trimmed[p.user]
        peer == Trimmed[p.peer]
    IN  IF user > peer THEN <<peer, user>> ELSE <<user, peer>>

ValidParticipants(p) == 0 \notin {Trimmed[p.user], Trimmed[p.peer]} /\ Trimmed[p.user] # Trimmed[p.peer]

\* The key is the same whoever asks.
PairKey(p) == Joined[Participants(p)]

InsertIfNotExists(table, key, row) == IF table[key] = Nil THEN [table EXCEPT ![key] = row] ELSE table

Key(c) == PairKey(call[c].pair)

Goto(c, pc) == call' = [call EXCEPT ![c].pc = pc]

Holding(c, pc, room, created) ==
    call' = [call EXCEPT ![c].pc = pc, ![c].room = room, ![c].created = created]

\* resolveHandler's request reaches the process; a client may ask again.
ResolveRoom(c) ==
    /\ writer # "down"
    /\ call[c].pc \in {"new", "failed"}
    /\ \E p \in Pairs[c] :
          call' = [call EXCEPT ![c].pc = IF ValidParticipants(p) THEN "find" ELSE "refused",
                               ![c].pair = p]
    /\ UNCHANGED <<byPair, byID, fresh, phoenixVars, writerVars, faults>>

\* A statement fails before it does anything.
ResolveFails(c) ==
    /\ call[c].pc \in {"find", "insert", "reread", "ensure"}
    /\ Fault
    /\ Goto(c, "failed")
    /\ UNCHANGED <<byPair, byID, fresh, phoenixVars, writerVars>>

FindRoom(c) ==
    /\ call[c].pc = "find"
    /\ Holding(c, IF byPair[Key(c)] = Nil THEN "insert" ELSE "ensure", byPair[Key(c)], FALSE)
    /\ UNCHANGED <<byPair, byID, fresh, phoenixVars, writerVars, faults>>

\* INSERT INTO chat_rooms_by_pair IF NOT EXISTS: the call learns only whether
\* the statement was executed, not whether its row is the one in the table.
InsertByPair(c) ==
    /\ call[c].pc = "insert"
    /\ fresh < MaxRooms
    /\ fresh' = fresh + 1
    /\ byPair' = InsertIfNotExists(byPair, Key(c),
                                   [id |-> fresh + 1, key |-> Key(c), users |-> Participants(call[c].pair)])
    /\ \/ NoFault /\ Goto(c, "reread")
       \/ Fault /\ Goto(c, "failed")
    /\ UNCHANGED <<byID, phoenixVars, writerVars>>

\* Mutant: the room found by pair is returned as it is.
RereadRoomAnswers(c) ==
    /\ call[c].pc = "reread"
    /\ Holding(c, "done", byPair[Key(c)], TRUE)
    /\ UNCHANGED <<byPair, byID, fresh, phoenixVars, writerVars, faults>>

\* Mutant: the call goes on with the identifier drawn, not the one stored.
RereadRoomDrawn(c) ==
    /\ call[c].pc = "reread"
    /\ Holding(c, "ensure", [byPair[Key(c)] EXCEPT !.id = fresh], TRUE)
    /\ UNCHANGED <<byPair, byID, fresh, phoenixVars, writerVars, faults>>

RereadRoom(c) ==
    /\ call[c].pc = "reread"
    /\ Holding(c, "ensure", byPair[Key(c)], TRUE)
    /\ UNCHANGED <<byPair, byID, fresh, phoenixVars, writerVars, faults>>

\* ensureRoomByID, whether the room was found or made.
EnsureRoomByID(c) ==
    /\ call[c].pc = "ensure"
    /\ byID' = InsertIfNotExists(byID, call[c].room.id, call[c].room)
    /\ \/ NoFault /\ Goto(c, "done")
       \/ Fault /\ Goto(c, "failed")
    /\ UNCHANGED <<byPair, fresh, phoenixVars, writerVars>>

\* validateHandler's answer; it changes nothing, and compares the identifier
\* as the client wrote it.
ValidateRoom(id, user) == byID[id] # Nil /\ user \in {byID[id].users[1], byID[id].users[2]}

----------------------------------------------------------------------------
(***************************************************************************)
(* The Phoenix channel.                                                    *)
(***************************************************************************)
\* Any room may be joined: the membership check is commented out.
Join(m, room) ==
    /\ socket[m].room = Nil
    /\ socket' = [socket EXCEPT ![m].room = room]
    /\ UNCHANGED <<roomVars, topic, writerVars, faults>>

\* Message.build: a room, taken from the socket if the client named none,
\* and content, neither of them empty.
build(m, payload) ==
    LET room == IF payload.room = Nil THEN socket[m].room ELSE payload.room
    IN  IF room = "" \/ payload.content = "" THEN Nil
        ELSE [message_id |-> m, room_id |-> room, body |-> payload.content]

\* message:send up to the broadcast, which comes before the encoding.
SendMessage(m, payload) ==
    /\ socket[m].reply = Nil
    /\ LET message == build(m, payload)
       IN  socket' = CASE socket[m].room = Nil -> [socket EXCEPT ![m].reply = "room_not_joined"]
                       [] socket[m].room # Nil /\ message = Nil ->
                              [socket EXCEPT ![m].reply = "invalid_payload"]
                       [] OTHER -> [socket EXCEPT ![m].reply = "delivered", ![m].message = message]
    /\ UNCHANGED <<roomVars, topic, writerVars, faults>>

Reply(m, reply) == socket' = [socket EXCEPT ![m].reply = reply]

\* encode and publish_message.  The client's own retry may write the record
\* twice; a failure, or no answer within five seconds, does not say that the
\* record is not on the topic.
PublishMessage(m) ==
    /\ socket[m].reply = "delivered"
    /\ \E f \in Formats :
          LET record == [format |-> f, message |-> socket[m].message]
          IN  \/ NoFault /\ topic' = Append(topic, record) /\ Reply(m, "queued")
              \/ Fault /\ topic' = topic \o <<record, record>> /\ Reply(m, "queued")
              \/ Fault /\ topic' \in {topic, Append(topic, record)} /\ Reply(m, "error")
    /\ UNCHANGED <<roomVars, writerVars>>

----------------------------------------------------------------------------
(***************************************************************************)
(* The writer's consumer.                                                  *)
(***************************************************************************)
\* Nil when the bytes are no record of the schema or a field is empty.
decodeMessage(record) ==
    IF record.format # "plain" \/ "" \in {record.message.room_id, record.message.body} THEN Nil
    ELSE record.message

\* The process ends, and the calls it was serving with it.
Down ==
    /\ writer' = "down"
    /\ call' = [c \in Calls |-> IF call[c].pc \in {"new", "refused", "done", "failed"} THEN call[c]
                                ELSE [call[c] EXCEPT !.pc = "failed"]]

\* Mutant: the row is written whether or not there is one.
insertRowAlways(message) ==
    stored' = [stored EXCEPT ![message.message_id] = [message |-> message, persisted_at |-> clock]]

insertRow(message) ==
    stored' = InsertIfNotExists(stored, message.message_id, [message |-> message, persisted_at |-> clock])

\* Mutant: a record that cannot be decoded is passed over.
HandleRecordSkips ==
    /\ writer = "poll" /\ position < Len(topic)
    /\ LET message == decodeMessage(topic[position + 1])
       IN  IF message = Nil
           THEN position' = position + 1 /\ UNCHANGED <<writer, call, stored, clock, faults>>
           ELSE /\ NoFault /\ insertRow(message) /\ writer' = "commit" /\ clock' = clock + 1
                /\ UNCHANGED <<call, position>>
    /\ UNCHANGED <<byPair, byID, fresh, phoenixVars, committed, discarded>>

\* handleFetches takes a record: decode it and insert the message.
HandleRecord ==
    /\ writer = "poll" /\ position < Len(topic)
    /\ LET message == decodeMessage(topic[position + 1])
       IN  \/ message = Nil /\ NoFault /\ Down /\ UNCHANGED <<stored, clock>>
           \/ message # Nil /\ NoFault /\ insertRow(message) /\ writer' = "commit"
              /\ clock' = clock + 1 /\ UNCHANGED call
           \/ message # Nil /\ Fault /\ Down /\ clock' = clock + 1
              /\ (insertRow(message) \/ UNCHANGED stored)
    /\ UNCHANGED <<byPair, byID, fresh, phoenixVars, position, committed, discarded>>

\* PollFetches returns the next records and an error.  Run logs the error and
\* polls on: the client has moved past the records, and the next commit
\* covers them.
DiscardFetches ==
    /\ writer = "poll" /\ position < Len(topic)
    /\ Fault
    /\ position' \in (position + 1)..Len(topic)
    /\ discarded' = discarded \cup ((position + 1)..position')
    /\ UNCHANGED <<roomVars, phoenixVars, writer, committed, stored, clock>>

\* CommitRecords, after which the next record is taken.
CommitRecord ==
    /\ writer = "commit"
    /\ \/ NoFault /\ committed' = position + 1 /\ writer' = "poll" /\ UNCHANGED call
       \/ Fault /\ committed' \in {committed, position + 1} /\ Down
    /\ position' = position + 1
    /\ UNCHANGED <<byPair, byID, fresh, phoenixVars, discarded, stored, clock>>

Crash ==
    /\ writer # "down"
    /\ Fault
    /\ Down
    /\ UNCHANGED <<byPair, byID, fresh, phoenixVars, position, committed, discarded, stored, clock>>

\* Mutant: a writer starts at the end of the topic.
RestartAtEnd ==
    /\ writer = "down"
    /\ writer' = "poll" /\ position' = Len(topic)
    /\ discarded' = discarded \cap (1..committed)
    /\ UNCHANGED <<roomVars, phoenixVars, committed, stored, clock, faults>>

Restart ==
    /\ writer = "down"
    /\ writer' = "poll" /\ position' = committed
    /\ discarded' = discarded \cap (1..committed)
    /\ UNCHANGED <<roomVars, phoenixVars, committed, stored, clock, faults>>

----------------------------------------------------------------------------
Init ==
    /\ byPair = [k \in PairKeys |-> Nil] /\ byID = [k \in 1..MaxRooms |-> Nil]
    /\ fresh = 0
    /\ call = [c \in Calls |-> [pc |-> "new", pair |-> Nil, room |-> Nil, created |-> FALSE]]
    /\ socket = [m \in Messages |-> [room |-> Nil, reply |-> Nil, message |-> Nil]]
    /\ topic = <<>> /\ writer = "down" /\ position = 0 /\ committed = 0 /\ discarded = {}
    /\ stored = [m \in Messages |-> Nil]
    /\ clock = 0 /\ faults = 0

Resolve(c) == \/ ResolveRoom(c) \/ ResolveFails(c) \/ FindRoom(c) \/ InsertByPair(c)
              \/ RereadRoom(c) \/ EnsureRoomByID(c)

Next ==
    \/ \E c \in Calls : Resolve(c)
    \/ \E m \in Messages : \/ \E r \in JoinRooms : Join(m, r)
                           \/ \E p \in Payloads : SendMessage(m, p)
                           \/ PublishMessage(m)
    \/ HandleRecord \/ DiscardFetches \/ CommitRecord \/ Crash \/ Restart

\* The consumer goes on while the process runs; nothing in the repository
\* starts it again, so Restart is not fair.
ChatSpec == Init /\ [][Next]_vars /\ WF_vars(HandleRecord) /\ WF_vars(CommitRecord)

----------------------------------------------------------------------------
\* Rooms are named by both tables alike, stored messages are complete, and no
\* offset is committed that was not read.
ChatTypeOK ==
    /\ \A id \in 1..MaxRooms : byID[id] # Nil => byPair[byID[id].key] = byID[id]
    /\ \A c \in Calls : call[c].pc \in {"new", "find", "insert", "reread", "ensure",
                                        "done", "failed", "refused"}
    /\ \A m \in Messages : stored[m] # Nil => "" \notin {stored[m].message.room_id, stored[m].message.body}
    /\ committed <= position /\ position <= Len(topic) /\ discarded \subseteq 1..position
    /\ writer \in {"down", "poll", "commit"}

\* No other two identifiers have the key of the call's pair.
OwnKey(c) ==
    \A users \in Users \X Users : Joined[users] = Key(c) => users = Participants(call[c].pair)

\* Whoever asks, however many ask at once and wherever an earlier attempt
\* stopped, an answered call names the one room of its key, found by both
\* tables.  If no other pair has that key, the room validates for the two
\* users, written without white space around them, and for nobody else.
\* message-writer/README.md, "finds an existing room for the two users, or
\* creates one if it does not exist".
RoomsAgree ==
    \A c \in Calls : call[c].pc = "done" =>
        /\ call[c].room = byPair[Key(c)] /\ call[c].room = byID[call[c].room.id]
        /\ OwnKey(c) => \A u \in Users :
              ValidateRoom(call[c].room.id, u) <=> u \in {Trimmed[call[c].pair.user], Trimmed[call[c].pair.peer]}

IsStored(k) ==
    LET message == topic[k].message
    IN  stored[message.message_id] # Nil /\ stored[message.message_id].message = message

\* Every record below the committed offset is stored, as it was sent, or was
\* thrown away with its poll: neither an undecodable record nor a failed
\* insert is ever passed over, and what was thrown away is passed over only
\* if the process does not start again before the next commit.
CommittedIsStored == \A k \in 1..committed : k \in discarded \/ IsStored(k)

\* A stored message is never written again, though records are repeated by
\* the producer and read again after a failed commit.  chat/README.md, "Uses
\* idempotent writes so retries do not create duplicates".
StoredOnce == [][\A m \in Messages : stored[m] # Nil => stored'[m] = stored[m]]_stored

\* The records up to the first of m's can all be decoded.
Clean(m) == \E k \in DOMAIN topic :
    topic[k].message.message_id = m /\ \A j \in 1..k : decodeMessage(topic[j]) # Nil

\* A record of m was thrown away with its poll.
Discarded(m) == \E k \in discarded : topic[k].message.message_id = m

\* If the writer is started again whenever it has stopped, a message whose
\* sender was told "queued" is stored in the end, unless a record that cannot
\* be decoded comes first or one of its own is thrown away with its poll.
QueuedIsStored ==
    []<>(writer # "down") =>
        \A m \in Messages :
            (socket[m].reply = "queued" /\ Clean(m)) ~> (stored[m] # Nil \/ Discarded(m))
=============================================================================
