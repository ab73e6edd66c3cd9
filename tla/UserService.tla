----------------------------- MODULE UserService -----------------------------
(***************************************************************************)
(* The C# user service's part in the saga: the consumer that charges a     *)
(* customer's wallet for stock.reduction.success, the outbox dispatcher    *)
(* that publishes the outcome, and the two gRPC calls that write users.    *)
(*                                                                         *)
(* The consumer is a singleton that resolves its handler from the root     *)
(* service provider, so all records are handled with one Entity Framework  *)
(* context that lives as long as the process.  Such a context returns the  *)
(* entity it already tracks instead of the row it reads, and keeps changes *)
(* that could not be saved until a later SaveChanges saves them.  The      *)
(* variables tracked, dirty and added are that context.  A gRPC call has a *)
(* context of its own.                                                     *)
(***************************************************************************)
EXTENDS Shop, Integers

CONSTANTS
    Registered,   \* users that exist at the start
    InitialWallet,\* InitialWallet[u]: their wallets, in tenths of a price unit
    NoRow,        \* no such user, or no entity tracked
    UserBatch,    \* OutboxOptions.BatchSize
    UserAttempts, \* OutboxOptions.MaxAttempts
    MaxPasswords, \* bound: password changes of one user
    MaxReserved   \* bound: records the environment may put on the topic

VARIABLES
    users,        \* the users table
    userOutbox,   \* outbox_messages, oldest row first
    tracked,      \* the consumer's context: the user entities it tracks
    dirty,        \*   ... which of them are modified and not saved
    added,        \*   ... the outbox rows added and not saved
    sending       \* the dispatcher's batch: rows to send, sent and failed

contextVars  == <<tracked, dirty, added>>
accountVars  == <<users, userOutbox>>
userVars     == <<accountVars, contextVars, sending>>

UserRows == [wallet : Nat, password : Nat]
PaymentTopics == {"payment.success", "payment.fail"}
PaymentRows == [order : Orders, topic : PaymentTopics,
                status : {"Pending", "Sent", "Failed"}, attempts : Nat]

ASSUME UserAssumption ==
    /\ Registered \subseteq Users
    /\ \A u \in Registered : InitialWallet[u] \in Nat
    /\ NoRow \notin UserRows
    /\ UserBatch \in Nat \ {0} /\ UserAttempts \in Nat \ {0}
    /\ MaxPasswords \in Nat /\ MaxReserved \in Nat

UserTypeOK ==
    /\ users \in [Users -> UserRows \cup {NoRow}]
    /\ userOutbox \in Seq(PaymentRows)
    /\ tracked \in [Users -> UserRows \cup {NoRow}]
    /\ dirty \subseteq {u \in Users : tracked[u] # NoRow}
    /\ added \in Seq(PaymentRows)
    /\ sending \in [todo : SUBSET DOMAIN userOutbox, sent : SUBSET DOMAIN userOutbox,
                    failed : SUBSET DOMAIN userOutbox]

NothingTracked == [u \in Users |-> NoRow]
NoBatch == [todo |-> {}, sent |-> {}, failed |-> {}]

UserInit ==
    /\ users = [u \in Users |-> IF u \in Registered
                                THEN [wallet |-> InitialWallet[u], password |-> 0] ELSE NoRow]
    /\ userOutbox = <<>>
    /\ tracked = NothingTracked
    /\ dirty = {}
    /\ added = <<>>
    /\ sending = NoBatch

----------------------------------------------------------------------------
(***************************************************************************)
(* gRPC calls.  ChangePassword writes every column of an entity built from *)
(* the columns it read, and the wallet is not one of those.                *)
(***************************************************************************)
CreateUser(u) ==
    /\ users[u] = NoRow
    /\ users' = [users EXCEPT ![u] = [wallet |-> 0, password |-> 0]]
    /\ UNCHANGED <<userOutbox, contextVars, sending, kafkaVars>>

UpdatedUser(u) == [wallet |-> 0, password |-> users[u].password + 1]

ChangePassword(u) ==
    /\ users[u] # NoRow
    /\ users[u].password < MaxPasswords
    /\ users' = [users EXCEPT ![u] = UpdatedUser(u)]
    /\ UNCHANGED <<userOutbox, contextVars, sending, kafkaVars>>

----------------------------------------------------------------------------
(***************************************************************************)
(* The consumer's context.  SaveChanges writes the modified users and the  *)
(* added rows in one go, those left over from an earlier failure included, *)
(* and fails as a whole when a row would break the unique index on         *)
(* (aggregateId, topic).                                                   *)
(***************************************************************************)
UserSubscription == <<"asp-user-group", "stock.reduction.success">>

SameKey(r, q) == r.order = q.order /\ r.topic = q.topic

BreaksUniqueIndex(rows) ==
    \/ \E i, j \in DOMAIN rows : i # j /\ SameKey(rows[i], rows[j])
    \/ \E i \in DOMAIN rows, j \in DOMAIN userOutbox : SameKey(rows[i], userOutbox[j])

\* SaveChanges of the context <<entities, modified, rows>>, then the commit
\* of the transaction around it and of the record's offset.
SaveAndCommit(entities, modified, rows) ==
    /\ tracked' = entities
    /\ \/ /\ ~BreaksUniqueIndex(rows)
          /\ users' = [u \in Users |-> IF u \in modified THEN entities[u] ELSE users[u]]
          /\ userOutbox' = userOutbox \o rows
          /\ dirty' = {} /\ added' = <<>>
          /\ Done(UserSubscription)
       \/ /\ IF BreaksUniqueIndex(rows) THEN NoFault ELSE Fault("save_error")
          /\ dirty' = modified /\ added' = rows
          /\ Skip(UserSubscription)
          /\ UNCHANGED accountVars
       \/ /\ ~BreaksUniqueIndex(rows)
          /\ Fault("tx_commit_error")
          /\ dirty' = {} /\ added' = <<>>
          /\ Skip(UserSubscription)
          /\ UNCHANGED accountVars

NewMessage(topic, o) == [order |-> o, topic |-> topic, status |-> "Pending", attempts |-> 0]

\* Mutant: no check for an earlier delivery.
PaymentNeverHandled(o) == FALSE

PaymentAlreadyHandled(o) == \E i \in DOMAIN userOutbox : userOutbox[i].order = o

\* The entity a query for user u returns: the tracked one if there is one.
Entity(u) == IF tracked[u] = NoRow THEN users[u] ELSE tracked[u]

\* Mutant: a payment that fails is only logged.
EnqueuePaymentFailedSilently(o, entities) ==
    tracked' = entities /\ Done(UserSubscription) /\ UNCHANGED <<accountVars, dirty, added>>

EnqueuePaymentFailed(o, entities) ==
    IF PaymentAlreadyHandled(o)
    THEN tracked' = entities /\ Done(UserSubscription) /\ UNCHANGED <<accountVars, dirty, added>>
    ELSE SaveAndCommit(entities, dirty, Append(added, NewMessage("payment.fail", o)))

\* Mutant: the wallet is not compared with the amount.
DecreaseWalletUnchecked(o, u, loaded) ==
    IF PaymentAlreadyHandled(o)
    THEN tracked' = loaded /\ Done(UserSubscription) /\ UNCHANGED <<accountVars, dirty, added>>
    ELSE SaveAndCommit([loaded EXCEPT ![u].wallet = @ - Total(o)], dirty \cup {u},
                       Append(added, NewMessage("payment.success", o)))

\* Mutant: the wallet is charged without an outbox row.
DecreaseWalletUnannounced(o, u, loaded) ==
    IF PaymentAlreadyHandled(o)
    THEN tracked' = loaded /\ Done(UserSubscription) /\ UNCHANGED <<accountVars, dirty, added>>
    ELSE IF loaded[u].wallet < Total(o)
    THEN EnqueuePaymentFailed(o, loaded)
    ELSE SaveAndCommit([loaded EXCEPT ![u].wallet = @ - Total(o)], dirty \cup {u}, added)

\* DecreaseWalletAndEnqueuePaymentSuccess once the user's row is locked; u
\* is the customer and loaded the context with that user in it.
DecreaseWallet(o, u, loaded) ==
    IF PaymentAlreadyHandled(o)
    THEN tracked' = loaded /\ Done(UserSubscription) /\ UNCHANGED <<accountVars, dirty, added>>
    ELSE IF loaded[u].wallet < Total(o)
    THEN EnqueuePaymentFailed(o, loaded)
    ELSE SaveAndCommit([loaded EXCEPT ![u].wallet = @ - Total(o)], dirty \cup {u},
                       Append(added, NewMessage("payment.success", o)))

OnStockReduceSuccess ==
    LET o == Record(UserSubscription)
        u == Customer[o]
    IN  /\ HasRecord(UserSubscription)
        /\ \/ IF Total(o) <= 0 \/ users[u] = NoRow
              THEN EnqueuePaymentFailed(o, tracked)
              ELSE DecreaseWallet(o, u, [tracked EXCEPT ![u] = Entity(u)])
           \/ /\ Fault("handler_error") /\ Skip(UserSubscription)
              /\ UNCHANGED <<accountVars, contextVars>>
        /\ UNCHANGED <<log, sending>>

----------------------------------------------------------------------------
(***************************************************************************)
(* The outbox dispatcher, with a context of its own for every batch: the   *)
(* outcome of every send is saved once, after the last one.  When that     *)
(* fails the host stops, which is a restart.                               *)
(***************************************************************************)
DispatchBegin ==
    LET due == {i \in DOMAIN userOutbox : userOutbox[i].status = "Pending"}
        retryable == {i \in DOMAIN userOutbox : /\ userOutbox[i].status = "Failed"
                                                /\ userOutbox[i].attempts < UserAttempts}
    IN  /\ sending = NoBatch
        /\ \E cooled \in SUBSET retryable :      \* past the retry backoff
            /\ due \cup cooled # {}
            /\ sending' = [NoBatch EXCEPT !.todo = OldestRows(due \cup cooled, UserBatch)]
        /\ UNCHANGED <<accountVars, contextVars, kafkaVars>>

DispatchRow ==
    LET i == Oldest(sending.todo)
        produce == Publish(userOutbox[i].topic, userOutbox[i].order)
        Outcome(field) == sending' = [sending EXCEPT !.todo = @ \ {i}, ![field] = @ \cup {i}]
    IN  /\ sending.todo # {}
        /\ \/ NoFault /\ produce /\ Outcome("sent")
           \/ Fault("ack_lost") /\ produce /\ Outcome("failed")
           \/ Fault("publish_error") /\ UNCHANGED log /\ Outcome("failed")
        /\ UNCHANGED <<accountVars, contextVars, position, committed>>

\* Mutant: every row of the batch counts as sent.
DispatchSaveAllSent ==
    /\ sending # NoBatch
    /\ sending.todo = {}
    /\ userOutbox' = [i \in DOMAIN userOutbox |->
          IF i \in sending.sent \cup sending.failed
          THEN [userOutbox[i] EXCEPT !.attempts = @ + 1, !.status = "Sent"]
          ELSE userOutbox[i]]
    /\ sending' = NoBatch
    /\ UNCHANGED <<users, contextVars, kafkaVars>>

DispatchSave ==
    /\ sending # NoBatch
    /\ sending.todo = {}
    /\ userOutbox' = [i \in DOMAIN userOutbox |->
          IF i \in sending.sent \cup sending.failed
          THEN [userOutbox[i] EXCEPT !.attempts = @ + 1,
                                     !.status = IF i \in sending.sent THEN "Sent" ELSE "Failed"]
          ELSE userOutbox[i]]
    /\ sending' = NoBatch
    /\ UNCHANGED <<users, contextVars, kafkaVars>>

UserRestart ==
    /\ Restart("asp-user-group")
    /\ tracked' = NothingTracked
    /\ dirty' = {}
    /\ added' = <<>>
    /\ sending' = NoBatch
    /\ UNCHANGED accountVars

UserStep ==
    \/ \E u \in Users : CreateUser(u) \/ ChangePassword(u)
    \/ OnStockReduceSuccess
    \/ DispatchBegin
    \/ DispatchRow
    \/ DispatchSave
    \/ UserRestart

----------------------------------------------------------------------------
\* The service on its own: any order may be announced, and more than once.
UserEnvironment ==
    /\ Len(log["stock.reduction.success"]) < MaxReserved
    /\ \E o \in Orders : Publish("stock.reduction.success", o)
    /\ UNCHANGED <<position, committed, faults, userVars>>

UserServiceInit == KafkaInit /\ UserInit
UserServiceNext == UserStep \/ UserEnvironment
userServiceVars == <<kafkaVars, userVars>>

UserServiceSpec ==
    /\ UserServiceInit
    /\ [][UserServiceNext]_userServiceVars
    /\ WF_userServiceVars(OnStockReduceSuccess)
    /\ WF_userServiceVars(DispatchBegin)
    /\ WF_userServiceVars(DispatchRow)
    /\ WF_userServiceVars(DispatchSave)

----------------------------------------------------------------------------
\* The type invariant.  Wallets, in the table and in the consumer's context,
\* stay at or above 0, by whatever stale entity a charge was computed.
UserServiceTypeOK == KafkaTypeOK /\ UserTypeOK

Outcomes(o, topic) ==
    {i \in DOMAIN userOutbox : userOutbox[i].order = o /\ userOutbox[i].topic = topic}

Paid     == {o \in Orders : Outcomes(o, "payment.success") # {}}
Declined == {o \in Orders : Outcomes(o, "payment.fail") # {}}

\* What user u has been charged, coin by coin.
ChargedCoins(u) == UNION {{o} \X (1..Total(o)) : o \in {p \in Paid : Customer[p] = u}}

\* A wallet and the payments recorded against it add up: a redelivered
\* reservation is not charged again.  Holds while passwords stay as they are
\* and the database's commits succeed.
WalletConserved ==
    \A u \in Registered :
        users[u].wallet + Cardinality(ChargedCoins(u)) = InitialWallet[u]

\* An order is paid or declined, never both.  Holds while SaveChanges
\* succeeds.
OnePaymentOutcome ==
    /\ Paid \cap Declined = {}
    /\ \A i, j \in DOMAIN userOutbox : SameKey(userOutbox[i], userOutbox[j]) => i = j

\* A reservation below the committed offset has its payment outcome.  Holds
\* while no handler fails and the group, before its first commit, starts at
\* the beginning of the topic (appsettings.json; appsettings.Docker.json says
\* Latest).
CommittedReservationsDecided ==
    \A i \in 1..committed[UserSubscription] :
        log["stock.reduction.success"][i] \in Paid \cup Declined

\* A row is Sent only if its event is on its topic.
SentWasPublished ==
    \A i \in DOMAIN userOutbox :
        userOutbox[i].status = "Sent" => userOutbox[i].order \in Published(userOutbox[i].topic)

\* Every payment outcome reaches its topic.  Holds while a row fails less
\* than UserAttempts times.
EveryOutcomePublished ==
    \A o \in Orders :
        /\ o \in Paid ~> o \in Published("payment.success")
        /\ o \in Declined ~> o \in Published("payment.fail")
=============================================================================
