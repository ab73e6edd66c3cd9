# Verification of the e-commerce microservices

This directory holds TLA+ models of the services in this repository, the TLC
configurations that check them on small instances, and TLAPS proofs of the
properties that matter most. `PROJECT.json` maps every definition to the lines it
models and lists the runs, the mutants that show each property can fail, the
hazards, the findings and the theorems.

Run TLC with `tlc -workers 2 -config <run>.cfg <MC module>` and the proofs with
`tlapm <module>.tla`.

## 1. Inventory

### The order saga

| Part | State it keeps | Operations |
| --- | --- | --- |
| Order service (Go), `golang-order-kratos` | `orders`, `order_items`, `outbox_events` | `CreateOrder`; the dispatcher's `flush`; the consumer's `handleMessage` |
| Product service (Kotlin), `spring-boot-product` | `variants.stock`, `stock_reversals`, `stock_reversal_items`, `kafka_outbox` | `onOrderCreated`, `onStockReductionRollback`; the scheduled `publishPendingMessages` |
| User service (C#), `asp-user` | `users.wallet`, `outbox_messages`, the consumer's Entity Framework context | `OnStockReduceSuccess`; `DispatchBatchAsync`; gRPC `CreateUser`, `ChangePassword` |
| Broker (external) | one log per topic, offsets per group | publish, poll, commit |

```
CreateOrder -> order.created -> reserveStock -+-> stock.reduction.success -> charge -+-> payment.success
                                              |                                      +-> payment.fail -> releaseStock
                                              +-> stock.reduction.fail
```

The order service consumes all four answers and shows the outcome as the order's
status. The services share nothing but the broker and one gRPC call: the user
service asks the order service for an order's customer and total, which never
change. Every service writes its change and its event in one transaction and
publishes the event later.

What is hard: every event may come twice (an event published but not marked, a
commit lost, a restart), events of different topics overtake each other, a handler
that fails is skipped and buried by the next commit, a publisher may die or be slow
with rows in its hands, and the user service's consumer keeps one database context
for the life of the process.

What makes the saga right: stock and wallets are conserved; an order is reserved,
announced, charged or declined, and released at most once each; customers are
charged only for what is reserved; goods given back are not paid for; the status
shown is what happened; every order is concluded.

### The order service from the inside

The order service reaches its database only through a client generated by Ent
(`gen/ent`), one set of builders per table, and its topics through a codec generated
by gogen-avro (`gen/avro`).

| Part | State it keeps | Operations |
| --- | --- | --- |
| Mutation (`mutation.go`) | columns set, added to and cleared, edges, the old row | `Set`, `Add`, `Clear`, `Reset`, the same by column name, `Old...` |
| Builders (`*_create.go`, `*_update.go`, `*_delete.go`) | a mutation | setters, `Save`/`Exec`: defaults, validators, SQL |
| Queries (`*_query.go`, `where.go`) | conditions, limit, offset, order, eager edges | `All`, `First`, `Only`, `IDs`, `Exist`, `Count`, `Clone` |
| Transaction (`client.go`, `tx.go`) | PostgreSQL's transaction | `Tx`, `Commit`, `Rollback` |
| Codec (`gen/avro`) | none | write and read a record, field by field |
| Repository and use cases (`internal/data`, `internal/biz`) | none of their own | `CreateOrder`, `GetOrder`, `ListOrders`, `UpdateStatus` |

What is hard: builders are mutable and their methods may be called in any order and
after an execution; a repository call is several statements, and other calls commit
between them; a statement may fail after others took effect; an encoding without
names depends on the order of fields on both sides.

### Chat

| Part | State | Operations |
| --- | --- | --- |
| Channel (Elixir), `chat/phoenix-chat` | the room of a socket | `join`, `message:send`: build, broadcast, encode, publish, reply |
| Message writer (Go), `chat/message-writer` | Cassandra: `chat_rooms_by_pair`, `chat_rooms_by_id`, `chat_messages` | HTTP resolve and validate; the consumer of `chat.messages.v1` |

What is hard: a room is two rows in two tables without a transaction; two users may
ask for their room at once; a message is shown before it is queued; records come
twice; one process runs the consumer and the API, and a record that cannot be decoded,
stored or committed ends both, while a poll that reports an error is logged and its
records are thrown away; the key of a pair is text put together from two identifiers,
which are trimmed when a room is resolved and not when it is validated.

### Gateway sessions

| Part | State | Operations |
| --- | --- | --- |
| Authentication (TypeScript), `nest-api-gateway-auth/src/auth` | the session cache, a tier in the process and a tier in Redis; a Redis set `user:sessions:<id>` per user | `login`, `canActivate` (the guard), `logout`, `changePassword` |

What is hard: each operation is several awaits, and requests of one or several
gateways interleave at each; the session, its token and the set expire separately; a
failure between two calls is not undone; the memory tier of another process is out of
reach.

### Not modelled

| Part | State | Why |
| --- | --- | --- |
| Gateway proxies | none | stateless mapping of requests |
| Catalogue (products, options, variants) | catalogue tables | single inserts and reads; its prices and stock are constants here |
| Presence, typing, read receipts of the chat | none that lasts | broadcasts only |
| Ent: GROUP BY, aggregates, `Select`, hooks, substring conditions | - | not used by the program; no hook is registered |
| Protocol buffers, C# records, scripts | none | no control of their own |

## 2. Modules

| Module | What it is |
| --- | --- |
| `Kafka` | the broker as the services use it, and the faults |
| `Shop` | what an order is: customer, cart, total (subtotal plus 10 % tax) |
| `OrderLifecycle` | abstract: how a status may move |
| `OrderService` | the order service, and an environment that answers in every way |
| `KafkaOutbox` | the product service's outbox table and its publishers |
| `ProductService` | the stock listeners on top of it, and an environment |
| `UserService` | the payment consumer, its context, the dispatcher, the user calls |
| `Fulfilment` | abstract: where the goods and the money of an order are |
| `Saga` | the three services side by side |
| `Ent` | the three tables, their constraints, the SQL statements (external), mutations |
| `EntOrder`, `EntOrderItem`, `EntOutboxEvent` | the generated client of each table |
| `EntQuery` | the query builders |
| `EntBuilders` | a program that uses the builders in any order, in and outside a transaction |
| `Avro` | the generated codec |
| `OrderRepo` | the order service statement by statement, on top of the client and the codec |
| `Chat` | the channel, the message writer and its tables |
| `GatewaySessions` | login, guard, logout and password change over the cache and the set |
| `MCOrderService`, `MCProductService`, `MCUserService`, `MCSaga`, `MCEntBuilders`, `MCOrderRepo`, `MCChat`, `MCGatewaySessions` | instances for TLC |
| `Kafka_proofs` | lemmas about the broker and outbox tables |
| `ProductService_proofs`, `UserService_proofs`, `GatewaySessions_proofs`, `Chat_proofs`, `OrderRepo_proofs`, `EntBuilders_proofs` | inductive invariants and theorems of each specification |
| `Saga_proofs` | the same for the order service, and for the three services together |

`Saga` extends the three services, which extend `Shop`, which extends `Kafka`.
A service's steps (`OrderStep`, `ProductStep`, `UserStep`) mention only its own
variables and the broker's, so the same actions serve in a service's own
specification, next to an environment, and in the saga.

`OrderService` and `OrderRepo` model the same service at two grains. `OrderService`
takes a transaction, and the read and write of `UpdateStatus`, for one step each, and
is what the saga is about. `OrderRepo` takes every SQL statement for a step and shows,
for one consumer, that statuses still move along `OrderLifecycle`, the abstract
specification `OrderService` refines. Both refinements are proved.

### How the state corresponds

* **Broker.** `log[t]` is a topic with one partition. A record is an order: every
  event is keyed by it, and consumers look up nothing that differs between two
  events of one order and topic. `position` and `committed` are per group and topic.
  A handler that returns commits (`Ack`); one that fails leaves the offset and goes on
  (`Skip`): the Go consumer returns and polls on, the C# loop catches, Spring's
  default error handler gives up after its retries and, with `AckMode.MANUAL`, does
  not commit the record. A restart resumes at the committed offset, or, for a group
  in `LatestReset` that has none, at the end of the log. The order service's group
  starts at the earliest record (`NewConsumer`). The product service's
  (`KafkaConfig.kt`) sets no `auto.offset.reset`, for which Kafka takes the latest. The
  user service's takes the latest with `appsettings.Docker.json` and the earliest with
  `appsettings.json`. Spring for Apache Kafka may commit the position of a group at its
  assignment, which would close the gap for the product service; that is the library's
  matter, and the models do not rely on it.
* **Faults.** Everything that departs from the normal path is a `Fault(kind)`: it
  must be enabled in `Faults` and there are at most `MaxFaults` of them. The kinds
  are listed in `Kafka`; what each does is written in the actions.
* **Order service.** `orderStatus` is `orders.status`, one of the nine statuses of the
  schema (with `none` for an order not placed), of which the service sets five;
  `orderOutbox` is `outbox_events`, `orderBatch` the rows that a running
  flush has read and not yet handled. `FlushBegin` is the query, `FlushRow` one turn
  of the loop. `UpdateStatus` reads and writes in two statements; one process handles
  one record at a time, so the pair is one step.
* **Product service.** `stock` and `reversal` are the tables. `ServeItem` decides
  what one item does to the transaction, and the first item that is not served
  decides the transaction: `refused` (the guarded UPDATE matches no row) is answered
  with `stock.reduction.fail`; `broken` (the database raises) is not answered. The
  database raises when a variant stands twice in a cart (unique constraint) and when
  the stock becomes exactly 0: the trigger `trg_update_variant_status` assigns
  `VARIANT_STATUS.OUT_OF_STOCK`, which PostgreSQL reads as a column of a missing
  table. The Exposed table names the order column `orderId` where the migration says
  `order_id`; the model takes the column the code names. A tick of the publisher
  requeues and claims in one step; each message is one step.
* **User service.** `users` and `userOutbox` are the tables. `KafkaAttributeConsumer`
  is a singleton and resolves the handler from the root provider, so one `AppDbContext`
  serves all records: `tracked` are its user entities (a query returns the tracked
  one), `dirty` and `added` what a failed `SaveChanges` leaves to the next. gRPC calls
  and dispatcher batches have contexts of their own. (With scope validation, as in the
  Development environment, resolving the handler fails for every record; the model is
  of the other environments.) Amounts are in tenths of a price unit.
* **Catalogue.** Prices and initial stock are constants, as are initial wallets: no
  code in the repository tops a wallet up.
* **Generated client.** A table maps identifiers to rows or `Nil`. What PostgreSQL and
  Ent's `sqlgraph` do (constraints, a column assigned twice, edges of an update) is in
  `Ent`, marked external. A method call is a record `[op, col, val]`; the typed methods
  of columns of one kind are one operator, the methods by name another, which answer
  `Nil` for an error. `EntBuilders` keeps the list of calls next to the mutation, and
  the properties compare the database with the list. Executing a query yields the
  query as it is left behind: `First` and `Only` keep their limit, eager loading
  narrows the query of the edge.
* **Order repository.** `call[c]` is one `CreateOrder` and the rows its transaction
  has inserted and nobody else sees; `reader` is a client in the middle of a read. An
  error anywhere rolls back; a commit may fail after it took place. `InitDB` is a
  database that earlier calls (`Earlier`) have left: their rows, with any status. The
  generated setters, validators and statements run on it as the code runs them: a row
  is what `SaveOrder`, `SaveItems` and `SaveEvent` have told a builder. Time is a
  counter, so that no two orders are created at one instant. A record is a sequence of values,
  one per field, as the codec writes them. `ListOrders` takes the status `CREATED`, the
  zero of the enumeration, for no condition, as the code does.
* **Chat.** Users are numbers, 0 the empty identifier. `Trimmed` gives each identifier
  without the white space around it, and `Joined` the key of two, which puts a colon
  between them and may be the same for other two, as an identifier may hold a colon;
  both are parameters. A pair is ordered by number, which stands for the order of the
  texts. `DiscardFetches` is a poll that returns records and an error; `discarded` is
  history for the properties. `IF NOT EXISTS` is
  `InsertIfNotExists`; a statement that reports an error may have been applied. The
  writer decodes plain Avro. Which framing the producer's library (Avrora) writes
  depends on its configuration and version, so a record is plain or in a container,
  and a container stops the writer. The resolver answers `created: true` to both of two
  callers that race; no property is stated about the flag. The join check is commented
  out in the code and nothing fills the caches, where `src/README.md` (line 179) speaks
  of membership and block validation; the model follows the code.
* **Gateway sessions.** `memory[g]` and `redis` are the tiers, as the time at which a
  session expires; `listed[u]` is the set with its own expiry. Each await of a handler
  is one action. The cache library is external: `get` asks memory and then Redis and
  copies nothing back, `del` and `mdel` reach this process's memory and Redis. A failed
  call of the cache itself is not told apart from a failed call of Redis: it ends the
  request. The status of a session is never set to INACTIVE in the code, so it is left
  out. `issued` (also the tokens clients can send), `deleted`, `loggedOut`,
  `changed` and `swept` are history for the properties.

## 3. Runs

Deadlock is not checked: with no requests left the services wait, and the model stops.

| Run | Instance | Checks |
| --- | --- | --- |
| `order_service` | o1, o2 (symmetric), a refused o3; two answers per topic; 1 fault | type; `ProcessedWasPublished`, `StatusJustified`, `CommittedStockEventsApplied`; refinement of `OrderLifecycle` |
| `order_repository` | two orders in the table, a third being created (two lines, a quantity of 0, or a stale price), pages of 2, 2 events, 2 faults | type; `OrdersAreWhole`, `ReadersSeeWholeOrders`, `PagingSkipsNothing`, `StatusesFollowLifecycle` |
| `ent_builders` | a small database; any builder, two calls beyond the required ones, two executions, in and outside a transaction | `SavedAsTold`, `OnlyAddEscapesValidation`, `OldIsBefore`, `ItemsKeepTheirOrder`, `FreshQueriesAnswerInFull` |
| `product_service` | carts that compete, break a constraint or mismatch in price; 2 publishers, slow ones too; handler errors; 2 events per topic; 2 faults, 2 attempts; restarts at the end of a topic | type; `StockConserved`, `ReservedIffAnnounced`, `OutboxPublishedIsOnTopic`; liveness `EveryAnswerPublished` |
| `user_service` | wallet 25, orders of 11 and 22; 3 records; 2 faults | `WalletConserved`, `OnePaymentOutcome`, `CommittedReservationsDecided`; liveness `EveryOutcomePublished` |
| `user_faults` | all faults, registration, a password change | type (wallets at or above 0); `SentWasPublished` |
| `saga` | two orders of two variants, 3 units of each, one poor and one rich customer, 2 publishers, 1 fault; two groups that start at the end of a topic | `RollbackFindsReservation`, `StatusIsTrue`, `PublishedIsFinal`; refinement of `Fulfilment`; liveness `EveryOrderConcluded` |
| `gateway_sessions` | two gateways, two requests at a time, two logins of a user, three logouts or changes, a lifetime of 2 and time up to 2, 1 fault | type; `LoggedOutIsRefused`, `PasswordChangeEndsSessions`, `LiveSessionsAreListed` |
| `chat` | two calls for one pair from either side, for two pairs with one key, or for a user with itself; two messages; polls thrown away; 1 fault | type; `RoomsAgree`, `CommittedIsStored`, `StoredOnce`; liveness `QueuedIsStored` |

Runs that end in a counterexample, each against a line of the docs or the code (see
`findings`):

| Run | What happens |
| --- | --- |
| `saga_race` | `payment.success` is consumed before `stock.reduction.success`: `UpdateStatus` drops it, and a paid order stays `inventory_reserved` for ever |
| `product_last_units` | the order for the last units is skipped without an answer |
| `user_password` | `ChangePassword` writes wallet 0 |

`src/README.md` (lines 248 and 300) says that `payment.success` makes an order
`COMPLETED`. The code sets `payment_completed`; `completed` is another status of the
schema, and nothing sets it, nor `pending_inventory`, `payment_pending` and `shipping`.
`PaidIsShown` takes either.

What the runs of the generated client and of the chat show, beyond that the properties
hold: a builder executed twice keeps the `updated_at` of its first execution; `Add`
goes past the validators, which look only at what is set; moving an item that has an
order with `AddItemIDs` is always refused, and inside a transaction the caller opened,
the update before it stays; a query with eager loading must not be executed twice.
The order service makes a new builder for each statement, so none of this reaches it.
A pager must go on until a page is not full: the count is read before the page, so
the number of pages may be out of date.

What the gateway run shows: at one gateway a logout is final, and a change of
password ends every session its user was issued before, also when an earlier change
failed after the password was written. The exception is named by `swept`: a login that
lists its session after `sMembers` and before `del` of a change loses it from the set,
so the session outlives this change and later ones, up to its seven days; the same
happens when the set expires between the login's `sAdd` and `expire`. With two gateways
the one that made a session may admit it from memory after the other ended it.

Two behaviours are allowed by the models and contradict no checked property. The
product service remembers reservations but not refusals: an `order.created` that is
published twice can be refused and then, after a release, be served and charged, while
the order shows the refusal. The user service's consumer keeps its entities: a payment
after a password change writes back the password it had read before.

Some passing properties hold only without certain faults; their comments say which.

| Property | Holds while | What shows the counterexample |
| --- | --- | --- |
| `CommittedStockEventsApplied` | no handler fails | `handler_error` among the `Faults` of `order_service.cfg` |
| `CommittedReservationsDecided` | no handler fails, and the group starts at the earliest record | `LatestReset = {"asp-user-group"}` in `user_service.cfg` |
| `PublishedIsFinal` | publishers are faster than the limit after which rows count as stale | `slow_publisher` added to `saga.cfg`, with 2 faults |
| `OnePaymentOutcome` | `SaveChanges` succeeds | `save_error` added to `user_service.cfg` |
| `WalletConserved` | that, the commits after it succeed, and passwords stay | `user_password` |
| `EveryAnswerPublished` | for every row that has attempts left, reservation or refusal | the formula without `attempts >= MaxAttempts` in `product_service.cfg` |
| `EveryOutcomePublished` | there are fewer failures than attempts | `UserAttempts` at `MaxFaults` in `user_service.cfg` |
| `EveryOrderConcluded` | no handler fails and no row fails too often, except for an order whose record a restart leaves behind (`Overlooked`) or that would take the last units (`FindsLastUnits`) | the formula without them in `saga.cfg`; `product_last_units` |
| `RoomsAgree` | that the room validates for its users: for pairs that share their key with no other | the formula without `OwnKey` in `chat.cfg`: "a:b" and "c" are answered with the room of "a" and "b:c", which does not validate for them |
| `CommittedIsStored`, `QueuedIsStored` | for records that are not thrown away with a poll | the formulas without `discarded` in `chat.cfg`: a later commit covers the records |

**Bounds.** Two orders are enough for competition (the second order's stock, wallet or
commit) and for one order's event to overtake another's; a third record on a topic lets
a duplicate follow both originals. Two faults allow one fault during the recovery from
another. Two publishers are enough for a claim to be contested. The attempts are those
of the code, 5 and 10, or as few as the faults where a row is to use them up
(`product_service`). `MaxLog`, `MaxEvents`, `MaxReserved`, `MaxPasswords` bound the
environment, not the services. In `order_repository` three orders and pages of two make
a second page, and an order committed between two pages moves the second; two events let
a payment follow its reservation or an event be repeated. In `ent_builders` two calls
are enough for one to override, undo or contradict the other, two executions for what
the first leaves behind. In `chat` two calls race for one room, or for one key of two
pairs; one fault stops a call between the tables or the writer between a row and its
offset, or throws a poll away, and the call and the writer go on without it. In
`gateway_sessions` two requests make every race of two handlers; two sessions are one to
act with and one to end or lose; `MaxEntered` allows a change that fails, one that
succeeds and a logout; a lifetime of 2 lets the second login come when half of the first
one's has passed, so that the expiries differ. Tokens, requests and gateways are
symmetric: no action and no property tells them apart.

**Fairness.** Weak fairness of the loops the code runs for ever: the tickers and
pollers of the three dispatchers, and every consumer's poll. Clients are not fair
(nobody has to order), and neither are faults, so that a fault may but need not
happen. An action that may fail is fair as a whole; failures are finite because of
`MaxFaults`. For the user service's retry the backoff is a nondeterministic choice
that eventually must be made. In `chat` the consumer's steps are weakly fair while the
process runs; nothing in the repository starts it again, so `QueuedIsStored` supposes
that somebody does.

## 4. Proofs

Every theorem below is about every value of the constants that the `ASSUME`s of the
modules allow: any sets of orders, users, publishers, gateways, requests and messages,
any carts, prices and pages, any bound on faults and on the environment. TLC evaluates the
assumptions on its runs. They are: bounds are natural numbers, `Nil` and the like are
no rows; `ShopAssumption` adds that a cart is a sequence and a total a number,
`ChatAssumption` that user identifiers can be compared and trimming one gives one (how
keys collide is left open), `BuildersAssumption` that a
program calls only methods the update builders have. `OrderRepo` supposes that
`uuid.New` draws no identifier twice (`IdentifiersAssumption`), that a request is a list
of lines with whole quantities and prices (`RequestsAssumption`), and that the database
it starts on holds whole orders of earlier calls, created one after the other
(`InitDBAssumption`).

Each invariant was first checked by TLC on the instance of its component's run. A proof
has one step per action; actions that several conjuncts depend on have a lemma that
says what they do (`...Effect`), so that the definitions are opened once.

`Kafka_proofs` holds lemmas about the broker and about tables kept as sequences of
rows: publishing only adds records, a consumed record is on its topic, commits and
restarts keep the types, the oldest row is a row.

`Saga_proofs`, first part, about the order service beside any environment:

* `OrderServiceTypes` (with it, that a running flush has only unpublished rows),
  `OutboxNeverSkips` (`ProcessedWasPublished`: the step that sets
  `processed` publishes in the same step, a row's order never changes, logs only grow),
  `StatusesAreJustified` (`StatusJustified`: `UpdateStatus` reaches the payment
  statuses only from `inventory_reserved`, and an event that is handled is published),
  `OrderServiceImplementsLifecycle` (every step is a step of `OrderLifecycle` or leaves
  the statuses alone).
* `NoStockEventIsSkipped`: `CommittedStockEventsApplied`. The property speaks of the
  committed offset, which a restart makes the position; the invariant therefore speaks
  of the position: what has been *read* is applied (`ReadIsApplied`). It also needs
  that only placed orders have events (`EventsOfPlaced`), since `UpdateStatus` of an
  unknown order changes nothing. Assumes that no handler fails and that the group
  starts at the earliest record, as `NewConsumer` configures it.

`ProductService_proofs`:

* `ProductServiceTypes`; `StockIsConserved` (`StockConserved`); `ReservationsAreAnnounced`
  (`ReservedIffAnnounced`); `PublishedRowsAreOnTopic` (`OutboxPublishedIsOnTopic`).
  None excludes a fault. Stock is conserved because the units an order holds are
  a set determined by its reversal and its cart: a reservation adds the units of each
  line once (a variant that stands twice in a cart breaks the transaction), a release
  removes them, and cardinalities add up because the units of two orders are disjoint.
  The invariant adds that these sets are finite.

`UserService_proofs`, with four invariants, each stronger and under narrower
assumptions than the one before:

* `UserInvariant`, any faults: `UserServiceTypes` (no wallet is overdrawn),
  `SentRowsArePublished` (`SentWasPublished`: what a running batch counts as sent is on
  the topic, before it is saved).
* `OneOutcomeInvariant`, no `save_error`: `OutcomesAreUnique` (`OnePaymentOutcome`).
  The strengthening is that the consumer's context is clean between records
  (`ContextIsClean`); a failed `SaveChanges` is exactly what would leave a row in it.
* `WalletInvariant`, saves and commits succeed and no password is changed:
  `WalletsAreConserved` (`WalletConserved`). A tracked entity is the stored row
  (`TrackedIsStored`), so charging what is tracked charges what is stored. The run
  `user_password` shows why passwords are excluded.
* `OffsetInvariant`, also no handler error and the earliest record as the start:
  `NoReservationIsSkipped` (`CommittedReservationsDecided`). `AutoOffsetReset` is
  `Earliest` in `appsettings.json` and `Latest` in `appsettings.Docker.json`; with the
  latter a group that restarts before its first commit passes over what it missed, so
  the theorem is about the former.

`Saga_proofs`, second part, about the three services and their topics, on top of their
step lemmas:

* `RollbacksFindReservations` (`RollbackFindsReservation`) and `StatusesAreTrue`
  (`StatusIsTrue`), any faults. Each service's invariant speaks of its own tables and
  of published events; `Origins` links them: an announced order is reserved, an
  answered order was announced, a published payment has a row, a released order was
  declined.
* `PublishedRowsAreFinal` (`PublishedIsFinal`, an action property), no slow publisher:
  claims are then exclusive and their rows PROCESSING (`ClaimsAreExclusive`).
* `SagaConservesGoodsAndMoney`: `StockConserved`, `WalletConserved` and
  `OnePaymentOutcome` in the composition, under the assumptions of `WalletInvariant`.
* `SagaImplementsFulfilment`: the refinement of `Fulfilment`, no `save_error`. A step
  changes the phase of one order at most: the product service by a reservation or a
  release (`ReversalIsProgress`), the user service by a first outcome
  (`PaymentIsProgress`); every other step is a stutter.

`GatewaySessions_proofs`, with one invariant of nine parts: `SessionsTypes`,
`LogoutIsFinal` (`LoggedOutIsRefused`), `SessionsStayListed` (`LiveSessionsAreListed`)
and `PasswordChangeIsFinal` (`PasswordChangeEndsSessions`), any faults. A session that
is gone stays gone because a login in progress has a token of its own (`LoginsAreApart`)
that no set holds (`FreshIsUnlisted`), and because memory never has what Redis has not,
except at the gateway that made the session, after another one deleted it
(`MemoryFollowsRedis`). `LogoutIsFinal` therefore leaves out the gateway that made a
session when another one answered the logout, and `PasswordChangeIsFinal` the gateway
that made a session another one deleted, and the sessions in `swept`. A change of
password finds all sessions because the set outlives them (`SetsOutliveSessions`), and,
between its awaits, each session it must end is among the keys it has read or already
gone (`ChangesAreDone`).

`Chat_proofs`, any faults: `ChatTypes`, `CallsAgreeOnRooms` (`RoomsAgree`),
`NoMessageIsPassedOver` (`CommittedIsStored`) and `MessagesAreStoredOnce` (`StoredOnce`,
an action property). `RoomInvariant` says what a call knows at each of its steps: the
room it holds is the row of its pair's key, made for two users with that key,
and a row by identifier is a row by key. No injectivity of keys is assumed; that the
room is of the pair is claimed where no other pair has its key (`OwnKey`).
`MessageInvariant` says that what was read is stored as it was sent or was thrown away
with a poll, which needs that two records with one message identifier carry one message
(`SentOnce`).

`EntBuilders_proofs`, for every program over the builders, any initial database that
satisfies the schema and any bound; three invariants:

* `OldValuesAreOld` (`OldIsBefore`). `OldInvariant` says of an update of one row what the
  property cannot: while the mutation is not done, the row in the database the builder
  sees is one it may answer with, and a row once read is such a row too (`KnowsOld`).
  The rows it may answer with are the one the builder was opened on and those its
  failed executions left. Setters and calls by column name leave the part of a mutation
  this depends on alone (`...Keeps`), and this proof never opens an SQL statement.
* `FreshQueriesAreFull` (`FreshQueriesAnswerInFull`). A query that has not been executed
  loads items for all orders, if it loads any (`IsFreshQuery`, kept by
  `QueryInvariant`); executing it is what narrows the edge.
  What it answers is a window of a list of the matching orders (`WindowIs`), each once
  (`RowsAre`), and every item loaded for them is of one of them (`FreshNodes`).
* `OnlyIncrementsEscape` (`OnlyAddEscapesValidation`) and `OrdersLeaveItemsAlone`
  (`ItemsKeepTheirOrder`, an action property). `DataInvariant`: both databases, the
  committed one and the transaction's, hold valid rows (`SoundDB`), and a mutation says
  something only about columns of its table, an item's numbers by numbers
  (`ForEntity`). Every setter and every call by name keeps the second (`...For`), every
  statement the first, for the columns no executed update has added to (`...Leaves`).
  As every item has an order, an `Unlink` is refused or finds nothing and a `Link`
  finds no free item (`UnlinkIs`, `LinkIs`). `CreateBulk` links one row after the other,
  and a creation is prepared call after call: inductions over the rows and the calls,
  as sets of numbers (`NatInduct`).

The assumptions of `EntBuilders` are about the program and its database: it calls
methods that exist with arguments of their types (`BuildersAssumption`,
`ArgumentsAssumption`, as the Go compiler has it), gives a query no negative window,
which PostgreSQL refuses (`QueriesAssumption`), and starts with rows the schema allows
(`DatabaseAssumption`); `NilAssumption` keeps NULL apart from numbers and rows.

`OrderRepo_proofs`, about the order service at the grain of its SQL statements, any
number of calls, orders in the table, pages, events, failed statements, lost commits and
restarts. `RepoInv` has a part for each actor:

* `EventReadBack`: the codec gives back the event it was given, for any number of items.
  The reader of the array is a recursive function; that it consumes every element is
  an induction on the elements left, over the set of numbers for which it does.
* What the builders are told, one setter after the other, is the row they send
  (`SaveOrderSends`, `ItemSends`, `SaveEventSends`), and what an insert that succeeds
  does to the tables (`SaveOrderDoes`, `SaveItemsDoes`, `SaveEventDoes`).
* `CallInv` says at each state of a call what its transaction has written and that
  nobody else sees any of it: its rows are all committed or none is (`AllOrNothing`).
  With `DatabaseInv` (every row is of a call; the constraints hold) this gives
  `OrdersStayWhole` (`OrdersAreWhole`) and `RepoTypes` (`RepoTypeOK`). A commit that is
  reported to have failed leaves the call in the one state where both are possible.
* `ReadsAreWhole` (`ReadersSeeWholeOrders`): `ReaderInv` says that a page holds orders
  that are in the table; their items came with them and no code removes them, so a
  second statement, however late, finds them all.
* `PagingIsComplete` (`PagingSkipsNothing`): `PagingInv` counts. After n full pages of
  size s an order not yet seen has at least n s newer ones, for orders are only added,
  at the front (`TimeInv`: no two have one time, and the next is later than all). An
  order behind the rows of a page (`PageTurns`) is behind a full page, so a page that
  is not full is the last.
* `StatusesKeepLifecycle` (`StatusesFollowLifecycle`): `UpdateInv` says that between the
  SELECT and the UPDATE of `UpdateStatus` the order keeps the status that was found.
  Calls only add orders, and the one consumer handles one record at a time, so nobody
  else writes a status. What a record asks for is a move of the lifecycle (`AskIs`).

Only model-checked:

* Liveness (`EveryAnswerPublished`, `EveryOutcomePublished`, `EveryOrderConcluded`,
  `QueuedIsStored`): fairness is out of TLAPS' reach.
* `SavedAsTold` of `EntBuilders`: it compares the row with the last word on each column
  in the list of all calls, where a proof has to carry, for every column of three
  tables, what the mutation has kept of the list. The run goes through all pairs of
  calls.
* The three counterexamples.

## 5. Plan

1. Several order-service instances: two consumers of one partition during a rebalance
   on top of `OrderRepo`; orders created at one instant.
2. Catalogue writes beside a running saga.
3. Proofs: `SavedAsTold` of `EntBuilders`.
