----------------------------- MODULE Saga_proofs -----------------------------
(***************************************************************************)
(* What the order service guarantees in any environment, and what it and   *)
(* the other two services guarantee together.                              *)
(***************************************************************************)
EXTENDS Saga, ProductService_proofs, UserService_proofs

----------------------------------------------------------------------------
(***************************************************************************)
(* The order service: types, that a row marked processed has been          *)
(* published, that a status is backed by events, and that statuses follow  *)
(* the lifecycle.                                                          *)
(***************************************************************************)
\* The topics the service writes and subscribes to are topics of the broker.
LEMMA OrderTopicsAreTopics ==
    /\ "order.created" \in Topics
    /\ OrderTopics \subseteq Topics
    /\ \A t \in OrderTopics : <<"order-service-group", t>> \in Subscriptions
BY DEF Topics, OrderTopics, Subscriptions

\* Every step of the service keeps its own state and the broker's typed.
LEMMA OrderTypeStep ==
    ASSUME OrderServiceTypeOK, OrderStep
    PROVE  OrderServiceTypeOK'
<1> USE DEF OrderServiceTypeOK
<1>1. ASSUME NEW o \in Orders, CreateOrder(o) PROVE OrderServiceTypeOK'
  <2>1. KafkaTypeOK'
    BY <1>1 DEF CreateOrder, kafkaVars, KafkaTypeOK
  <2>2. orderStatus' \in [Orders -> OrderStatuses]
    BY <1>1 DEF CreateOrder, OrderTypeOK, Unprocessed, OrderStatuses
  <2>3a. [order |-> o, processed |-> FALSE] \in OutboxEvents
    BY DEF OutboxEvents
  <2>3. /\ orderOutbox' \in Seq(OutboxEvents)
        /\ DOMAIN orderOutbox \subseteq DOMAIN orderOutbox'
    BY <1>1, <2>3a, InsertRow DEF CreateOrder, OrderTypeOK, Unprocessed
  <2> QED
    BY <1>1, <2>1, <2>2, <2>3 DEF CreateOrder, OrderTypeOK, Unprocessed
<1>2. ASSUME FlushBegin PROVE OrderServiceTypeOK'
  BY <1>2 DEF FlushBegin, kafkaVars, KafkaTypeOK, OrderTypeOK, Unprocessed, OldestRows
<1>3. ASSUME FlushRow PROVE OrderServiceTypeOK'
  <2> DEFINE i == Oldest(orderBatch)
  <2>1. DOMAIN orderOutbox \subseteq Nat
    BY DEF OrderTypeOK, Unprocessed
  <2>2. i \in DOMAIN orderOutbox
    BY <1>3, <2>1, OldestIsMember DEF FlushRow, OrderTypeOK, Unprocessed
  <2> HIDE DEF i
  <2>3. orderOutbox[i] \in OutboxEvents
    BY <2>2, RowOfTable DEF OrderTypeOK, Unprocessed
  <2> DEFINE r == [orderOutbox[i] EXCEPT !.processed = TRUE]
  <2>3a. orderOutbox[i].order \in Orders /\ r \in OutboxEvents
    BY <2>3 DEF OutboxEvents
  <2>4. log' \in [Topics -> Seq(Orders)]
    BY <1>3, <2>3a, PublishGrows, OrderTopicsAreTopics DEF FlushRow, KafkaTypeOK, i
  <2>5. KafkaTypeOK'
    BY <1>3, <2>4, FaultCounted DEF FlushRow, KafkaTypeOK
  <2>6. orderOutbox' = orderOutbox \/ orderOutbox' = [orderOutbox EXCEPT ![i] = r]
    BY <1>3 DEF FlushRow, MarkOutboxProcessed, i
  <2> HIDE DEF r
  <2>7. /\ orderOutbox' \in Seq(OutboxEvents)
        /\ DOMAIN orderOutbox' = DOMAIN orderOutbox
    BY <2>2, <2>3a, <2>6, UpdateRow DEF OrderTypeOK, Unprocessed
  <2>8. orderBatch' = orderBatch \ {i} /\ \A j \in DOMAIN orderOutbox \ {i} : orderOutbox'[j] = orderOutbox[j]
    BY <1>3, <2>6 DEF FlushRow, i
  <2>9. orderBatch' \subseteq Unprocessed'
    BY <2>7, <2>8 DEF OrderTypeOK, Unprocessed
  <2> QED
    BY <1>3, <2>5, <2>7, <2>9 DEF FlushRow, OrderTypeOK
<1>4. ASSUME NEW t \in OrderTopics, HandleMessage(t) PROVE OrderServiceTypeOK'
  <2> DEFINE s == <<"order-service-group", t>>
  <2>1. s \in Subscriptions /\ s[2] \in Topics
    BY OrderTopicsAreTopics
  <2>2. KafkaTypeOK'
    BY <1>4, <2>1, DoneKeepsTypes DEF HandleMessage, FaultKinds
  <2>3. orderStatus' \in [Orders -> OrderStatuses]
    BY <1>4 DEF HandleMessage, HandleStockEvent, HandlePaymentEvent, UpdateStatus,
                OrderTypeOK, Unprocessed, OrderStatuses, OrderTopics, Topics
  <2> QED
    BY <1>4, <2>2, <2>3 DEF HandleMessage, OrderTypeOK, Unprocessed
<1>5. ASSUME OrderRestart PROVE OrderServiceTypeOK'
  BY <1>5, RestartKeepsTypes DEF OrderRestart, OrderTypeOK, Unprocessed
<1> QED
  BY <1>1, <1>2, <1>3, <1>4, <1>5 DEF OrderStep

\* Of all steps only the dispatcher's publish, and that to order.created.
LEMMA OrderPublishes ==
    ASSUME OrderServiceTypeOK, OrderStep
    PROVE  log' = log \/ \E o \in Orders : Publish("order.created", o)
<1>1. CASE FlushRow
  <2> DEFINE i == Oldest(orderBatch)
  <2>1. DOMAIN orderOutbox \subseteq Nat
    BY DEF OrderServiceTypeOK, OrderTypeOK, Unprocessed
  <2>2. i \in DOMAIN orderOutbox
    BY <1>1, <2>1, OldestIsMember DEF FlushRow, OrderServiceTypeOK, OrderTypeOK, Unprocessed
  <2> HIDE DEF i
  <2>3. orderOutbox[i] \in OutboxEvents
    BY <2>2, RowOfTable DEF OrderServiceTypeOK, OrderTypeOK, Unprocessed
  <2>4. orderOutbox[i].order \in Orders
    BY <2>3 DEF OutboxEvents
  <2>5. log' = log \/ Publish("order.created", orderOutbox[i].order)
    BY <1>1 DEF FlushRow, i
  <2> QED
    BY <2>4, <2>5
<1>2. CASE ~FlushRow
  BY <1>2 DEF OrderStep, CreateOrder, FlushBegin, HandleMessage, OrderRestart, Restart, kafkaVars
<1> QED
  BY <1>1, <1>2

----------------------------------------------------------------------------
\* No step of the service takes a record off a topic.
LEMMA OrderLogsGrow ==
    ASSUME OrderServiceTypeOK, OrderStep
    PROVE  \A t \in Topics : Published(t) \subseteq Published(t)'
<1>1. CASE log' = log
  BY <1>1 DEF Published
<1>2. ASSUME NEW o \in Orders, Publish("order.created", o)
      PROVE  \A t \in Topics : Published(t) \subseteq Published(t)'
  BY <1>2, PublishGrows, OrderTopicsAreTopics DEF OrderServiceTypeOK, KafkaTypeOK
<1> QED
  BY <1>1, <1>2, OrderPublishes

\* No step of the service marks a row processed before its record is in the log:
\* the outbox worker publishes first and updates the row after.
LEMMA ProcessedStep ==
    ASSUME OrderServiceTypeOK, ProcessedWasPublished, OrderStep
    PROVE  ProcessedWasPublished'
<1>1. Published("order.created") \subseteq Published("order.created")'
  BY OrderLogsGrow, OrderTopicsAreTopics
<1>2. ASSUME NEW o \in Orders, CreateOrder(o) PROVE ProcessedWasPublished'
  <2> DEFINE r == [order |-> o, processed |-> FALSE]
  <2>1. r \in OutboxEvents /\ ~r.processed /\ orderOutbox' = Append(orderOutbox, r)
    BY <1>2 DEF CreateOrder, OutboxEvents
  <2> HIDE DEF r
  <2>2. \A i \in DOMAIN orderOutbox' :
            (i \in DOMAIN orderOutbox /\ orderOutbox'[i] = orderOutbox[i]) \/ orderOutbox'[i] = r
    BY <2>1, InsertRow DEF OrderServiceTypeOK, OrderTypeOK, Unprocessed
  <2> QED
    BY <1>1, <2>1, <2>2 DEF ProcessedWasPublished
<1>3. ASSUME FlushRow PROVE ProcessedWasPublished'
  <2> DEFINE i == Oldest(orderBatch)
  <2>1. DOMAIN orderOutbox \subseteq Nat
    BY DEF OrderServiceTypeOK, OrderTypeOK, Unprocessed
  <2>2. i \in DOMAIN orderOutbox
    BY <1>3, <2>1, OldestIsMember DEF FlushRow, OrderServiceTypeOK, OrderTypeOK, Unprocessed
  <2> HIDE DEF i
  <2>3. orderOutbox[i] \in OutboxEvents
    BY <2>2, RowOfTable DEF OrderServiceTypeOK, OrderTypeOK, Unprocessed
  <2>4. orderOutbox[i].order \in Orders
    BY <2>3 DEF OutboxEvents
  <2> DEFINE r == [orderOutbox[i] EXCEPT !.processed = TRUE]
  <2>5. r.order = orderOutbox[i].order
    BY <2>3 DEF OutboxEvents
  <2>6. CASE orderOutbox' = orderOutbox
    BY <1>1, <2>6 DEF ProcessedWasPublished
  <2>7. CASE Publish("order.created", orderOutbox[i].order) /\ MarkOutboxProcessed(i)
    <3>1. orderOutbox[i].order \in Published("order.created")'
      BY <2>4, <2>7, PublishGrows, OrderTopicsAreTopics DEF OrderServiceTypeOK, KafkaTypeOK
    <3>2. orderOutbox' = [orderOutbox EXCEPT ![i] = r]
      BY <2>7 DEF MarkOutboxProcessed
    <3> HIDE DEF r
    <3>3. \A j \in DOMAIN orderOutbox' :
             j \in DOMAIN orderOutbox /\ (orderOutbox'[j] = orderOutbox[j] \/ orderOutbox'[j] = r)
      BY <3>2
    <3> QED
      BY <1>1, <2>5, <3>1, <3>3 DEF ProcessedWasPublished
  <2> QED
    BY <1>3, <2>6, <2>7 DEF FlushRow, i
<1>4. CASE UNCHANGED orderOutbox
  BY <1>1, <1>4 DEF ProcessedWasPublished
<1> QED
  BY <1>2, <1>3, <1>4 DEF OrderStep, FlushBegin, HandleMessage, OrderRestart

\* No step of the service sets a status whose events were not published: a
\* status changes only in a handler, on the record the handler read.
LEMMA JustifiedStep ==
    ASSUME OrderServiceTypeOK, StatusJustified, OrderStep
    PROVE  StatusJustified'
<1>1. \A t \in OrderTopics : Published(t) \subseteq Published(t)'
  BY OrderLogsGrow, OrderTopicsAreTopics
<1>2. ASSUME NEW o \in Orders, CreateOrder(o) PROVE StatusJustified'
  BY <1>1, <1>2 DEF CreateOrder, StatusJustified, OrderServiceTypeOK, OrderTypeOK, Unprocessed,
                    OrderTopics, Topics
<1>3. ASSUME NEW t \in OrderTopics, HandleMessage(t) PROVE StatusJustified'
  <2> DEFINE s == <<"order-service-group", t>>
             o == Record(s)
  <2>1. s \in Subscriptions /\ s[2] = t /\ t \in Topics
    BY OrderTopicsAreTopics
  <2>2. o \in Orders /\ o \in Published(t)
    BY <1>3, <2>1, RecordIsPublished DEF HandleMessage, OrderServiceTypeOK
  <2>3. o \in Published(t)'
    BY <1>1, <2>2
  <2>4. CASE UNCHANGED orderStatus
    BY <1>1, <2>4 DEF StatusJustified, OrderTopics, Topics
  <2>5. CASE t = "stock.reduction.success" /\ HandleStockEvent(o, TRUE)
    <3> HIDE DEF o, s
    <3> QED
      BY <1>1, <2>2, <2>3, <2>5 DEF HandleStockEvent, UpdateStatus, StatusJustified,
         OrderServiceTypeOK, OrderTypeOK, Unprocessed, OrderTopics, Topics
  <2>6. CASE t = "stock.reduction.fail" /\ HandleStockEvent(o, FALSE)
    <3> HIDE DEF o, s
    <3> QED
      BY <1>1, <2>2, <2>3, <2>6 DEF HandleStockEvent, UpdateStatus, StatusJustified,
         OrderServiceTypeOK, OrderTypeOK, Unprocessed, OrderTopics, Topics
  <2>7. CASE t = "payment.success" /\ HandlePaymentEvent(o, TRUE)
    <3> HIDE DEF o, s
    <3> QED
      BY <1>1, <2>2, <2>3, <2>7 DEF HandlePaymentEvent, UpdateStatus, StatusJustified,
         OrderServiceTypeOK, OrderTypeOK, Unprocessed, OrderTopics, Topics
  <2>8. CASE t = "payment.fail" /\ HandlePaymentEvent(o, FALSE)
    <3> HIDE DEF o, s
    <3> QED
      BY <1>1, <2>2, <2>3, <2>8 DEF HandlePaymentEvent, UpdateStatus, StatusJustified,
         OrderServiceTypeOK, OrderTypeOK, Unprocessed, OrderTopics, Topics
  <2> QED
    BY <1>3, <2>4, <2>5, <2>6, <2>7, <2>8 DEF HandleMessage, OrderTopics, Topics
<1>4. CASE UNCHANGED orderStatus
  BY <1>1, <1>4 DEF StatusJustified, OrderTopics, Topics
<1> QED
  BY <1>2, <1>3, <1>4 DEF OrderStep, FlushBegin, FlushRow, OrderRestart

----------------------------------------------------------------------------
(***************************************************************************)
(* The three facts hold together: statuses and rows are typed, and backed  *)
(* by records that no step removes.  That is inductive.                    *)
(***************************************************************************)
OrderInvariant == OrderServiceTypeOK /\ ProcessedWasPublished /\ StatusJustified

\* With no order, no row and empty logs, the invariant holds.
LEMMA OrderInvariantInit == OrderServiceInit => OrderInvariant
<1> SUFFICES ASSUME OrderServiceInit PROVE OrderInvariant
  OBVIOUS
<1>1. KafkaTypeOK
  BY FaultsAssumption DEF OrderServiceInit, KafkaInit, KafkaTypeOK
<1>2. OrderTypeOK
  BY DEF OrderServiceInit, OrderInit, OrderTypeOK, Unprocessed, OrderStatuses
<1>3. ProcessedWasPublished
  BY DEF OrderServiceInit, OrderInit, ProcessedWasPublished
<1>4. StatusJustified
  BY DEF OrderServiceInit, OrderInit, StatusJustified
<1> QED
  BY <1>1, <1>2, <1>3, <1>4 DEF OrderInvariant, OrderServiceTypeOK

\* It is about the service's own state: it holds on as long as that stays
\* and no record is lost.
LEMMA OrderUndisturbed ==
    ASSUME OrderInvariant, UNCHANGED orderVars, KafkaTypeOK',
           \A t \in Topics : Published(t) \subseteq Published(t)'
    PROVE  OrderInvariant'
<1> USE DEF OrderInvariant, orderVars
<1>1. OrderServiceTypeOK'
  BY DEF OrderServiceTypeOK, OrderTypeOK, Unprocessed
<1>2. ProcessedWasPublished'
  BY OrderTopicsAreTopics DEF ProcessedWasPublished
<1>3. StatusJustified'
  BY DEF StatusJustified, Topics
<1> QED
  BY <1>1, <1>2, <1>3

\* A step of the environment adds a record and touches nothing else.
LEMMA OrderEnvironmentStep ==
    ASSUME OrderInvariant, OrderEnvironment
    PROVE  OrderInvariant'
<1> USE DEF OrderInvariant, OrderServiceTypeOK
<1>1. PICK t \in OrderTopics, o \in Published("order.created") :
          Publish(t, o) /\ UNCHANGED <<position, committed, faults, orderVars>>
  BY DEF OrderEnvironment
<1>2. o \in Orders
  <2>1. log["order.created"] \in Seq(Orders)
    BY OrderTopicsAreTopics DEF KafkaTypeOK
  <2> QED
    BY <2>1, RowOfTable DEF Published
<1>3. /\ log' \in [Topics -> Seq(Orders)]
      /\ \A x \in Topics : Published(x) \subseteq Published(x)'
  BY <1>1, <1>2, PublishGrows, OrderTopicsAreTopics DEF KafkaTypeOK
<1>4. KafkaTypeOK' /\ UNCHANGED orderVars
  BY <1>1, <1>3 DEF KafkaTypeOK
<1> QED
  BY <1>3, <1>4, OrderUndisturbed

\* The invariant survives every step of the service and of its environment.
LEMMA OrderInvariantNext ==
    OrderInvariant /\ [OrderServiceNext]_orderServiceVars => OrderInvariant'
<1> SUFFICES ASSUME OrderInvariant, [OrderServiceNext]_orderServiceVars
             PROVE  OrderInvariant'
  OBVIOUS
<1>1. CASE OrderStep
  BY <1>1, OrderTypeStep, ProcessedStep, JustifiedStep DEF OrderInvariant
<1>2. CASE OrderEnvironment
  BY <1>2, OrderEnvironmentStep
<1>3. CASE UNCHANGED orderServiceVars
  <2>1. KafkaTypeOK' /\ \A t \in Topics : Published(t) \subseteq Published(t)'
    BY <1>3 DEF OrderInvariant, OrderServiceTypeOK, KafkaTypeOK, Published,
                orderServiceVars, kafkaVars
  <2> QED
    BY <1>3, <2>1, OrderUndisturbed DEF orderServiceVars
<1> QED
  BY <1>1, <1>2, <1>3 DEF OrderServiceNext

\* So it holds in every reachable state.
LEMMA OrderInvariantHolds == OrderServiceSpec => []OrderInvariant
BY OrderInvariantInit, OrderInvariantNext, PTL DEF OrderServiceSpec

\* The order service's state and its view of the broker stay typed.
THEOREM OrderServiceTypes == OrderServiceSpec => []OrderServiceTypeOK
<1>1. OrderInvariant => OrderServiceTypeOK
  BY DEF OrderInvariant
<1> QED
  BY <1>1, OrderInvariantHolds, PTL

\* For any number of orders and any failures of the broker, the database or
\* the process, a row the dispatcher has marked processed is on the topic.
THEOREM OutboxNeverSkips == OrderServiceSpec => []ProcessedWasPublished
<1>1. OrderInvariant => ProcessedWasPublished
  BY DEF OrderInvariant
<1> QED
  BY <1>1, OrderInvariantHolds, PTL

\* Whatever events arrive, and however often, a status the service shows is
\* backed by the events that lead to it.
THEOREM StatusesAreJustified == OrderServiceSpec => []StatusJustified
<1>1. OrderInvariant => StatusJustified
  BY DEF OrderInvariant
<1> QED
  BY <1>1, OrderInvariantHolds, PTL

----------------------------------------------------------------------------
\* A step of the service is a step of the lifecycle, or changes no status.
LEMMA LifecycleStep ==
    ASSUME OrderServiceTypeOK, OrderStep
    PROVE  Lifecycle!LifecycleNext \/ UNCHANGED orderStatus
<1>1. ASSUME NEW o \in Orders, CreateOrder(o) PROVE Lifecycle!LifecycleNext
  BY <1>1 DEF CreateOrder, Lifecycle!LifecycleNext, Lifecycle!Move
<1>2. ASSUME NEW t \in OrderTopics, HandleMessage(t), ~UNCHANGED orderStatus
      PROVE  Lifecycle!LifecycleNext
  <2> DEFINE s == <<"order-service-group", t>>
             o == Record(s)
  <2>1. s \in Subscriptions /\ s[2] = t /\ t \in Topics
    BY OrderTopicsAreTopics
  <2>2. o \in Orders
    BY <1>2, <2>1, RecordIsPublished DEF HandleMessage, OrderServiceTypeOK
  <2>3. \/ HandleStockEvent(o, TRUE) \/ HandleStockEvent(o, FALSE)
        \/ HandlePaymentEvent(o, TRUE) \/ HandlePaymentEvent(o, FALSE)
    BY <1>2 DEF HandleMessage, OrderTopics, Topics
  <2> HIDE DEF o
  <2> QED
    BY <1>2, <2>2, <2>3 DEF HandleStockEvent, HandlePaymentEvent, UpdateStatus,
                            Lifecycle!LifecycleNext, Lifecycle!Move
<1> QED
  BY <1>1, <1>2 DEF OrderStep, FlushBegin, FlushRow, OrderRestart

\* The order service implements the lifecycle: no sequence of deliveries,
\* redeliveries and restarts moves an order out of a settled status.
THEOREM OrderServiceImplementsLifecycle == OrderServiceSpec => ImplementsLifecycle
<1>1. OrderServiceInit => Lifecycle!LifecycleInit
  BY DEF OrderServiceInit, OrderInit, Lifecycle!LifecycleInit
<1>2. OrderInvariant /\ [OrderServiceNext]_orderServiceVars
          => [Lifecycle!LifecycleNext]_orderStatus
  BY LifecycleStep DEF OrderInvariant, OrderServiceNext, OrderEnvironment, orderServiceVars,
                       orderVars
<1> QED
  BY <1>1, <1>2, OrderInvariantHolds, PTL
     DEF OrderServiceSpec, ImplementsLifecycle, Lifecycle!LifecycleSpec

----------------------------------------------------------------------------
(***************************************************************************)
(* Offsets.  Every event is of an order that has been placed, so while no  *)
(* handler fails no event is skipped, and every stock event that has been  *)
(* read, committed or not, has been applied.                               *)
(***************************************************************************)
EventsOfPlaced ==
    /\ \A i \in DOMAIN orderOutbox : orderStatus[orderOutbox[i].order] # "none"
    /\ \A t \in Topics : \A o \in Published(t) : orderStatus[o] # "none"

StockEvents == {"stock.reduction.success", "stock.reduction.fail"}

\* The records of topic t that have been read, committed or not, are applied.
AppliedOn(t) ==
    LET s == <<"order-service-group", t>>
    IN  /\ committed[s] <= position[s]
        /\ position[s] <= Len(log[t])
        /\ \A i \in 1..position[s] : orderStatus[log[t][i]] \notin {"none", "created"}

ReadIsApplied == \A t \in StockEvents : AppliedOn(t)

OrderHandlersSucceed ==
    "handler_error" \notin Faults /\ "order-service-group" \notin LatestReset

OrderOffsetInvariant == OrderInvariant /\ EventsOfPlaced /\ ReadIsApplied

\* A status never goes back.
StatusesAdvance ==
    \A o \in Orders :
        /\ orderStatus[o] # "none" => orderStatus'[o] # "none"
        /\ orderStatus[o] \notin {"none", "created"} => orderStatus'[o] \notin {"none", "created"}

\* No handler of the order service moves a status against the lifecycle.
LEMMA StatusesOnlyAdvance ==
    ASSUME OrderServiceTypeOK, OrderStep
    PROVE  StatusesAdvance
BY LifecycleStep DEF StatusesAdvance, Lifecycle!LifecycleNext, Lifecycle!Move,
                     OrderServiceTypeOK, OrderTypeOK, Unprocessed

\* The rows and the records are orders.
LEMMA RecordsAreOrders ==
    ASSUME KafkaTypeOK
    PROVE  /\ \A t \in Topics : Published(t) \subseteq Orders
           /\ \A t \in Topics : \A i \in 1..Len(log[t]) : log[t][i] \in Orders
<1>1. \A t \in Topics : log[t] \in Seq(Orders)
  BY DEF KafkaTypeOK
<1> QED
  BY <1>1, RowOfTable DEF Published

\* Every step of the order service keeps order events to orders that were placed.
LEMMA PlacedStep ==
    ASSUME OrderServiceTypeOK, EventsOfPlaced, OrderStep
    PROVE  EventsOfPlaced'
<1>0. KafkaTypeOK /\ \A i \in DOMAIN orderOutbox : orderOutbox[i].order \in Orders
  <2>1. \A i \in DOMAIN orderOutbox : orderOutbox[i] \in OutboxEvents
    BY RowOfTable DEF OrderServiceTypeOK, OrderTypeOK, Unprocessed
  <2> QED
    BY <2>1 DEF OutboxEvents, OrderServiceTypeOK
<1>1. \A o \in Orders : orderStatus[o] # "none" => orderStatus'[o] # "none"
  BY StatusesOnlyAdvance DEF StatusesAdvance
<1>2. \A i \in DOMAIN orderOutbox' : orderStatus'[orderOutbox'[i].order] # "none"
  <2>1. ASSUME NEW o \in Orders, CreateOrder(o)
        PROVE  \A i \in DOMAIN orderOutbox' : orderStatus'[orderOutbox'[i].order] # "none"
    <3> DEFINE r == [order |-> o, processed |-> FALSE]
    <3>1. r \in OutboxEvents /\ r.order = o /\ orderOutbox' = Append(orderOutbox, r)
      BY <2>1 DEF CreateOrder, OutboxEvents
    <3>2. orderStatus'[o] = "created"
      BY <2>1 DEF CreateOrder, OrderServiceTypeOK, OrderTypeOK, Unprocessed
    <3> HIDE DEF r
    <3>3. \A i \in DOMAIN orderOutbox' :
              (i \in DOMAIN orderOutbox /\ orderOutbox'[i] = orderOutbox[i]) \/ orderOutbox'[i] = r
      BY <3>1, InsertRow DEF OrderServiceTypeOK, OrderTypeOK, Unprocessed
    <3> QED
      BY <1>0, <1>1, <3>1, <3>2, <3>3 DEF EventsOfPlaced
  <2>2. CASE orderOutbox' = orderOutbox
    BY <1>0, <1>1, <2>2 DEF EventsOfPlaced
  <2>3. ASSUME FlushRow, orderOutbox' # orderOutbox
        PROVE  \A i \in DOMAIN orderOutbox' : orderStatus'[orderOutbox'[i].order] # "none"
    <3> DEFINE i == Oldest(orderBatch)
               r == [orderOutbox[i] EXCEPT !.processed = TRUE]
    <3>1. orderOutbox' = [orderOutbox EXCEPT ![i] = r]
      BY <2>3 DEF FlushRow, MarkOutboxProcessed
    <3>2. DOMAIN orderOutbox \subseteq Nat /\ orderBatch \subseteq DOMAIN orderOutbox /\ orderBatch # {}
      BY <2>3 DEF FlushRow, OrderServiceTypeOK, OrderTypeOK, Unprocessed
    <3>3. i \in DOMAIN orderOutbox
      BY <3>2, OldestIsMember
    <3>4. orderOutbox[i] \in OutboxEvents
      BY <3>3, RowOfTable DEF OrderServiceTypeOK, OrderTypeOK, Unprocessed
    <3>5. r.order = orderOutbox[i].order
      BY <3>4 DEF OutboxEvents
    <3> HIDE DEF r, i
    <3>6. \A j \in DOMAIN orderOutbox' :
             j \in DOMAIN orderOutbox /\ orderOutbox'[j].order = orderOutbox[j].order
      BY <3>1, <3>3, <3>5
    <3> QED
      BY <1>0, <1>1, <3>6 DEF EventsOfPlaced
  <2> QED
    BY <2>1, <2>2, <2>3 DEF OrderStep, FlushBegin, HandleMessage, OrderRestart
<1>3. \A t \in Topics : \A o \in Published(t)' : o \in Published(t) \/ orderStatus[o] # "none"
  <2>1. CASE log' = log
    BY <2>1 DEF Published
  <2>2. CASE FlushRow /\ log' # log
    <3> DEFINE i == Oldest(orderBatch)
    <3>1. DOMAIN orderOutbox \subseteq Nat /\ orderBatch \subseteq DOMAIN orderOutbox /\ orderBatch # {}
      BY <2>2 DEF FlushRow, OrderServiceTypeOK, OrderTypeOK, Unprocessed
    <3>2. i \in DOMAIN orderOutbox
      BY <3>1, OldestIsMember
    <3>3. PICK o \in Orders : o = orderOutbox[i].order
      BY <1>0, <3>2
    <3>4. Publish("order.created", o)
      BY <2>2, <3>3 DEF FlushRow
    <3>5. \A x \in Topics : Published(x)' \subseteq Published(x) \cup {o}
      BY <1>0, <3>4, PublishGrows, OrderTopicsAreTopics DEF KafkaTypeOK
    <3>6. orderStatus[o] # "none"
      BY <3>2, <3>3 DEF EventsOfPlaced
    <3> QED
      BY <3>5, <3>6
  <2> QED
    BY <2>1, <2>2 DEF OrderStep, CreateOrder, FlushBegin, HandleMessage, OrderRestart, Restart,
                      kafkaVars
<1>4. \A t \in Topics : Published(t)' \subseteq Orders
  <2>1. KafkaTypeOK'
    BY OrderTypeStep DEF OrderServiceTypeOK
  <2>2. \A t \in Topics : log'[t] \in Seq(Orders)
    BY <2>1 DEF KafkaTypeOK
  <2> QED
    BY <2>2, RowOfTable DEF Published
<1> QED
  BY <1>1, <1>2, <1>3, <1>4 DEF EventsOfPlaced

\* The stock events are topics the order service subscribes to and never publishes.
LEMMA StockEventsAreTopics ==
    ASSUME NEW t \in StockEvents, KafkaTypeOK
    PROVE  /\ t \in OrderTopics /\ t \in Topics /\ t # "order.created"
           /\ <<"order-service-group", t>> \in Subscriptions
           /\ position[<<"order-service-group", t>>] \in Nat
           /\ committed[<<"order-service-group", t>>] \in Nat
           /\ log[t] \in Seq(Orders) /\ Len(log[t]) \in Nat
<1>1. t \in OrderTopics /\ t \in Topics /\ t # "order.created"
  BY DEF StockEvents, OrderTopics, Topics
<1>2. <<"order-service-group", t>> \in Subscriptions
  BY <1>1, OrderTopicsAreTopics
<1> QED
  BY <1>1, <1>2 DEF KafkaTypeOK

\* Records that arrive later, and rereading, leave it so.
LEMMA AppliedUndisturbed ==
    ASSUME NEW t \in StockEvents, KafkaTypeOK, KafkaTypeOK', AppliedOn(t), LogsGrow, StatusesAdvance,
           committed'[<<"order-service-group", t>>] <= position'[<<"order-service-group", t>>],
           position'[<<"order-service-group", t>>] <= position[<<"order-service-group", t>>]
    PROVE  AppliedOn(t)'
<1> DEFINE s == <<"order-service-group", t>>
<1>1. /\ position[s] \in Nat /\ log[t] \in Seq(Orders) /\ Len(log[t]) \in Nat /\ t \in Topics
      /\ s \in Subscriptions
  BY StockEventsAreTopics
<1>2. position'[s] \in Nat /\ log'[t] \in Seq(Orders) /\ Len(log'[t]) \in Nat
  BY <1>1 DEF KafkaTypeOK
<1>3. Len(log[t]) <= Len(log'[t]) /\ \A i \in 1..Len(log[t]) : log'[t][i] = log[t][i]
  BY <1>1 DEF LogsGrow
<1>4. /\ position[s] <= Len(log[t])
      /\ \A i \in 1..position[s] : orderStatus[log[t][i]] \notin {"none", "created"}
  BY DEF AppliedOn
<1>5. \A i \in 1..Len(log[t]) : log[t][i] \in Orders
  BY <1>1
<1>6. position'[s] <= Len(log'[t])
  BY <1>1, <1>2, <1>3, <1>4
<1>7. \A i \in 1..position'[s] : orderStatus'[log'[t][i]] \notin {"none", "created"}
  <2>1. ASSUME NEW i \in 1..position'[s]
        PROVE  i \in 1..position[s] /\ i \in 1..Len(log[t])
    BY <1>1, <1>2, <1>4
  <2> QED
    BY <1>3, <1>4, <1>5, <2>1 DEF StatusesAdvance
<1> QED
  BY <1>6, <1>7 DEF AppliedOn

\* The record at the position is read and applied.
LEMMA AppliedRead ==
    ASSUME NEW t \in StockEvents, KafkaTypeOK, AppliedOn(t), StatusesAdvance, log' = log,
           HasRecord(<<"order-service-group", t>>), Done(<<"order-service-group", t>>),
           orderStatus'[Record(<<"order-service-group", t>>)] \notin {"none", "created"}
    PROVE  AppliedOn(t)'
<1> DEFINE s == <<"order-service-group", t>>
<1>1. /\ position[s] \in Nat /\ committed[s] \in Nat /\ log[t] \in Seq(Orders)
      /\ Len(log[t]) \in Nat /\ s \in Subscriptions /\ s[2] = t
      /\ DOMAIN position = Subscriptions /\ DOMAIN committed = Subscriptions
  BY StockEventsAreTopics DEF KafkaTypeOK
<1>2. /\ position'[s] = position[s] + 1
      /\ committed'[s] = committed[s] \/ committed'[s] = position[s] + 1
  BY <1>1 DEF Done, Ack, Skip
<1>3. position[s] < Len(log[t]) /\ orderStatus'[log[t][position[s] + 1]] \notin {"none", "created"}
  BY <1>1 DEF HasRecord, Record
<1>4. /\ committed[s] <= position[s] /\ position[s] <= Len(log[t])
      /\ \A i \in 1..position[s] : orderStatus[log[t][i]] \notin {"none", "created"}
  BY DEF AppliedOn
<1>5. committed'[s] <= position'[s] /\ position'[s] <= Len(log'[t])
  BY <1>1, <1>2, <1>3, <1>4
<1>6. \A i \in 1..position'[s] : orderStatus'[log'[t][i]] \notin {"none", "created"}
  <2>1. \A i \in 1..position'[s] : i \in 1..position[s] \/ i = position[s] + 1
    BY <1>1, <1>2
  <2>2. \A i \in 1..position[s] : log[t][i] \in Orders
    BY <1>1, <1>4
  <2> QED
    BY <1>3, <1>4, <2>1, <2>2 DEF StatusesAdvance
<1> QED
  BY <1>5, <1>6 DEF AppliedOn

\* A stock event is never skipped, and leaves its order waiting for none.
LEMMA StockEventApplied ==
    ASSUME NEW t \in StockEvents, OrderServiceTypeOK, EventsOfPlaced, OrderHandlersSucceed,
           HandleMessage(t)
    PROVE  /\ HasRecord(<<"order-service-group", t>>) /\ Done(<<"order-service-group", t>>)
           /\ orderStatus'[Record(<<"order-service-group", t>>)] \notin {"none", "created"}
<1> DEFINE s == <<"order-service-group", t>>
           o == Record(s)
<1>1. KafkaTypeOK /\ s \in Subscriptions /\ s[2] = t /\ t \in Topics
  BY StockEventsAreTopics DEF OrderServiceTypeOK
<1>2. HasRecord(s)
  BY DEF HandleMessage
<1>3. o \in Orders /\ orderStatus[o] # "none"
  BY <1>1, <1>2, RecordIsPublished DEF EventsOfPlaced
<1>4. /\ Done(s)
      /\ HandleStockEvent(o, TRUE) \/ HandleStockEvent(o, FALSE)
  BY <1>3 DEF HandleMessage, StockEvents, Fault, OrderHandlersSucceed
<1> HIDE DEF o
<1>5. orderStatus'[o] \notin {"none", "created"}
  BY <1>3, <1>4 DEF HandleStockEvent, UpdateStatus, OrderServiceTypeOK, OrderTypeOK, Unprocessed
<1> QED
  BY <1>2, <1>4, <1>5 DEF o

\* A step that reads a stock event applies it before the reader moves past it.
LEMMA AppliedStep ==
    ASSUME OrderServiceTypeOK, EventsOfPlaced, OrderHandlersSucceed, OrderStep,
           NEW t \in StockEvents, AppliedOn(t)
    PROVE  AppliedOn(t)'
<1> DEFINE s == <<"order-service-group", t>>
<1>0. KafkaTypeOK /\ KafkaTypeOK' /\ StatusesAdvance
  BY OrderTypeStep, StatusesOnlyAdvance DEF OrderServiceTypeOK
<1>1. CASE HandleMessage(t)
  <2>1. log' = log
    BY <1>1 DEF HandleMessage
  <2> QED
    BY <1>0, <1>1, <2>1, StockEventApplied, AppliedRead
<1>2. CASE ~HandleMessage(t)
  <2>1. LogsGrow
    BY <1>0, OrderPublishes, OrderTopicsAreTopics, OffsetsStay DEF KafkaTypeOK
  <2>2. /\ committed[s] <= position[s] /\ position[s] \in Nat /\ committed[s] \in Nat
        /\ s \in Subscriptions
    BY <1>0, StockEventsAreTopics DEF AppliedOn
  <2>3. committed'[s] <= position'[s] /\ position'[s] <= position[s]
    <3>1. CASE OrderRestart
      BY <2>2, <3>1 DEF OrderRestart, Restart, ResumeAt, OrderHandlersSucceed
    <3>2. ASSUME NEW x \in OrderTopics, HandleMessage(x), x # t
          PROVE  committed'[s] <= position'[s] /\ position'[s] <= position[s]
      <4>1. s # <<"order-service-group", x>>
        BY <3>2
      <4>2. Ack(<<"order-service-group", x>>) \/ Skip(<<"order-service-group", x>>)
        BY <3>2 DEF HandleMessage, Done
      <4> QED
        BY <1>0, <2>2, <4>1, <4>2 DEF Ack, Skip, KafkaTypeOK
    <3>3. CASE UNCHANGED <<position, committed>>
      BY <2>2, <3>3
    <3> QED
      BY <1>2, <3>1, <3>2, <3>3 DEF OrderStep, CreateOrder, FlushBegin, FlushRow, kafkaVars
  <2> QED
    BY <1>0, <2>1, <2>3, AppliedUndisturbed
<1> QED
  BY <1>1, <1>2

\* The environment answers orders that have been placed, and reads nothing.
LEMMA OffsetEnvironment ==
    ASSUME OrderOffsetInvariant, OrderEnvironment \/ UNCHANGED orderServiceVars
    PROVE  EventsOfPlaced' /\ ReadIsApplied'
<1>0. KafkaTypeOK /\ KafkaTypeOK'
  BY OrderInvariantNext DEF OrderOffsetInvariant, OrderInvariant, OrderServiceTypeOK,
                            OrderServiceNext
<1>1. UNCHANGED <<position, committed, orderVars>>
  BY DEF OrderEnvironment, orderServiceVars, kafkaVars
<1>2. StatusesAdvance
  BY <1>1 DEF StatusesAdvance, orderVars
<1>3. \/ log' = log
      \/ \E t \in Topics, o \in Orders : o \in Published("order.created") /\ Publish(t, o)
  BY <1>0, RecordsAreOrders, OrderTopicsAreTopics
     DEF OrderEnvironment, orderServiceVars, kafkaVars
<1>4. \A t \in Topics : \A o \in Published(t)' : orderStatus[o] # "none"
  <2>1. CASE log' = log
    BY <2>1 DEF Published, OrderOffsetInvariant, EventsOfPlaced
  <2>2. ASSUME NEW t \in Topics, NEW o \in Orders, o \in Published("order.created"), Publish(t, o)
        PROVE  \A x \in Topics : \A p \in Published(x)' : orderStatus[p] # "none"
    <3>1. \A x \in Topics : Published(x)' \subseteq Published(x) \cup {o}
      BY <1>0, <2>2, PublishGrows DEF KafkaTypeOK
    <3> QED
      BY <2>2, <3>1, OrderTopicsAreTopics DEF OrderOffsetInvariant, EventsOfPlaced
  <2> QED
    BY <1>3, <2>1, <2>2
<1>5. EventsOfPlaced'
  BY <1>1, <1>4 DEF OrderOffsetInvariant, EventsOfPlaced, orderVars
<1>6. LogsGrow
  BY <1>0, <1>3, OffsetsStay DEF KafkaTypeOK
<1>7. ASSUME NEW t \in StockEvents PROVE AppliedOn(t)'
  <2> DEFINE s == <<"order-service-group", t>>
  <2>1. AppliedOn(t) /\ position[s] \in Nat
    BY <1>0, StockEventsAreTopics DEF OrderOffsetInvariant, ReadIsApplied
  <2>2. committed'[s] <= position'[s] /\ position'[s] <= position[s]
    BY <1>1, <2>1 DEF AppliedOn
  <2> QED
    BY <1>0, <1>2, <1>6, <2>1, <2>2, AppliedUndisturbed
<1> QED
  BY <1>5, <1>7 DEF ReadIsApplied

\* While no handler fails, a stock event below the committed offset has been
\* applied: lost commits and restarts make the consumer read events again,
\* out of order with the payment events, but never past one.  (The consumer
\* starts at the earliest record: auto.offset.reset in NewConsumer.)
THEOREM NoStockEventIsSkipped ==
    ASSUME OrderHandlersSucceed
    PROVE  OrderServiceSpec => []CommittedStockEventsApplied
<1>1. OrderServiceInit => OrderOffsetInvariant
  <2> SUFFICES ASSUME OrderServiceInit PROVE OrderOffsetInvariant
    OBVIOUS
  <2>1. EventsOfPlaced
    BY DEF OrderServiceInit, OrderInit, KafkaInit, EventsOfPlaced, Published
  <2>2. KafkaTypeOK
    BY OrderInvariantInit DEF OrderInvariant, OrderServiceTypeOK
  <2>3. ASSUME NEW t \in StockEvents PROVE AppliedOn(t)
    <3>1. t \in Topics /\ <<"order-service-group", t>> \in Subscriptions
      BY <2>2, StockEventsAreTopics
    <3>2. /\ position[<<"order-service-group", t>>] = 0
          /\ committed[<<"order-service-group", t>>] = 0
          /\ log[t] = <<>>
      BY <3>1 DEF OrderServiceInit, KafkaInit
    <3> QED
      BY <3>2 DEF AppliedOn
  <2> QED
    BY <2>1, <2>3, OrderInvariantInit DEF OrderOffsetInvariant, ReadIsApplied
<1>2. OrderOffsetInvariant /\ [OrderServiceNext]_orderServiceVars => OrderOffsetInvariant'
  <2> SUFFICES ASSUME OrderOffsetInvariant, [OrderServiceNext]_orderServiceVars
               PROVE  OrderOffsetInvariant'
    OBVIOUS
  <2>0. OrderInvariant'
    BY OrderInvariantNext DEF OrderOffsetInvariant
  <2>1. CASE OrderStep
    BY <2>0, <2>1, PlacedStep, AppliedStep
       DEF OrderOffsetInvariant, OrderInvariant, ReadIsApplied
  <2>2. CASE OrderEnvironment \/ UNCHANGED orderServiceVars
    BY <2>0, <2>2, OffsetEnvironment DEF OrderOffsetInvariant
  <2> QED
    BY <2>1, <2>2 DEF OrderServiceNext
<1>3. OrderOffsetInvariant => CommittedStockEventsApplied
  <2> SUFFICES ASSUME OrderOffsetInvariant, NEW t \in StockEvents
               PROVE  \A i \in 1..committed[<<"order-service-group", t>>] :
                          orderStatus[log[t][i]] # "created"
    BY DEF CommittedStockEventsApplied, StockEvents
  <2>1. /\ committed[<<"order-service-group", t>>] \in Nat
        /\ position[<<"order-service-group", t>>] \in Nat
    BY StockEventsAreTopics DEF OrderOffsetInvariant, OrderInvariant, OrderServiceTypeOK
  <2> QED
    BY <2>1 DEF OrderOffsetInvariant, ReadIsApplied, AppliedOn
<1> QED
  BY <1>1, <1>2, <1>3, PTL DEF OrderServiceSpec

----------------------------------------------------------------------------
(***************************************************************************)
(* The three services.  The proofs about one service are reused step by    *)
(* step: a step of one service leaves the state of the others alone and    *)
(* takes no record off a topic, which is all that their invariants need.   *)
(* What is added is where events come from.                                *)
(***************************************************************************)
\* A reservation that has been announced has been made.
AnnouncedIsReserved ==
    \A o \in Published("stock.reduction.success") : reversal[o] # "none"

\* The user service answers reservations only: its rows, saved or not, are
\* of orders that have been reserved.
AnsweredIsReserved == \A o \in Answered : reversal[o] # "none"

\* A payment event on a topic comes from a row of the user service.
PaymentsHaveRows ==
    /\ Published("payment.success") \subseteq Paid
    /\ Published("payment.fail") \subseteq Declined

\* Only a declined order's goods go back.
ReleasedIsDeclined == \A o \in Orders : reversal[o] = "RELEASED" => o \in Declined

Origins == AnnouncedIsReserved /\ AnsweredIsReserved /\ PaymentsHaveRows /\ ReleasedIsDeclined

SagaInvariant == OrderInvariant /\ ProductInvariant /\ UserInvariant /\ Origins

\* Three fresh services and empty topics satisfy the invariant.
LEMMA SagaInvariantInit == SagaInit => SagaInvariant
<1> SUFFICES ASSUME SagaInit PROVE SagaInvariant
  OBVIOUS
<1>1. OrderInvariant /\ ProductInvariant /\ UserInvariant
  BY OrderInvariantInit, ProductInvariantInit, UserInvariantsInit
     DEF SagaInit, OrderServiceInit, ProductServiceInit, UserServiceInit, WalletInvariant,
         OneOutcomeInvariant
<1>2. \A t \in Topics : Published(t) = {}
  BY DEF SagaInit, KafkaInit, Published
<1>3. AnnouncedIsReserved /\ PaymentsHaveRows
  BY <1>2 DEF AnnouncedIsReserved, PaymentsHaveRows, Topics
<1>4. AnsweredIsReserved
  BY DEF SagaInit, UserInit, AnsweredIsReserved, Answered
<1>5. ReleasedIsDeclined
  BY DEF SagaInit, ProductInit, ReleasedIsDeclined
<1> QED
  BY <1>1, <1>3, <1>4, <1>5 DEF SagaInvariant, Origins

----------------------------------------------------------------------------
\* A step of one service and the invariants of all three.
LEMMA ServicesStep ==
    ASSUME OrderInvariant, ProductInvariant, UserInvariant, [SagaNext]_sagaVars
    PROVE  /\ OrderInvariant' /\ ProductInvariant' /\ UserInvariant'
           /\ \A t \in Topics : Published(t) \subseteq Published(t)'
<1>1. CASE OrderStep /\ UNCHANGED <<productVars, userVars>>
  <2>1. OrderInvariant' /\ KafkaTypeOK' /\ \A t \in Topics : Published(t) \subseteq Published(t)'
    BY <1>1, OrderTypeStep, ProcessedStep, JustifiedStep, OrderLogsGrow
       DEF OrderInvariant, OrderServiceTypeOK
  <2> QED
    BY <1>1, <2>1, ProductUndisturbed, UserUndisturbed DEF UserInvariant
<1>2. CASE ProductStep /\ UNCHANGED <<orderVars, userVars>>
  <2>1. ProductInvariant' /\ KafkaTypeOK' /\ \A t \in Topics : Published(t) \subseteq Published(t)'
    BY <1>2, ProductTypeStep, ConservedStep, AnnouncedStep, OnTopicStep
       DEF ProductInvariant, ProductServiceTypeOK
  <2> QED
    BY <1>2, <2>1, OrderUndisturbed, UserUndisturbed DEF UserInvariant
<1>3. CASE UserStep /\ UNCHANGED <<orderVars, productVars>>
  <2>1. UserInvariant' /\ KafkaTypeOK' /\ \A t \in Topics : Published(t) \subseteq Published(t)'
    BY <1>3, UserTypeStep, PublishingStep DEF UserInvariant, UserServiceTypeOK
  <2> QED
    BY <1>3, <2>1, OrderUndisturbed, ProductUndisturbed
<1>4. CASE UNCHANGED sagaVars
  <2>1. UNCHANGED <<orderVars, productVars, userVars>>
    BY <1>4 DEF sagaVars
  <2>2. KafkaTypeOK' /\ \A t \in Topics : Published(t) \subseteq Published(t)'
    BY <1>4 DEF sagaVars, kafkaVars, Published, KafkaTypeOK, OrderInvariant, OrderServiceTypeOK
  <2> QED
    BY <2>1, <2>2, OrderUndisturbed, ProductUndisturbed, UserUndisturbed DEF UserInvariant
<1> QED
  BY <1>1, <1>2, <1>3, <1>4 DEF SagaNext

----------------------------------------------------------------------------
(***************************************************************************)
(* Where events come from, one service at a time.                          *)
(***************************************************************************)
\* A record appears on one topic only.
LEMMA PublishedOn ==
    ASSUME KafkaTypeOK, NEW t \in Topics, NEW o \in Orders, Publish(t, o)
    PROVE  /\ \A x \in Topics \ {t} : Published(x)' = Published(x)
           /\ Published(t)' \subseteq Published(t) \cup {o}
<1>1. /\ \A x \in Topics \ {t} : log'[x] = log[x]
      /\ Published(t)' \subseteq Published(t) \cup {o}
  BY PublishGrows DEF KafkaTypeOK
<1> QED
  BY <1>1 DEF Published

SagaTopics == {"stock.reduction.success", "payment.success", "payment.fail"}

\* A step of the order service keeps the origins of every event of the other services.
LEMMA OrderOrigins ==
    ASSUME SagaInvariant, OrderStep, UNCHANGED <<productVars, userVars>>
    PROVE  Origins'
<1>0. KafkaTypeOK
  BY DEF SagaInvariant, OrderInvariant, OrderServiceTypeOK
<1>1. log' = log \/ \E o \in Orders : Publish("order.created", o)
  BY OrderPublishes DEF SagaInvariant, OrderInvariant
<1>2. \A t \in SagaTopics : Published(t)' = Published(t)
  <2>1. CASE log' = log
    BY <2>1 DEF Published
  <2>2. ASSUME NEW o \in Orders, Publish("order.created", o)
        PROVE  \A t \in SagaTopics : Published(t)' = Published(t)
    BY <1>0, <2>2, PublishedOn, OrderTopicsAreTopics DEF SagaTopics, Topics
  <2> QED
    BY <1>1, <2>1, <2>2
<1>3. userOutbox' = userOutbox /\ added' = added /\ reversal' = reversal
  BY DEF productVars, stockVars, userVars, accountVars, contextVars
<1>4. Paid' = Paid /\ Declined' = Declined /\ Answered' = Answered
  BY <1>3, OutcomesStay DEF Answered
<1> QED
  BY <1>2, <1>3, <1>4 DEF SagaInvariant, Origins, AnnouncedIsReserved, AnsweredIsReserved,
                          PaymentsHaveRows, ReleasedIsDeclined, SagaTopics

\* What a step of the product service does to a reservation.
ReversalStep(o, to) ==
    /\ reversal' = [reversal EXCEPT ![o] = to]
    /\ \/ reversal[o] = "none" /\ to = "REVERSED"
       \/ reversal[o] = "REVERSED" /\ to = "RELEASED" /\ o \in Published("payment.fail")

\* A step of the product service reverses or releases at most one order.
LEMMA ReversalMoves ==
    ASSUME ProductServiceTypeOK, ProductStep
    PROVE  \/ reversal' = reversal
           \/ \E o \in Orders, to \in {"REVERSED", "RELEASED"} : ReversalStep(o, to)
<1>0. KafkaTypeOK
  BY DEF ProductServiceTypeOK
<1>1. CASE OnOrderCreated
  <2>1. PICK o \in Orders :
          reversal' = reversal \/ (reversal[o] = "none" /\ reversal' = [reversal EXCEPT ![o] = "REVERSED"])
    BY <1>0, <1>1, OrderCreatedEffect DEF Reserve, Refuse, stockVars
  <2> QED
    BY <2>1 DEF ReversalStep
<1>2. CASE OnStockReductionRollback
  <2>1. PICK o \in Orders :
          \/ reversal' = reversal
          \/ /\ reversal[o] = "REVERSED" /\ o \in Published("payment.fail")
             /\ reversal' = [reversal EXCEPT ![o] = "RELEASED"]
    BY <1>0, <1>2, RollbackEffect DEF Release, stockVars
  <2> QED
    BY <2>1 DEF ReversalStep
<1> QED
  BY <1>1, <1>2 DEF ProductStep, ProductRestart, stockVars

\* The user service answers orders.
LEMMA AnsweredAreOrders ==
    ASSUME UserServiceTypeOK
    PROVE  Answered \subseteq Orders
<1>1. /\ \A i \in DOMAIN userOutbox : userOutbox[i] \in PaymentRows
      /\ \A k \in DOMAIN added : added[k] \in PaymentRows
  BY RowOfTable DEF UserServiceTypeOK, UserTypeOK
<1> QED
  BY <1>1 DEF Answered, PaymentRows

\* A step of the product service acts on orders that were created, and on
\* payments that were declined.
LEMMA ProductOrigins ==
    ASSUME SagaInvariant, ProductStep, UNCHANGED <<orderVars, userVars>>
    PROVE  Origins'
<1>0. KafkaTypeOK /\ ProductServiceTypeOK
  BY DEF SagaInvariant, ProductInvariant, ProductServiceTypeOK
<1>1. userOutbox' = userOutbox /\ added' = added
  BY DEF userVars, accountVars, contextVars
<1>2. Paid' = Paid /\ Declined' = Declined /\ Answered' = Answered
  BY <1>1, OutcomesStay DEF Answered
<1>3. /\ \A t \in {"payment.success", "payment.fail"} : Published(t)' = Published(t)
      /\ \A o \in Published("stock.reduction.success")' : reversal[o] # "none"
  <2>1. CASE log' = log
    BY <2>1 DEF Published, SagaInvariant, Origins, AnnouncedIsReserved
  <2>2. ASSUME NEW i \in DOMAIN outbox, Publish(outbox[i].topic, outbox[i].order)
        PROVE  /\ \A t \in {"payment.success", "payment.fail"} : Published(t)' = Published(t)
               /\ \A o \in Published("stock.reduction.success")' : reversal[o] # "none"
    <3>1. outbox[i] \in OutboxRows
      BY <1>0, <2>2, RowOfTable DEF ProductServiceTypeOK, ProductTypeOK, OutboxTypeOK
    <3>2. PICK t \in {"stock.reduction.success", "stock.reduction.fail"}, o \in Orders :
            t = outbox[i].topic /\ o = outbox[i].order
      BY <3>1 DEF OutboxRows
    <3>3. /\ \A x \in Topics \ {t} : Published(x)' = Published(x)
          /\ Published(t)' \subseteq Published(t) \cup {o}
      BY <1>0, <2>2, <3>2, PublishedOn, ProductTopicsAreTopics
    <3>4. t = "stock.reduction.success" => reversal[o] # "none"
      <4>1. t = "stock.reduction.success" => i \in Announcements(o)
        BY <3>2 DEF Announcements
      <4> QED
        BY <4>1 DEF SagaInvariant, ProductInvariant, ReservedIffAnnounced
    <3> QED
      BY <3>2, <3>3, <3>4 DEF Topics, SagaInvariant, Origins, AnnouncedIsReserved
  <2> QED
    BY <1>0, <2>1, <2>2, ProductPublishes
<1>4. \/ reversal' = reversal
      \/ \E o \in Orders, to \in {"REVERSED", "RELEASED"} : ReversalStep(o, to)
  BY <1>0, ReversalMoves
<1>5. \A o \in Orders : reversal[o] # "none" => reversal'[o] # "none"
  BY <1>0, <1>4 DEF ReversalStep, ProductServiceTypeOK, ProductTypeOK, StockTypeOK
<1>6. \A o \in Orders : reversal'[o] = "RELEASED" => reversal[o] = "RELEASED" \/ o \in Declined
  BY <1>0, <1>4 DEF ReversalStep, SagaInvariant, Origins, PaymentsHaveRows,
                    ProductServiceTypeOK, ProductTypeOK, StockTypeOK
<1>7. Answered \subseteq Orders /\ Published("stock.reduction.success")' \subseteq Orders
  <2>1. KafkaTypeOK'
    BY <1>0, ProductTypeStep DEF ProductServiceTypeOK
  <2>2. log'["stock.reduction.success"] \in Seq(Orders)
    BY <2>1, ProductTopicsAreTopics DEF KafkaTypeOK
  <2> QED
    BY <2>2, RowOfTable, AnsweredAreOrders DEF Published, SagaInvariant, UserInvariant
<1> QED
  BY <1>2, <1>3, <1>5, <1>6, <1>7
     DEF SagaInvariant, Origins, AnnouncedIsReserved, AnsweredIsReserved, PaymentsHaveRows,
         ReleasedIsDeclined

\* A step of the user service answers orders whose stock is reserved.
LEMMA UserOrigins ==
    ASSUME SagaInvariant, UserStep, UNCHANGED <<orderVars, productVars>>
    PROVE  Origins'
<1>0. KafkaTypeOK /\ UserServiceTypeOK
  BY DEF SagaInvariant, UserInvariant, UserServiceTypeOK
<1>1. reversal' = reversal
  BY DEF productVars, stockVars
<1>2. /\ Paid \subseteq Paid' /\ Declined \subseteq Declined'
      /\ Answered' \subseteq Answered \cup Published("stock.reduction.success")
  BY <1>0, AnswersStep DEF OutcomesGrow
<1>3. /\ Published("stock.reduction.success")' = Published("stock.reduction.success")
      /\ Published("payment.success")' \subseteq Paid
      /\ Published("payment.fail")' \subseteq Declined
  <2>1. CASE log' = log
    BY <2>1 DEF Published, SagaInvariant, Origins, PaymentsHaveRows
  <2>2. ASSUME NEW i \in DOMAIN userOutbox, Publish(userOutbox[i].topic, userOutbox[i].order)
        PROVE  /\ Published("stock.reduction.success")' = Published("stock.reduction.success")
               /\ Published("payment.success")' \subseteq Paid
               /\ Published("payment.fail")' \subseteq Declined
    <3>1. userOutbox[i] \in PaymentRows
      BY <1>0, <2>2, RowOfTable DEF UserServiceTypeOK, UserTypeOK
    <3>2. PICK t \in PaymentTopics, o \in Orders : t = userOutbox[i].topic /\ o = userOutbox[i].order
      BY <3>1 DEF PaymentRows
    <3>3. /\ \A x \in Topics \ {t} : Published(x)' = Published(x)
          /\ Published(t)' \subseteq Published(t) \cup {o}
      BY <1>0, <2>2, <3>2, PublishedOn, UserSubscriptionIsOne
    <3>4. /\ t = "payment.success" => o \in Paid
          /\ t = "payment.fail" => o \in Declined
      <4>1. i \in Outcomes(o, t)
        BY <3>2 DEF Outcomes
      <4> QED
        BY <4>1 DEF Paid, Declined
    <3> QED
      BY <3>2, <3>3, <3>4 DEF Topics, PaymentTopics, SagaInvariant, Origins, PaymentsHaveRows
  <2> QED
    BY <1>0, <2>1, <2>2, UserPublishes
<1> QED
  BY <1>1, <1>2, <1>3 DEF SagaInvariant, Origins, AnnouncedIsReserved, AnsweredIsReserved,
                          PaymentsHaveRows, ReleasedIsDeclined

\* Every step of a service keeps the invariant of the three and their topics.
LEMMA SagaInvariantNext ==
    SagaInvariant /\ [SagaNext]_sagaVars => SagaInvariant'
<1> SUFFICES ASSUME SagaInvariant, [SagaNext]_sagaVars PROVE SagaInvariant'
  OBVIOUS
<1>1. OrderInvariant' /\ ProductInvariant' /\ UserInvariant'
  BY ServicesStep DEF SagaInvariant
<1>2. CASE UNCHANGED sagaVars
  <2>1. userOutbox' = userOutbox /\ added' = added /\ reversal' = reversal /\ log' = log
    BY <1>2 DEF sagaVars, kafkaVars, productVars, stockVars, userVars, accountVars, contextVars
  <2>2. Paid' = Paid /\ Declined' = Declined /\ Answered' = Answered
    BY <2>1, OutcomesStay DEF Answered
  <2>3. \A t : Published(t)' = Published(t)
    BY <2>1 DEF Published
  <2> QED
    BY <1>1, <2>1, <2>2, <2>3 DEF SagaInvariant, Origins, AnnouncedIsReserved, AnsweredIsReserved,
                                  PaymentsHaveRows, ReleasedIsDeclined
<1>3. CASE SagaNext
  BY <1>1, <1>3, OrderOrigins, ProductOrigins, UserOrigins DEF SagaNext, SagaInvariant
<1> QED
  BY <1>2, <1>3

\* So it holds in every reachable state.
LEMMA SagaInvariantHolds == SagaSpec => []SagaInvariant
BY SagaInvariantInit, SagaInvariantNext, PTL DEF SagaSpec

\* With any number of orders and users, and whatever is lost, repeated,
\* delayed or restarted in any of the three services, a payment.fail record
\* finds the reservation it is to undo.
THEOREM RollbacksFindReservations == SagaSpec => []RollbackFindsReservation
<1>1. SagaInvariant => RollbackFindsReservation
  <2> SUFFICES ASSUME SagaInvariant, NEW o \in Published("payment.fail")
               PROVE  reversal[o] # "none"
    BY DEF RollbackFindsReservation
  <2>1. o \in Declined
    BY DEF SagaInvariant, Origins, PaymentsHaveRows
  <2>2. o \in Answered
    BY <2>1 DEF Declined, Outcomes, Answered
  <2> QED
    BY <2>2 DEF SagaInvariant, Origins, AnsweredIsReserved
<1> QED
  BY <1>1, SagaInvariantHolds, PTL

\* A status the order service shows is what the other services did: it is
\* at most late, never wrong.
THEOREM StatusesAreTrue == SagaSpec => []StatusIsTrue
<1>1. SagaInvariant => StatusIsTrue
  BY DEF SagaInvariant, OrderInvariant, StatusJustified, Origins, AnnouncedIsReserved,
         PaymentsHaveRows, StatusIsTrue
<1> QED
  BY <1>1, SagaInvariantHolds, PTL

----------------------------------------------------------------------------
(***************************************************************************)
(* What holds in addition while certain faults do not happen.              *)
(***************************************************************************)
\* A PUBLISHED row is never sent again or retried, with any number of
\* publishers, crashes and errors, while no publisher is slower than the
\* limit after which its rows count as stale.
THEOREM PublishedRowsAreFinal ==
    ASSUME "slow_publisher" \notin Faults
    PROVE  SagaSpec => PublishedIsFinal
<1>1. SagaInit => ClaimsAreExclusive
  BY DEF SagaInit, ProductInit, OutboxInit, ClaimsAreExclusive
<1>2. ASSUME SagaInvariant, ClaimsAreExclusive, [SagaNext]_sagaVars
      PROVE  /\ ClaimsAreExclusive'
             /\ \A i \in RowsIn("PUBLISHED") : outbox'[i].status = "PUBLISHED"
  <2>1. CASE ProductStep
    BY <1>2, <2>1, ClaimsStep DEF SagaInvariant, ProductInvariant
  <2>2. CASE UNCHANGED productVars
    BY <1>2, <2>2 DEF productVars, outboxVars, ClaimsAreExclusive, RowsIn
  <2> QED
    BY <1>2, <2>1, <2>2 DEF SagaNext, sagaVars
<1>3. SagaInvariant /\ ClaimsAreExclusive /\ [SagaNext]_sagaVars => ClaimsAreExclusive'
  BY <1>2
<1>4. SagaInvariant /\ ClaimsAreExclusive /\ [SagaNext]_sagaVars
        => [\A i \in RowsIn("PUBLISHED") : outbox'[i].status = "PUBLISHED"]_outboxVars
  BY <1>2
<1> QED
  BY <1>1, <1>3, <1>4, SagaInvariantHolds, PTL DEF SagaSpec, PublishedIsFinal

\* The consumer's context stays clean in the saga as it does alone.
LEMMA SagaSavesOne ==
    ASSUME "save_error" \notin Faults, SagaInvariant, SavesOne, [SagaNext]_sagaVars
    PROVE  SavesOne'
<1>1. CASE UserStep
  BY <1>1, SavesOneStep DEF SagaInvariant, UserInvariant
<1>2. CASE UNCHANGED userVars
  <2>1. KafkaTypeOK' /\ \A t \in Topics : Published(t) \subseteq Published(t)'
    BY ServicesStep DEF SagaInvariant, OrderInvariant, OrderServiceTypeOK
  <2> QED
    BY <1>2, <2>1, UserUndisturbed DEF SagaInvariant, UserInvariant
<1> QED
  BY <1>1, <1>2 DEF SagaNext, sagaVars

\* Goods and money in the saga: no unit of stock and no coin is lost or made,
\* and no order is paid for twice, or paid for and declined, over all
\* interleavings of the three services.
THEOREM SagaConservesGoodsAndMoney ==
    ASSUME CommitsSucceed, MaxPasswords = 0
    PROVE  SagaSpec => [](StockConserved /\ WalletConserved /\ OnePaymentOutcome)
<1>1. SagaInit => SavesOne /\ WalletsInStep
  BY UserInvariantsInit DEF SagaInit, UserServiceInit, WalletInvariant, OneOutcomeInvariant
<1>2. ASSUME SagaInvariant, SavesOne, WalletsInStep, [SagaNext]_sagaVars
      PROVE  SavesOne' /\ WalletsInStep'
  <2>1. SavesOne'
    BY <1>2, SagaSavesOne DEF CommitsSucceed
  <2>2. CASE UserStep
    BY <1>2, <2>1, <2>2, WalletStep DEF SagaInvariant, UserInvariant
  <2>3. CASE UNCHANGED userVars
    <3>1. KafkaTypeOK' /\ \A t \in Topics : Published(t) \subseteq Published(t)'
      BY <1>2, ServicesStep DEF SagaInvariant, OrderInvariant, OrderServiceTypeOK
    <3> QED
      BY <1>2, <2>1, <2>3, <3>1, UserUndisturbed DEF SagaInvariant, UserInvariant
  <2> QED
    BY <1>2, <2>2, <2>3 DEF SagaNext, sagaVars
<1>3. SagaInvariant /\ SavesOne /\ WalletsInStep /\ [SagaNext]_sagaVars
        => SavesOne' /\ WalletsInStep'
  BY <1>2
<1>4. SagaInvariant /\ SavesOne /\ WalletsInStep
        => StockConserved /\ WalletConserved /\ OnePaymentOutcome
  BY OneRowIsOneOutcome DEF SagaInvariant, ProductInvariant, SavesOne, WalletsInStep
<1> QED
  BY <1>1, <1>3, <1>4, SagaInvariantHolds, PTL DEF SagaSpec

----------------------------------------------------------------------------
(***************************************************************************)
(* The refinement: one step of a service moves at most one order to the    *)
(* next phase.                                                             *)
(***************************************************************************)
\* Paid and declined orders have been answered, so they were reserved.
LEMMA DecidedIsReserved ==
    ASSUME SagaInvariant, NEW o \in Paid \cup Declined
    PROVE  reversal[o] # "none"
<1>1. o \in Answered
  BY DEF Paid, Declined, Outcomes, Answered
<1> QED
  BY <1>1 DEF SagaInvariant, Origins, AnsweredIsReserved

\* An order that moves along Progress alone is a step of the abstract fulfilment.
LEMMA PhaseMoves ==
    ASSUME NEW o \in Orders, NEW to \in Orderly!Phases,
           <<phaseOf[o], to>> \in Orderly!Progress, phaseOf'[o] = to,
           \A x \in Orders \ {o} : phaseOf'[x] = phaseOf[x]
    PROVE  Orderly!FulfilmentNext
<1>1. phaseOf' = [phaseOf EXCEPT ![o] = to]
  <2>1. phaseOf = [x \in Orders |-> phaseOf[x]] /\ phaseOf' = [x \in Orders |-> phaseOf'[x]]
    BY DEF phaseOf
  <2> QED
    BY <2>1
<1> QED
  BY <1>1 DEF Orderly!FulfilmentNext

\* Phases are made of reservations and payment outcomes.
LEMMA PhasesStay ==
    ASSUME reversal' = reversal, Paid' = Paid, Declined' = Declined
    PROVE  phaseOf' = phaseOf
BY DEF phaseOf

\* Reserving or releasing stock is a step of the abstract fulfilment.
LEMMA ReversalIsProgress ==
    ASSUME SagaInvariant, OnePaymentOutcome, Paid' = Paid, Declined' = Declined,
           NEW o \in Orders, NEW to \in {"REVERSED", "RELEASED"}, ReversalStep(o, to)
    PROVE  Orderly!FulfilmentNext
<1>1. reversal'[o] = to /\ \A x \in Orders \ {o} : reversal'[x] = reversal[x]
  BY DEF ReversalStep, SagaInvariant, ProductInvariant, ProductServiceTypeOK, ProductTypeOK,
         StockTypeOK
<1>2. \A x \in Orders \ {o} : phaseOf'[x] = phaseOf[x]
  BY <1>1 DEF phaseOf
<1>3. CASE reversal[o] = "none" /\ to = "REVERSED"
  <2>1. o \notin Paid \cup Declined
    BY <1>3, DecidedIsReserved
  <2>2. phaseOf[o] = "open"
    BY <1>3, <2>1 DEF phaseOf
  <2>3. phaseOf'[o] = "held"
    BY <1>1, <1>3, <2>1 DEF phaseOf
  <2> QED
    BY <1>2, <2>2, <2>3, PhaseMoves DEF Orderly!Phases, Orderly!Progress
<1>4. CASE reversal[o] = "REVERSED" /\ to = "RELEASED" /\ o \in Published("payment.fail")
  <2>1. o \in Declined /\ o \notin Paid
    BY <1>4 DEF SagaInvariant, Origins, PaymentsHaveRows, OnePaymentOutcome
  <2>2. phaseOf[o] = "declined"
    BY <1>4, <2>1 DEF phaseOf
  <2>3. phaseOf'[o] = "released"
    BY <1>1, <1>4, <2>1 DEF phaseOf
  <2> QED
    BY <1>2, <2>2, <2>3, PhaseMoves DEF Orderly!Phases, Orderly!Progress
<1> QED
  BY <1>3, <1>4 DEF ReversalStep

\* Deciding the payment of a reserved order is a step of the abstract fulfilment.
LEMMA PaymentIsProgress ==
    ASSUME SagaInvariant, reversal' = reversal, NEW o \in Orders, NEW t \in PaymentTopics,
           o \in Published("stock.reduction.success"), ~PaymentAlreadyHandled(o), NewOutcome(t, o)
    PROVE  Orderly!FulfilmentNext
<1>1. o \notin Paid \cup Declined
  BY HandledIsDecided DEF SagaInvariant, UserInvariant, UserServiceTypeOK
<1>2. reversal[o] = "REVERSED"
  <2>1. reversal[o] \in {"none", "REVERSED", "RELEASED"}
    BY DEF SagaInvariant, ProductInvariant, ProductServiceTypeOK, ProductTypeOK, StockTypeOK
  <2> QED
    BY <1>1, <2>1 DEF SagaInvariant, Origins, AnnouncedIsReserved, ReleasedIsDeclined
<1>3. /\ Paid' = IF t = "payment.success" THEN Paid \cup {o} ELSE Paid
      /\ Declined' = IF t = "payment.fail" THEN Declined \cup {o} ELSE Declined
  BY NewOutcomeCounts
<1>4. \A x \in Orders \ {o} : phaseOf'[x] = phaseOf[x]
  BY <1>3 DEF phaseOf
<1>5. phaseOf[o] = "held"
  BY <1>1, <1>2 DEF phaseOf
<1>6. CASE t = "payment.success"
  <2>1. phaseOf'[o] = "paid"
    BY <1>1, <1>2, <1>3, <1>6 DEF phaseOf
  <2> QED
    BY <1>4, <1>5, <2>1, PhaseMoves DEF Orderly!Phases, Orderly!Progress
<1>7. CASE t = "payment.fail"
  <2>1. phaseOf'[o] = "declined"
    BY <1>1, <1>2, <1>3, <1>7 DEF phaseOf
  <2> QED
    BY <1>4, <1>5, <2>1, PhaseMoves DEF Orderly!Phases, Orderly!Progress
<1> QED
  BY <1>6, <1>7 DEF PaymentTopics

\* Every step of the saga is a step of the abstract fulfilment or a stutter.
LEMMA FulfilmentStep ==
    ASSUME "save_error" \notin Faults, SagaInvariant, SavesOne, [SagaNext]_sagaVars
    PROVE  Orderly!FulfilmentNext \/ phaseOf' = phaseOf
<1>1. CASE UNCHANGED <<productVars, userVars>>
  <2>1. reversal' = reversal /\ userOutbox' = userOutbox
    BY <1>1 DEF productVars, stockVars, userVars, accountVars
  <2>2. Paid' = Paid /\ Declined' = Declined
    BY <2>1, OutcomesStay
  <2> QED
    BY <2>1, <2>2, PhasesStay
<1>2. CASE ProductStep /\ UNCHANGED <<orderVars, userVars>>
  <2>1. userOutbox' = userOutbox
    BY <1>2 DEF userVars, accountVars
  <2>2. Paid' = Paid /\ Declined' = Declined
    BY <2>1, OutcomesStay
  <2>3. OnePaymentOutcome
    BY OneRowIsOneOutcome DEF SavesOne
  <2>4. CASE reversal' = reversal
    BY <2>2, <2>4, PhasesStay
  <2>5. ASSUME NEW o \in Orders, NEW to \in {"REVERSED", "RELEASED"}, ReversalStep(o, to)
        PROVE  Orderly!FulfilmentNext
    BY <2>2, <2>3, <2>5, ReversalIsProgress
  <2> QED
    BY <1>2, <2>4, <2>5, ReversalMoves DEF SagaInvariant, ProductInvariant
<1>3. CASE UserStep /\ UNCHANGED <<orderVars, productVars>>
  <2>1. reversal' = reversal
    BY <1>3 DEF productVars, stockVars
  <2>2. CASE ~OnStockReduceSuccess
    <3>1. Paid' = Paid /\ Declined' = Declined
      BY <1>3, <2>2, OtherUserSteps, OutcomesStay DEF SagaInvariant, UserInvariant
    <3> QED
      BY <2>1, <3>1, PhasesStay
  <2>3. CASE OnStockReduceSuccess
    <3>1. UserServiceTypeOK /\ KafkaTypeOK
      BY DEF SagaInvariant, UserInvariant, UserServiceTypeOK
    <3>2. PICK o \in Orders :
            o \in Published("stock.reduction.success") /\ CleanlyHandled(o, Customer[o])
      BY <2>3, <3>1, HandledCleanly, ConsumerEffect
    <3>3. CASE userOutbox' = userOutbox
      <4>1. Paid' = Paid /\ Declined' = Declined
        BY <3>3, OutcomesStay
      <4> QED
        BY <2>1, <4>1, PhasesStay
    <3>4. ASSUME NEW t \in PaymentTopics, ~PaymentAlreadyHandled(o), NewOutcome(t, o)
          PROVE  Orderly!FulfilmentNext
      BY <2>1, <3>2, <3>4, PaymentIsProgress
    <3>5. \/ userOutbox' = userOutbox
          \/ \E t \in PaymentTopics : ~PaymentAlreadyHandled(o) /\ NewOutcome(t, o)
      BY <3>2 DEF CleanlyHandled, Ignores, Skips, Forgets, accountVars, PaymentTopics
    <3> QED
      BY <3>3, <3>4, <3>5
  <2> QED
    BY <2>2, <2>3
<1> QED
  BY <1>1, <1>2, <1>3 DEF SagaNext, sagaVars

\* The three services together implement the fulfilment of orders: goods are
\* held before the customer pays, the customer pays or is declined once, and
\* the goods of declined orders and of no others go back, for any number of
\* orders and whatever is delivered twice, late or after a restart, while
\* SaveChanges succeeds.
THEOREM SagaImplementsFulfilment ==
    ASSUME "save_error" \notin Faults
    PROVE  SagaSpec => ImplementsFulfilment
<1>1. SagaInit => SavesOne /\ Orderly!FulfilmentInit
  <2> SUFFICES ASSUME SagaInit PROVE SavesOne /\ Orderly!FulfilmentInit
    OBVIOUS
  <2>1. SavesOne
    BY UserInvariantsInit DEF SagaInit, UserServiceInit, WalletInvariant, OneOutcomeInvariant
  <2>2. Paid = {} /\ Declined = {}
    BY DEF SagaInit, UserInit, Paid, Declined, Outcomes
  <2>3. \A o \in Orders : reversal[o] = "none"
    BY DEF SagaInit, ProductInit
  <2>4. \A o \in Orders : phaseOf[o] = "open"
    BY <2>2, <2>3 DEF phaseOf
  <2>5. phaseOf = [o \in Orders |-> phaseOf[o]]
    BY DEF phaseOf
  <2> QED
    BY <2>1, <2>4, <2>5 DEF Orderly!FulfilmentInit
<1>2. SagaInvariant /\ SavesOne /\ [SagaNext]_sagaVars => SavesOne'
  BY SagaSavesOne
<1>3. SagaInvariant /\ SavesOne /\ [SagaNext]_sagaVars => [Orderly!FulfilmentNext]_phaseOf
  BY FulfilmentStep
<1> QED
  BY <1>1, <1>2, <1>3, SagaInvariantHolds, PTL
     DEF SagaSpec, ImplementsFulfilment, Orderly!FulfilmentSpec
=============================================================================
