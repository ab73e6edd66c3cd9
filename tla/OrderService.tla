---------------------------- MODULE OrderService ----------------------------
(***************************************************************************)
(* The Go order service: the CreateOrder call, the outbox dispatcher that  *)
(* publishes order.created, and the consumer of the four events the other  *)
(* services answer with.                                                   *)
(*                                                                         *)
(* The dispatcher and the consumer are one goroutine each, so a flush      *)
(* works through the batch it read one row at a time while everything else *)
(* goes on, and records are handled one after the other.  UpdateStatus     *)
(* reads and writes the order without a transaction; the consumer is the   *)
(* only writer of a status, so with one process the pair is atomic.        *)
(***************************************************************************)
EXTENDS Shop

CONSTANTS
    OrderBatch,   \* rows one flush reads at most
    MaxLog        \* bound: records the environment may put on one topic

VARIABLES
    orderStatus,  \* orders.status, "none" before the order exists
    orderOutbox,  \* outbox_events, oldest first: the order and whether it is processed
    orderBatch    \* rows the running flush has still to publish

orderVars == <<orderStatus, orderOutbox, orderBatch>>

ASSUME OrderAssumption == OrderBatch \in Nat \ {0} /\ MaxLog \in Nat

\* The statuses of the schema; the service itself sets five of them.
OrderStatuses == {"none", "created", "pending_inventory", "inventory_reserved",
                  "inventory_reserved_failed", "payment_pending", "payment_completed",
                  "payment_failed", "shipping", "completed"}

OutboxEvents == [order : Orders, processed : BOOLEAN]

Unprocessed == {i \in DOMAIN orderOutbox : ~orderOutbox[i].processed}

OrderTypeOK ==
    /\ orderStatus \in [Orders -> OrderStatuses]
    /\ orderOutbox \in Seq(OutboxEvents)
    /\ orderBatch \subseteq Unprocessed

OrderInit ==
    /\ orderStatus = [o \in Orders |-> "none"]
    /\ orderOutbox = <<>>
    /\ orderBatch = {}

----------------------------------------------------------------------------
(***************************************************************************)
(* CreateOrder.  A request that is not valid is answered with an error and *)
(* leaves no trace.  The order, its items and the outbox row are written   *)
(* in one transaction.                                                     *)
(***************************************************************************)
ValidItem(item) ==
    /\ item.variant \in Variants
    /\ SalePrice[item.variant] = item.unitPrice
    /\ item.quantity > 0

ValidRequest(o) ==
    /\ Cart[o] # <<>>
    /\ \A k \in DOMAIN Cart[o] : ValidItem(Cart[o][k])

CreateOrder(o) ==
    /\ orderStatus[o] = "none"
    /\ ValidRequest(o)
    /\ orderStatus' = [orderStatus EXCEPT ![o] = "created"]
    /\ orderOutbox' = Append(orderOutbox, [order |-> o, processed |-> FALSE])
    /\ UNCHANGED <<orderBatch, kafkaVars>>

----------------------------------------------------------------------------
(***************************************************************************)
(* The outbox dispatcher.  A flush reads the oldest unprocessed rows, then *)
(* publishes each and marks it processed; an error on one row is logged    *)
(* and the row waits for a later flush.                                    *)
(***************************************************************************)
\* Mutant: a flush reads rows that are processed, too.
FlushBeginAll ==
    /\ orderBatch = {}
    /\ orderOutbox # <<>>
    /\ orderBatch' = OldestRows(DOMAIN orderOutbox, OrderBatch)
    /\ UNCHANGED <<orderStatus, orderOutbox, kafkaVars>>

FlushBegin ==
    /\ orderBatch = {}
    /\ Unprocessed # {}
    /\ orderBatch' = OldestRows(Unprocessed, OrderBatch)
    /\ UNCHANGED <<orderStatus, orderOutbox, kafkaVars>>

MarkOutboxProcessed(i) == orderOutbox' = [orderOutbox EXCEPT ![i].processed = TRUE]

\* Mutant: the row is marked whether or not the broker took its event.
FlushRowMarksAlways ==
    /\ orderBatch # {}
    /\ LET i == Oldest(orderBatch)
       IN  /\ orderBatch' = orderBatch \ {i}
           /\ MarkOutboxProcessed(i)
           /\ \/ NoFault /\ Publish("order.created", orderOutbox[i].order)
              \/ Fault("publish_error") /\ UNCHANGED log
    /\ UNCHANGED <<orderStatus, position, committed>>

FlushRow ==
    /\ orderBatch # {}
    /\ LET i == Oldest(orderBatch)
           publish == Publish("order.created", orderOutbox[i].order)
       IN  /\ orderBatch' = orderBatch \ {i}
           /\ \/ NoFault /\ publish /\ MarkOutboxProcessed(i)
              \/ Fault("ack_lost") /\ publish /\ UNCHANGED orderOutbox
              \/ Fault("publish_error") /\ UNCHANGED <<log, orderOutbox>>
    /\ UNCHANGED <<orderStatus, position, committed>>

----------------------------------------------------------------------------
(***************************************************************************)
(* The consumer.  An event moves the order on only from the status it      *)
(* expects; an event that comes too early or too late is acknowledged and  *)
(* forgotten.  A handler error is logged and the consumer goes on, without *)
(* committing, to the next record.                                         *)
(***************************************************************************)
\* Mutant: the current status is not compared.
UpdateStatusUnguarded(o, target, expected) ==
    orderStatus' = [orderStatus EXCEPT ![o] = target]

UpdateStatus(o, target, expected) ==
    orderStatus' = IF orderStatus[o] = expected
                   THEN [orderStatus EXCEPT ![o] = target]
                   ELSE orderStatus

\* Mutant: stock events wait for the status they are to bring about.
HandleStockEventTooLate(o, isSuccess) ==
    UpdateStatus(o, IF isSuccess THEN "inventory_reserved"
                                 ELSE "inventory_reserved_failed", "inventory_reserved")

HandleStockEvent(o, isSuccess) ==
    UpdateStatus(o, IF isSuccess THEN "inventory_reserved"
                                 ELSE "inventory_reserved_failed", "created")

\* Mutant: the flag is taken the wrong way round.
HandlePaymentEventInverted(o, isSuccess) ==
    UpdateStatus(o, IF isSuccess THEN "payment_failed"
                                 ELSE "payment_completed", "inventory_reserved")

HandlePaymentEvent(o, isSuccess) ==
    UpdateStatus(o, IF isSuccess THEN "payment_completed"
                                 ELSE "payment_failed", "inventory_reserved")

HandleMessage(t) ==
    LET s == <<"order-service-group", t>>
        o == Record(s)
    IN  /\ HasRecord(s)
        /\ \/ /\ orderStatus[o] # "none"
              /\ CASE t = "stock.reduction.success" -> HandleStockEvent(o, TRUE)
                   [] t = "stock.reduction.fail"    -> HandleStockEvent(o, FALSE)
                   [] t = "payment.success"         -> HandlePaymentEvent(o, TRUE)
                   [] t = "payment.fail"            -> HandlePaymentEvent(o, FALSE)
              /\ Done(s)
           \/ /\ IF orderStatus[o] = "none" THEN NoFault   \* order not found
                                             ELSE Fault("handler_error")
              /\ Skip(s)
              /\ UNCHANGED orderStatus
        /\ UNCHANGED <<log, orderOutbox, orderBatch>>

OrderRestart ==
    /\ Restart("order-service-group")
    /\ orderBatch' = {}
    /\ UNCHANGED <<orderStatus, orderOutbox>>

OrderStep ==
    \/ \E o \in Orders : CreateOrder(o)
    \/ FlushBegin
    \/ FlushRow
    \/ \E t \in OrderTopics : HandleMessage(t)
    \/ OrderRestart

----------------------------------------------------------------------------
(***************************************************************************)
(* The service on its own, in an environment that answers an order.created *)
(* event with any of the four events, any number of times (up to MaxLog)   *)
(* and in any order.                                                       *)
(***************************************************************************)
OrderEnvironment ==
    \E t \in OrderTopics, o \in Published("order.created") :
        /\ Len(log[t]) < MaxLog
        /\ Publish(t, o)
        /\ UNCHANGED <<position, committed, faults, orderVars>>

OrderServiceInit == KafkaInit /\ OrderInit
OrderServiceNext == OrderStep \/ OrderEnvironment
orderServiceVars == <<kafkaVars, orderVars>>

OrderServiceSpec == OrderServiceInit /\ [][OrderServiceNext]_orderServiceVars

----------------------------------------------------------------------------
\* Types of the service and the broker; the running flush has only rows that
\* are still to be published.
OrderServiceTypeOK == KafkaTypeOK /\ OrderTypeOK

Lifecycle == INSTANCE OrderLifecycle WITH status <- orderStatus

\* Whatever arrives, and in whatever order, a status only moves along the
\* lifecycle (expectedCurrent in UpdateStatus).
ImplementsLifecycle == Lifecycle!LifecycleSpec

\* A row is marked processed only after its event is on the topic: a flush
\* that fails half way never loses an order.
ProcessedWasPublished ==
    \A i \in DOMAIN orderOutbox :
        orderOutbox[i].processed => orderOutbox[i].order \in Published("order.created")

\* A status is backed by the events that lead to it.
StatusJustified ==
    \A o \in Orders :
        /\ orderStatus[o] \in {"inventory_reserved", "payment_completed", "payment_failed"}
               => o \in Published("stock.reduction.success")
        /\ orderStatus[o] = "inventory_reserved_failed" => o \in Published("stock.reduction.fail")
        /\ orderStatus[o] = "payment_completed" => o \in Published("payment.success")
        /\ orderStatus[o] = "payment_failed" => o \in Published("payment.fail")

\* A stock event below the committed offset has been applied: its order is
\* no longer waiting for one.  Holds while no handler fails; when one does,
\* the next record's commit covers the event that was not applied.
CommittedStockEventsApplied ==
    \A t \in {"stock.reduction.success", "stock.reduction.fail"} :
        \A i \in 1..committed[<<"order-service-group", t>>] :
            orderStatus[log[t][i]] # "created"
=============================================================================
