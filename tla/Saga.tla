-------------------------------- MODULE Saga --------------------------------
(***************************************************************************)
(* The order saga: the three services running side by side and talking     *)
(* through the broker only.  The user service's GetOrder call reads the    *)
(* order's customer and total, which never change.                         *)
(***************************************************************************)
EXTENDS OrderService, ProductService, UserService

sagaVars == <<kafkaVars, orderVars, productVars, userVars>>

SagaInit == KafkaInit /\ OrderInit /\ ProductInit /\ UserInit

SagaNext ==
    \/ OrderStep   /\ UNCHANGED <<productVars, userVars>>
    \/ ProductStep /\ UNCHANGED <<orderVars, userVars>>
    \/ UserStep    /\ UNCHANGED <<orderVars, productVars>>

\* Every loop of every service goes on: dispatchers poll, consumers consume.
\* Clients owe nothing, and nothing has to fail.
SagaFairness ==
    /\ WF_sagaVars(FlushBegin /\ UNCHANGED <<productVars, userVars>>)
    /\ WF_sagaVars(FlushRow /\ UNCHANGED <<productVars, userVars>>)
    /\ \A t \in OrderTopics :
        WF_sagaVars(HandleMessage(t) /\ UNCHANGED <<productVars, userVars>>)
    /\ WF_sagaVars(OnOrderCreated /\ UNCHANGED <<orderVars, userVars>>)
    /\ WF_sagaVars(OnStockReductionRollback /\ UNCHANGED <<orderVars, userVars>>)
    /\ WF_sagaVars(OutboxStep /\ UNCHANGED <<stockVars, orderVars, userVars>>)
    /\ WF_sagaVars(OnStockReduceSuccess /\ UNCHANGED <<orderVars, productVars>>)
    /\ WF_sagaVars((DispatchBegin \/ DispatchRow \/ DispatchSave)
                        /\ UNCHANGED <<orderVars, productVars>>)

SagaSpec == SagaInit /\ [][SagaNext]_sagaVars /\ SagaFairness

----------------------------------------------------------------------------
\* Where the goods and the money of an order are.
phaseOf == [o \in Orders |->
    CASE reversal[o] = "RELEASED"                     -> "released"
      [] reversal[o] # "RELEASED" /\ o \in Declined    -> "declined"
      [] reversal[o] # "RELEASED" /\ o \in Paid \ Declined -> "paid"
      [] reversal[o] = "REVERSED" /\ o \notin Paid \cup Declined -> "held"
      [] OTHER                                         -> "open"]

Orderly == INSTANCE Fulfilment WITH phase <- phaseOf

\* Across the three services and whatever is delivered twice or late, goods
\* and money move only as the abstract specification allows.  Holds while
\* SaveChanges succeeds.
ImplementsFulfilment == Orderly!FulfilmentSpec

\* Every payment.fail record finds the reservation it is to undo: the
\* rollback listener never throws.
RollbackFindsReservation ==
    \A o \in Published("payment.fail") : reversal[o] # "none"

\* What the order service shows is what the other services did.
StatusIsTrue ==
    \A o \in Orders :
        /\ orderStatus[o] \in {"inventory_reserved", "payment_completed", "payment_failed"}
               => reversal[o] # "none"
        /\ orderStatus[o] = "payment_completed" => o \in Paid
        /\ orderStatus[o] = "payment_failed" => o \in Declined

Refused(o) == \E i \in DOMAIN outbox : outbox[i].order = o
                                          /\ outbox[i].topic = "stock.reduction.fail"

\* The goods and the money of an order have found their final place.
Concluded(o) ==
    \/ reversal[o] = "none" /\ Refused(o)
    \/ reversal[o] = "REVERSED" /\ o \in Paid
    \/ reversal[o] = "RELEASED" /\ o \in Declined

\* The record of o on topic t has had its effect.
Handled(o, t) ==
    CASE t = "order.created"           -> reversal[o] # "none" \/ Refused(o)
      [] t = "stock.reduction.success" -> o \in Paid \cup Declined
      [] t = "payment.fail"            -> reversal[o] = "RELEASED"
      [] OTHER                         -> TRUE

\* A group that had committed nothing resumed at the end of a topic, behind a
\* record of o.
Overlooked(o) ==
    \E s \in Subscriptions :
        /\ s[1] \in LatestReset /\ committed[s] = 0
        /\ \E k \in 1..position[s] : log[s[2]][k] = o
        /\ ~Handled(o, s[2])

\* The reservation of o is due and the out-of-stock trigger would raise.
FindsLastUnits(o) ==
    LET s == <<"stock-consumer-group", "order.created">>
    IN  /\ HasRecord(s) /\ Record(s) = o
        /\ ~AlreadyReserved(o) /\ ReserveOutcome(o) = "broken"

\* Every order is concluded, and stays so, unless a group that starts again
\* before its first commit leaves a record of it behind (auto.offset.reset is
\* latest) or its turn comes when it would take the last units of a variant.
\* Holds while no handler fails and no row fails too often to be published.
EveryOrderConcluded ==
    \A o \in Orders :
        \/ <>(Overlooked(o) \/ FindsLastUnits(o))
        \/ orderStatus[o] # "none" ~> []Concluded(o)

\* Every paid order is shown as paid.  docs/interviewer-project-presentation.md,
\* "The order reaches a completed or payment-completed state".
PaidIsShown ==
    \A o \in Orders : o \in Paid ~> orderStatus[o] \in {"payment_completed", "completed"}
=============================================================================
