--------------------------- MODULE ProductService ---------------------------
(***************************************************************************)
(* The Kotlin product service's part in the saga: the listener that        *)
(* reserves stock for order.created, the one that gives it back for        *)
(* payment.fail, and the outbox they answer through.  Each listener is a   *)
(* consumer of its own; their database transactions are atomic.            *)
(***************************************************************************)
EXTENDS KafkaOutbox, Integers

CONSTANTS
    InitialStock, \* InitialStock[v]: units of v at the start
    MaxEvents     \* bound: records the environment may put on one topic

VARIABLES
    stock,        \* variants.stock
    reversal      \* stock_reversals.status by order, "none" where no row exists

stockVars == <<stock, reversal>>
productVars == <<stockVars, outboxVars>>

ASSUME ProductAssumption ==
    /\ InitialStock \in [Variants -> Nat]
    /\ \A o \in Orders : \A k \in DOMAIN Cart[o] : Cart[o][k].quantity \in Nat
    /\ MaxEvents \in Nat

StockTypeOK ==
    /\ stock \in [Variants -> Int]
    /\ reversal \in [Orders -> {"none", "REVERSED", "RELEASED"}]

ProductTypeOK == StockTypeOK /\ OutboxTypeOK

ProductInit ==
    /\ stock = InitialStock
    /\ reversal = [o \in Orders |-> "none"]
    /\ OutboxInit

----------------------------------------------------------------------------
(***************************************************************************)
(* reserveStock works through the items in order inside one transaction,   *)
(* so the first item that cannot be served decides the outcome:            *)
(*   refused   no row has that variant with that price and enough stock    *)
(*             (IllegalArgumentException);                                 *)
(*   broken    the database raises: the out-of-stock trigger, whose        *)
(*             assignment does not evaluate, fires when the stock becomes  *)
(*             0, and a variant may stand only once in a reversal;         *)
(*   served    otherwise.                                                  *)
(***************************************************************************)
Earlier(o, k) == {j \in 1..(k - 1) : Cart[o][j].variant = Cart[o][k].variant}

\* Units of item k's variant left when the items before it have been served;
\* only the first item of a variant can have been.
Left(o, k) ==
    stock[Cart[o][k].variant]
        - (IF Earlier(o, k) = {} THEN 0 ELSE Cart[o][Oldest(Earlier(o, k))].quantity)

ServeItem(o, k) ==
    LET item == Cart[o][k]
    IN  IF item.variant \notin Variants THEN "refused"
        ELSE IF Left(o, k) < item.quantity \/ Price[item.variant] # item.unitPrice THEN "refused"
        ELSE IF Left(o, k) = item.quantity \/ Earlier(o, k) # {} THEN "broken"
        ELSE "served"

Unserved(o) == {k \in DOMAIN Cart[o] : ServeItem(o, k) # "served"}

ReserveOutcome(o) ==
    IF Cart[o] = <<>> THEN "refused"
    ELSE IF Unserved(o) = {} THEN "served"
    ELSE ServeItem(o, Oldest(Unserved(o)))

\* Units of variant v in the cart of o when every variant stands there once.
Quantity(o, v) ==
    IF \E k \in DOMAIN Cart[o] : Cart[o][k].variant = v
    THEN Cart[o][CHOOSE k \in DOMAIN Cart[o] : Cart[o][k].variant = v].quantity
    ELSE 0

\* Mutant: no reversal row is written.
ReserveUnrecorded(o) ==
    /\ stock' = [v \in Variants |-> stock[v] - Quantity(o, v)]
    /\ UNCHANGED reversal
    /\ Enqueue("stock.reduction.success", o)

\* The transaction of a reservation that serves every item.
Reserve(o) ==
    /\ stock' = [v \in Variants |-> stock[v] - Quantity(o, v)]
    /\ reversal' = [reversal EXCEPT ![o] = "REVERSED"]
    /\ Enqueue("stock.reduction.success", o)

\* Mutant: the refusal is only logged.
RefuseSilently(o) == UNCHANGED <<stockVars, outbox>>

\* Mutant: the refusal is announced as a reservation.
RefuseAsSuccess(o) ==
    /\ Enqueue("stock.reduction.success", o)
    /\ UNCHANGED stockVars

\* The IllegalArgumentException of a request that cannot be served.
Refuse(o) ==
    /\ Enqueue("stock.reduction.fail", o)
    /\ UNCHANGED stockVars

\* Mutant: only a reservation that still holds counts.
AlreadyReservedActive(o) == reversal[o] = "REVERSED"

AlreadyReserved(o) == reversal[o] # "none"

OnOrderCreated ==
    LET s == <<"stock-consumer-group", "order.created">>
        o == Record(s)
    IN  /\ HasRecord(s)
        /\ \/ /\ AlreadyReserved(o)
              /\ Done(s)
              /\ UNCHANGED <<stockVars, outbox>>
           \/ /\ ~AlreadyReserved(o) /\ ReserveOutcome(o) = "served"
              /\ Reserve(o)
              /\ Done(s)
           \/ /\ ~AlreadyReserved(o) /\ ReserveOutcome(o) = "refused"
              /\ Refuse(o)
              /\ Done(s)
           \/ /\ IF ~AlreadyReserved(o) /\ ReserveOutcome(o) = "broken"
                 THEN NoFault ELSE Fault("handler_error")
              /\ Skip(s)
              /\ UNCHANGED <<stockVars, outbox>>
        /\ UNCHANGED <<log, claimed>>

\* Mutant: the reversal row keeps its status.
ReleaseUnmarked(o) ==
    /\ stock' = [v \in Variants |-> stock[v] + Quantity(o, v)]
    /\ UNCHANGED reversal

\* releaseStock: give the units of a REVERSED reservation back, once.
Release(o) ==
    /\ stock' = [v \in Variants |-> stock[v] + Quantity(o, v)]
    /\ reversal' = [reversal EXCEPT ![o] = "RELEASED"]

OnStockReductionRollback ==
    LET s == <<"stock-consumer-group", "payment.fail">>
        o == Record(s)
    IN  /\ HasRecord(s)
        /\ \/ reversal[o] = "REVERSED" /\ Release(o) /\ Done(s)
           \/ reversal[o] = "RELEASED" /\ Done(s) /\ UNCHANGED stockVars
           \/ /\ IF reversal[o] = "none" THEN NoFault ELSE Fault("handler_error")
              /\ Skip(s)
              /\ UNCHANGED stockVars
        /\ UNCHANGED <<log, outboxVars>>

\* An instance dies: what it claimed is left behind, and the group reads on
\* from its committed offsets.
ProductRestart(p) ==
    /\ Restart("stock-consumer-group")
    /\ claimed' = [claimed EXCEPT ![p] = {}]
    /\ UNCHANGED <<stockVars, outbox>>

ProductStep ==
    \/ OnOrderCreated
    \/ OnStockReductionRollback
    \/ OutboxStep /\ UNCHANGED stockVars
    \/ \E p \in Publishers : ProductRestart(p)

----------------------------------------------------------------------------
(***************************************************************************)
(* The service on its own, in an environment that may announce any order   *)
(* any number of times (up to MaxEvents) and may decline the payment of    *)
(* any order whose reservation has been announced.                         *)
(***************************************************************************)
ProductEnvironment ==
    /\ \/ \E o \in Orders :
            Len(log["order.created"]) < MaxEvents /\ Publish("order.created", o)
       \/ \E o \in Published("stock.reduction.success") :
            Len(log["payment.fail"]) < MaxEvents /\ Publish("payment.fail", o)
    /\ UNCHANGED <<position, committed, faults, productVars>>

ProductServiceInit == KafkaInit /\ ProductInit
ProductServiceNext == ProductStep \/ ProductEnvironment
productServiceVars == <<kafkaVars, productVars>>

ProductServiceSpec ==
    /\ ProductServiceInit
    /\ [][ProductServiceNext]_productServiceVars
    /\ WF_productServiceVars(OnOrderCreated)
    /\ WF_productServiceVars(OnStockReductionRollback)
    /\ \A p \in Publishers :
        /\ WF_productServiceVars(PublisherTick(p) /\ UNCHANGED stockVars)
        /\ WF_productServiceVars(PublishRow(p) /\ UNCHANGED stockVars)

----------------------------------------------------------------------------
\* The type invariant of the broker, the stock and the outbox.
ProductServiceTypeOK == KafkaTypeOK /\ ProductTypeOK

Held == {o \in Orders : reversal[o] = "REVERSED"}

\* The units of v that reservations hold, one by one.
HeldUnits(v) == UNION {{o} \X (1..Quantity(o, v)) : o \in Held}

\* Units in stock and units held by reservations always add up to what was
\* there, and no more is ever held: redelivered events neither take units
\* twice nor give them back twice, and an order is served in full or not at
\* all.
StockConserved ==
    \A v \in Variants :
        /\ stock[v] + Cardinality(HeldUnits(v)) = InitialStock[v]
        /\ stock[v] >= 0

Announcements(o) ==
    {i \in DOMAIN outbox : outbox[i].order = o /\ outbox[i].topic = "stock.reduction.success"}

\* A reservation and its stock.reduction.success row come from one
\* transaction: there is one row for every reservation and none without.
ReservedIffAnnounced ==
    \A o \in Orders :
        IF reversal[o] = "none" THEN Announcements(o) = {}
        ELSE \E i \in DOMAIN outbox : Announcements(o) = {i}

\* An order.created record below the committed offset has been answered.
\* Holds while no handler fails, every cart can be served or refused, and no
\* restart before the first commit resumes at the end of the topic.
CommittedOrdersAnswered ==
    \A i \in 1..committed[<<"stock-consumer-group", "order.created">>] :
        \E j \in DOMAIN outbox : outbox[j].order = log["order.created"][i]

Answers(o) == {i \in DOMAIN outbox : outbox[i].order = o}

OnTopic(i) == outbox[i].order \in Published(outbox[i].topic)

\* Every answer, a reservation as well as a refusal, reaches its topic unless
\* publishing it was tried MaxAttempts times (markRetry): slow, failing and
\* dying publishers leave no row behind.
EveryAnswerPublished ==
    \A o \in Orders :
        Answers(o) # {} ~> \A i \in Answers(o) : OnTopic(i) \/ outbox[i].attempts >= MaxAttempts
=============================================================================
