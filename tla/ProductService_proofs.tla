------------------------ MODULE ProductService_proofs ------------------------
(***************************************************************************)
(* What the product service guarantees for any catalogue, any carts and    *)
(* any number of publishers: types, that units of stock are neither lost   *)
(* nor made, that a reservation and its announcement are one, and that a   *)
(* row marked PUBLISHED has been published.                                *)
(***************************************************************************)
EXTENDS ProductService, Kafka_proofs

\* The topics the service reads and writes are topics of the broker.
LEMMA ProductTopicsAreTopics ==
    /\ {"order.created", "payment.fail", "stock.reduction.success", "stock.reduction.fail"} \subseteq Topics
    /\ \A t \in StockTopics : <<"stock-consumer-group", t>> \in Subscriptions
BY DEF Topics, StockTopics, Subscriptions

\* A cart asks for a number of units of every variant.
LEMMA QuantityIsNat ==
    ASSUME NEW o \in Orders, NEW v
    PROVE  Quantity(o, v) \in Nat
BY ProductAssumption DEF Quantity

----------------------------------------------------------------------------
(***************************************************************************)
(* The outbox.  A publisher changes the status and the attempts of rows,   *)
(* and never which event a row is.                                         *)
(***************************************************************************)
RowsKeepEvents ==
    /\ outbox' \in Seq(OutboxRows)
    /\ DOMAIN outbox' = DOMAIN outbox
    /\ \A i \in DOMAIN outbox :
        outbox'[i].order = outbox[i].order /\ outbox'[i].topic = outbox[i].topic

\* A tick rewrites the status of the rows it claims or puts back.
LEMMA TickEffect ==
    ASSUME OutboxTypeOK, NEW p \in Publishers, PublisherTick(p)
    PROVE  /\ RowsKeepEvents
           /\ claimed' \in [Publishers -> SUBSET (DOMAIN outbox')]
           /\ \A i \in DOMAIN outbox : outbox[i].status = "PUBLISHED" <=> outbox'[i].status = "PUBLISHED"
           /\ log' = log
<1>1. PICK stale \in SUBSET RowsIn("PROCESSING") :
          LET batch == OldestRows(RowsIn("PENDING") \cup stale, BatchSize)
          IN  /\ claimed' = [claimed EXCEPT ![p] = batch]
              /\ outbox' = [i \in DOMAIN outbox |->
                    IF i \in batch THEN [outbox[i] EXCEPT !.status = "PROCESSING"]
                    ELSE IF i \in stale THEN [outbox[i] EXCEPT !.status = "PENDING"]
                    ELSE outbox[i]]
  BY DEF PublisherTick
<1> DEFINE batch == OldestRows(RowsIn("PENDING") \cup stale, BatchSize)
<1>2. batch \subseteq DOMAIN outbox /\ \A i \in batch \cup stale : outbox[i].status # "PUBLISHED"
  BY DEF OldestRows, RowsIn
<1> HIDE DEF batch
<1>3. /\ claimed' = [claimed EXCEPT ![p] = batch]
      /\ outbox' = [i \in DOMAIN outbox |->
            IF i \in batch THEN [outbox[i] EXCEPT !.status = "PROCESSING"]
            ELSE IF i \in stale THEN [outbox[i] EXCEPT !.status = "PENDING"]
            ELSE outbox[i]]
  BY <1>1 DEF batch
<1>4. \A i \in DOMAIN outbox : outbox[i] \in OutboxRows
  BY RowOfTable DEF OutboxTypeOK
<1>5. \A i \in DOMAIN outbox :
        /\ outbox'[i] \in OutboxRows
        /\ outbox'[i].order = outbox[i].order /\ outbox'[i].topic = outbox[i].topic
        /\ outbox[i].status = "PUBLISHED" <=> outbox'[i].status = "PUBLISHED"
  BY <1>2, <1>3, <1>4 DEF OutboxRows
<1>6. outbox' \in [DOMAIN outbox -> OutboxRows]
  BY <1>3, <1>5
<1>7. outbox' \in Seq(OutboxRows) /\ DOMAIN outbox' = DOMAIN outbox
  BY <1>6, RewriteRows DEF OutboxTypeOK
<1>8. claimed' \in [Publishers -> SUBSET (DOMAIN outbox')]
  BY <1>2, <1>3, <1>7 DEF OutboxTypeOK
<1> QED
  BY <1>5, <1>7, <1>8 DEF RowsKeepEvents, PublisherTick

\* Working through a row changes that row at most.
PublishRowEffect(p, i) ==
    /\ i \in claimed[p] /\ i \in DOMAIN outbox /\ outbox[i] \in OutboxRows
    /\ DOMAIN outbox' = DOMAIN outbox
    /\ \A j \in DOMAIN outbox \ {i} : outbox'[j] = outbox[j]
    /\ outbox'[i] \in OutboxRows
    /\ outbox'[i].order = outbox[i].order /\ outbox'[i].topic = outbox[i].topic
    /\ outbox'[i].status = "PUBLISHED"
          => outbox[i].status = "PUBLISHED" \/ Publish(outbox[i].topic, outbox[i].order)
    /\ log' = log \/ Publish(outbox[i].topic, outbox[i].order)
    /\ \A x \in Publishers \ {p} : claimed'[x] = claimed[x]
    /\ claimed'[p] \subseteq claimed[p]
    /\ claimed'[p] = {} \/ i \notin claimed'[p]

\* A publisher marks its oldest claimed row PUBLISHED only when it has sent it, and
\* touches no other row.
LEMMA PublishRowEffectHolds ==
    ASSUME OutboxTypeOK, NEW p \in Publishers, PublishRow(p)
    PROVE  PublishRowEffect(p, Oldest(claimed[p])) /\ claimed' \in [Publishers -> SUBSET (DOMAIN outbox)]
<1> DEFINE i == Oldest(claimed[p])
<1>1. claimed[p] \subseteq DOMAIN outbox /\ DOMAIN outbox \subseteq Nat /\ claimed[p] # {}
  BY DEF OutboxTypeOK, PublishRow
<1>2. i \in claimed[p]
  BY <1>1, OldestIsMember
<1>3. i \in DOMAIN outbox /\ outbox[i] \in OutboxRows
  BY <1>1, <1>2, RowOfTable DEF OutboxTypeOK
<1>4. /\ \/ MarkPublished(i) /\ Publish(outbox[i].topic, outbox[i].order)
         \/ MarkRetry(i)
         \/ UNCHANGED outbox
      /\ log' = log \/ Publish(outbox[i].topic, outbox[i].order)
      /\ \/ claimed' = [claimed EXCEPT ![p] = claimed[p] \ {i}]
         \/ claimed' = [claimed EXCEPT ![p] = {}]
  BY DEF PublishRow
<1> HIDE DEF i
<1>5. /\ claimed' \in [Publishers -> SUBSET (DOMAIN outbox)]
      /\ \A x \in Publishers \ {p} : claimed'[x] = claimed[x]
      /\ claimed'[p] \subseteq claimed[p]
      /\ claimed'[p] = {} \/ i \notin claimed'[p]
  BY <1>4 DEF OutboxTypeOK
<1>6. /\ DOMAIN outbox' = DOMAIN outbox
      /\ \A j \in DOMAIN outbox \ {i} : outbox'[j] = outbox[j]
      /\ outbox'[i] \in OutboxRows
      /\ outbox'[i].order = outbox[i].order /\ outbox'[i].topic = outbox[i].topic
      /\ outbox'[i].status = "PUBLISHED"
            => outbox[i].status = "PUBLISHED" \/ Publish(outbox[i].topic, outbox[i].order)
  <2>1. CASE MarkPublished(i) /\ Publish(outbox[i].topic, outbox[i].order)
    BY <1>3, <2>1 DEF MarkPublished, OutboxRows
  <2>2. CASE MarkRetry(i)
    <3> DEFINE n == outbox[i].attempts + 1
               r == [outbox[i] EXCEPT !.attempts = n,
                                      !.status = IF n >= MaxAttempts THEN "FAILED" ELSE "PENDING"]
    <3>1. outbox' = [outbox EXCEPT ![i].attempts = n,
                                   ![i].status = IF n >= MaxAttempts THEN "FAILED" ELSE "PENDING"]
      BY <2>2 DEF MarkRetry
    <3>2. n \in Nat
      BY <1>3 DEF OutboxRows
    <3> HIDE DEF n
    <3>3. /\ DOMAIN outbox' = DOMAIN outbox /\ outbox'[i] = r
          /\ \A j \in DOMAIN outbox \ {i} : outbox'[j] = outbox[j]
      BY <1>3, <3>1
    <3>4. /\ r.order = outbox[i].order /\ r.topic = outbox[i].topic /\ r.attempts = n
          /\ r.status \in {"FAILED", "PENDING"}
      BY <1>3 DEF OutboxRows
    <3>5. r \in OutboxRows
      BY <1>3, <3>2 DEF OutboxRows
    <3> QED
      BY <3>3, <3>4, <3>5
  <2>3. CASE UNCHANGED outbox
    BY <1>3, <2>3
  <2> QED
    BY <1>4, <2>1, <2>2, <2>3
<1>7. PublishRowEffect(p, i)
  BY <1>2, <1>3, <1>4, <1>5, <1>6 DEF PublishRowEffect
<1> QED
  BY <1>5, <1>7 DEF i

\* No publisher changes which events there are, nor the logs but by adding
\* to them.
LEMMA OutboxStepEffect ==
    ASSUME KafkaTypeOK, OutboxTypeOK, OutboxStep
    PROVE  /\ RowsKeepEvents /\ KafkaTypeOK' /\ OutboxTypeOK'
           /\ \A t \in Topics : Published(t) \subseteq Published(t)'
<1>1. PICK p \in Publishers : PublisherTick(p) \/ PublishRow(p)
  BY DEF OutboxStep
<1>2. faults' \in 0..MaxFaults
  <2>1. NoFault \/ \E k \in FaultKinds : Fault(k)
    BY <1>1 DEF PublisherTick, PublishRow, FaultKinds
  <2> QED
    BY <2>1, FaultCounted DEF KafkaTypeOK
<1>3. position' = position /\ committed' = committed
  BY <1>1 DEF PublisherTick, PublishRow
<1>4. CASE PublisherTick(p)
  BY <1>2, <1>3, <1>4, TickEffect DEF KafkaTypeOK, OutboxTypeOK, RowsKeepEvents, Published
<1>5. CASE PublishRow(p)
  <2> DEFINE i == Oldest(claimed[p])
  <2>1. PublishRowEffect(p, i) /\ claimed' \in [Publishers -> SUBSET (DOMAIN outbox)]
    BY <1>5, PublishRowEffectHolds
  <2> HIDE DEF i
  <2>2. outbox' \in Seq(OutboxRows)
    <3> DEFINE r == outbox'[i]
    <3>1. r \in OutboxRows /\ i \in DOMAIN outbox
      BY <2>1 DEF PublishRowEffect
    <3>2. \A j \in DOMAIN outbox : outbox[j] \in OutboxRows
      BY RowOfTable DEF OutboxTypeOK
    <3>3. outbox' = [outbox EXCEPT ![i] = r] \/ outbox' = outbox
      BY <1>5, <2>1 DEF PublishRow, MarkPublished, MarkRetry, PublishRowEffect, i
    <3> HIDE DEF r
    <3> QED
      BY <3>1, <3>3, UpdateRow DEF OutboxTypeOK
  <2>3. RowsKeepEvents
    BY <2>1, <2>2 DEF RowsKeepEvents, PublishRowEffect
  <2>4. outbox[i].topic \in Topics /\ outbox[i].order \in Orders
    BY <2>1, ProductTopicsAreTopics DEF PublishRowEffect, OutboxRows
  <2>5. log' \in [Topics -> Seq(Orders)] /\ \A t \in Topics : Published(t) \subseteq Published(t)'
    <3>1. CASE log' = log
      BY <3>1 DEF Published, KafkaTypeOK
    <3>2. CASE Publish(outbox[i].topic, outbox[i].order)
      BY <2>4, <3>2, PublishGrows DEF KafkaTypeOK
    <3> QED
      BY <2>1, <3>1, <3>2 DEF PublishRowEffect
  <2> QED
    BY <1>2, <1>3, <2>1, <2>2, <2>3, <2>5 DEF KafkaTypeOK, OutboxTypeOK, RowsKeepEvents
<1> QED
  BY <1>1, <1>4, <1>5

----------------------------------------------------------------------------
(***************************************************************************)
(* The listeners.                                                          *)
(***************************************************************************)
\* What a listener's new outbox row looks like.
NewRow(t, o) == [order |-> o, topic |-> t, status |-> "PENDING", attempts |-> 0]

\* The record a listener handles.
OrderRecord   == Record(<<"stock-consumer-group", "order.created">>)
PaymentRecord == Record(<<"stock-consumer-group", "payment.fail">>)

\* Inserting a row keeps the table typed and what was claimed.
LEMMA EnqueueEffect ==
    ASSUME OutboxTypeOK, NEW o \in Orders,
           NEW t \in {"stock.reduction.success", "stock.reduction.fail"}, Enqueue(t, o)
    PROVE  /\ NewRow(t, o) \in OutboxRows
           /\ outbox' \in Seq(OutboxRows)
           /\ DOMAIN outbox' = DOMAIN outbox \cup {Len(outbox) + 1}
           /\ Len(outbox) + 1 \notin DOMAIN outbox
           /\ \A i \in DOMAIN outbox : outbox'[i] = outbox[i]
           /\ outbox'[Len(outbox) + 1] = NewRow(t, o)
<1>1. NewRow(t, o) \in OutboxRows
  BY DEF NewRow, OutboxRows
<1>2. outbox' = Append(outbox, NewRow(t, o)) /\ outbox \in Seq(OutboxRows)
  BY DEF Enqueue, NewRow, OutboxTypeOK
<1> QED
  BY <1>1, <1>2, InsertRow

\* The order.created listener reserves, refuses, or leaves everything as it is.
LEMMA OrderCreatedEffect ==
    ASSUME KafkaTypeOK, OnOrderCreated
    PROVE  /\ OrderRecord \in Orders /\ OrderRecord \in Published("order.created")
           /\ \/ UNCHANGED <<stockVars, outbox>>
              \/ /\ reversal[OrderRecord] = "none" /\ ReserveOutcome(OrderRecord) = "served"
                 /\ Reserve(OrderRecord)
              \/ reversal[OrderRecord] = "none" /\ Refuse(OrderRecord)
           /\ KafkaTypeOK' /\ UNCHANGED <<log, claimed>>
<1> DEFINE s == <<"stock-consumer-group", "order.created">>
<1>1. s \in Subscriptions /\ s[2] \in Topics /\ s[2] = "order.created"
  BY ProductTopicsAreTopics DEF StockTopics
<1>2. HasRecord(s)
  BY DEF OnOrderCreated
<1>3. Record(s) \in Orders /\ Record(s) \in Published("order.created")
  BY <1>1, <1>2, RecordIsPublished
<1>4. log' = log /\ claimed' = claimed
  BY DEF OnOrderCreated
<1>5. Done(s) \/ (NoFault /\ Skip(s)) \/ (\E k \in FaultKinds : Fault(k) /\ Skip(s))
  BY DEF OnOrderCreated, FaultKinds
<1> HIDE DEF s
<1>6. KafkaTypeOK'
  BY <1>1, <1>4, <1>5, DoneKeepsTypes
<1> QED
  BY <1>3, <1>4, <1>6 DEF OnOrderCreated, AlreadyReserved, OrderRecord, s

\* The payment.fail listener releases a reservation, or changes nothing.
LEMMA RollbackEffect ==
    ASSUME KafkaTypeOK, OnStockReductionRollback
    PROVE  /\ PaymentRecord \in Orders /\ PaymentRecord \in Published("payment.fail")
           /\ \/ UNCHANGED stockVars
              \/ reversal[PaymentRecord] = "REVERSED" /\ Release(PaymentRecord)
           /\ KafkaTypeOK' /\ UNCHANGED <<log, outboxVars>>
<1> DEFINE s == <<"stock-consumer-group", "payment.fail">>
<1>1. s \in Subscriptions /\ s[2] \in Topics /\ s[2] = "payment.fail"
  BY ProductTopicsAreTopics DEF StockTopics
<1>2. HasRecord(s)
  BY DEF OnStockReductionRollback
<1>3. Record(s) \in Orders /\ Record(s) \in Published("payment.fail")
  BY <1>1, <1>2, RecordIsPublished
<1>4. log' = log /\ UNCHANGED outboxVars
  BY DEF OnStockReductionRollback
<1>5. Done(s) \/ (NoFault /\ Skip(s)) \/ (\E k \in FaultKinds : Fault(k) /\ Skip(s))
  BY DEF OnStockReductionRollback, FaultKinds
<1> HIDE DEF s
<1>6. KafkaTypeOK'
  BY <1>1, <1>4, <1>5, DoneKeepsTypes
<1> QED
  BY <1>3, <1>4, <1>6 DEF OnStockReductionRollback, PaymentRecord, s

\* Every step of the service keeps the broker, the stock and the outbox typed,
\* and takes no record off a topic.
LEMMA ProductTypeStep ==
    ASSUME ProductServiceTypeOK, ProductStep
    PROVE  /\ ProductServiceTypeOK'
           /\ \A t \in Topics : Published(t) \subseteq Published(t)'
<1> USE DEF ProductServiceTypeOK, ProductTypeOK
<1>0. ASSUME log' = log PROVE \A t \in Topics : Published(t) \subseteq Published(t)'
  BY <1>0 DEF Published
<1>1. CASE OnOrderCreated
  <2> DEFINE o == OrderRecord
  <2>1. /\ o \in Orders /\ KafkaTypeOK' /\ log' = log /\ claimed' = claimed
        /\ \/ UNCHANGED <<stockVars, outbox>>
           \/ Reserve(o)
           \/ Refuse(o)
    BY <1>1, OrderCreatedEffect
  <2> HIDE DEF o
  <2>2. \A v : Quantity(o, v) \in Nat
    BY <2>1, QuantityIsNat
  <2>3. StockTypeOK'
    BY <2>1, <2>2 DEF Reserve, Refuse, StockTypeOK, stockVars
  <2>4. OutboxTypeOK'
    <3>1. CASE UNCHANGED outbox
      BY <2>1, <3>1 DEF OutboxTypeOK
    <3>2. CASE Enqueue("stock.reduction.success", o) \/ Enqueue("stock.reduction.fail", o)
      <4>1. outbox' \in Seq(OutboxRows) /\ DOMAIN outbox \subseteq DOMAIN outbox'
        BY <2>1, <3>2, EnqueueEffect
      <4> QED
        BY <2>1, <4>1 DEF OutboxTypeOK
    <3> QED
      BY <2>1, <3>1, <3>2 DEF Reserve, Refuse
  <2> QED
    BY <1>0, <2>1, <2>3, <2>4
<1>2. CASE OnStockReductionRollback
  <2> DEFINE o == PaymentRecord
  <2>1. /\ o \in Orders /\ KafkaTypeOK' /\ log' = log /\ UNCHANGED outboxVars
        /\ UNCHANGED stockVars \/ Release(o)
    BY <1>2, RollbackEffect
  <2> HIDE DEF o
  <2>2. \A v : Quantity(o, v) \in Nat
    BY <2>1, QuantityIsNat
  <2>3. StockTypeOK'
    BY <2>1, <2>2 DEF Release, StockTypeOK, stockVars
  <2> QED
    BY <1>0, <2>1, <2>3 DEF OutboxTypeOK, outboxVars
<1>3. CASE OutboxStep /\ UNCHANGED stockVars
  BY <1>3, OutboxStepEffect DEF StockTypeOK, stockVars
<1>4. ASSUME NEW p \in Publishers, ProductRestart(p)
      PROVE  ProductServiceTypeOK' /\ \A t \in Topics : Published(t) \subseteq Published(t)'
  <2>1. KafkaTypeOK' /\ log' = log
    BY <1>4, RestartKeepsTypes DEF ProductRestart
  <2> QED
    BY <1>0, <1>4, <2>1 DEF ProductRestart, StockTypeOK, OutboxTypeOK, stockVars
<1> QED
  BY <1>1, <1>2, <1>3, <1>4 DEF ProductStep

\* Only publishers publish, and that a row of the outbox.
LEMMA ProductPublishes ==
    ASSUME ProductServiceTypeOK, ProductStep
    PROVE  \/ log' = log
           \/ \E i \in DOMAIN outbox : Publish(outbox[i].topic, outbox[i].order)
<1>1. ASSUME NEW p \in Publishers, PublishRow(p)
      PROVE  log' = log \/ \E i \in DOMAIN outbox : Publish(outbox[i].topic, outbox[i].order)
  BY <1>1, PublishRowEffectHolds DEF PublishRowEffect, ProductServiceTypeOK, ProductTypeOK
<1> QED
  BY <1>1 DEF ProductStep, OnOrderCreated, OnStockReductionRollback, OutboxStep, PublisherTick,
              ProductRestart, Restart

----------------------------------------------------------------------------
\* A reservation and its announcement are written together, and neither is
\* taken back.
LEMMA AnnouncedStep ==
    ASSUME ProductServiceTypeOK, ReservedIffAnnounced, ProductStep
    PROVE  ReservedIffAnnounced'
<1> USE DEF ProductServiceTypeOK, ProductTypeOK
<1> DEFINE Before(o) == IF reversal[o] = "none" THEN Announcements(o) = {}
                        ELSE \E i \in DOMAIN outbox : Announcements(o) = {i}
           After(o) == IF reversal'[o] = "none" THEN Announcements(o)' = {}
                       ELSE \E i \in DOMAIN outbox' : Announcements(o)' = {i}
<1>1. \A o \in Orders : Before(o)
  BY DEF ReservedIffAnnounced
<1>2. ASSUME DOMAIN outbox' = DOMAIN outbox,
             \A i \in DOMAIN outbox :
                outbox'[i].order = outbox[i].order /\ outbox'[i].topic = outbox[i].topic
      PROVE  \A o \in Orders : Announcements(o)' = Announcements(o)
  BY <1>2 DEF Announcements
<1>3. CASE OnOrderCreated
  <2> DEFINE n == Len(outbox) + 1
  <2>1. PICK o \in Orders :
          \/ outbox' = outbox /\ reversal' = reversal
          \/ reversal[o] = "none" /\ Reserve(o)
          \/ reversal[o] = "none" /\ Refuse(o)
    BY <1>3, OrderCreatedEffect DEF stockVars
  <2>2. CASE outbox' = outbox /\ reversal' = reversal
    BY <2>2 DEF ReservedIffAnnounced, Announcements, stockVars
  <2>3. CASE reversal[o] = "none" /\ Reserve(o)
    <3>1. /\ DOMAIN outbox' = DOMAIN outbox \cup {n} /\ n \notin DOMAIN outbox
          /\ \A i \in DOMAIN outbox : outbox'[i] = outbox[i]
          /\ outbox'[n] = NewRow("stock.reduction.success", o)
      BY <2>1, <2>3, EnqueueEffect DEF Reserve
    <3>2. reversal' = [reversal EXCEPT ![o] = "REVERSED"] /\ reversal \in [Orders -> {"none", "REVERSED", "RELEASED"}]
      BY <2>3 DEF Reserve, StockTypeOK
    <3> HIDE DEF n
    <3>3. outbox'[n].order = o /\ outbox'[n].topic = "stock.reduction.success"
      BY <3>1 DEF NewRow
    <3>4. Announcements(o)' = {n} /\ \A x \in Orders \ {o} : Announcements(x)' = Announcements(x)
      <4>1. Announcements(o) = {}
        BY <1>1, <2>1, <2>3
      <4>2. \A i \in DOMAIN outbox : i \notin Announcements(o)
        BY <4>1
      <4>3. Announcements(o)' = {n}
        BY <3>1, <3>3, <4>2 DEF Announcements
      <4>4. ASSUME NEW x \in Orders \ {o} PROVE Announcements(x)' = Announcements(x)
        BY <3>1, <3>3 DEF Announcements
      <4> QED
        BY <4>3, <4>4
    <3>5. ASSUME NEW x \in Orders PROVE After(x)
      <4>1. CASE x = o
        <5>1. reversal'[o] = "REVERSED" /\ n \in DOMAIN outbox' /\ Announcements(o)' = {n}
          BY <2>1, <3>1, <3>2, <3>4
        <5>2. \E i \in DOMAIN outbox' : Announcements(o)' = {i}
          BY <5>1
        <5> QED
          BY <4>1, <5>1, <5>2
      <4>2. CASE x # o
        <5>1. reversal'[x] = reversal[x] /\ Announcements(x)' = Announcements(x) /\ Before(x)
          BY <1>1, <3>2, <3>4, <4>2
        <5> QED
          BY <3>1, <5>1
      <4> QED
        BY <4>1, <4>2
    <3> QED
      BY <3>5 DEF ReservedIffAnnounced
  <2>4. CASE Refuse(o)
    <3>1. /\ DOMAIN outbox' = DOMAIN outbox \cup {n} /\ n \notin DOMAIN outbox
          /\ \A i \in DOMAIN outbox : outbox'[i] = outbox[i]
          /\ outbox'[n] = NewRow("stock.reduction.fail", o)
      BY <2>1, <2>4, EnqueueEffect DEF Refuse
    <3> HIDE DEF n
    <3>2. outbox'[n].topic # "stock.reduction.success" /\ reversal' = reversal
      BY <2>4, <3>1 DEF NewRow, Refuse, stockVars
    <3>3. \A x \in Orders : Announcements(x)' = Announcements(x)
      BY <3>1, <3>2 DEF Announcements
    <3>4. \A x \in Orders : After(x)
      BY <1>1, <3>1, <3>2, <3>3
    <3> QED
      BY <3>4 DEF ReservedIffAnnounced
  <2> QED
    BY <2>1, <2>2, <2>3, <2>4
<1>4. CASE OnStockReductionRollback
  <2>1. outbox' = outbox /\ \A x \in Orders : reversal'[x] = "none" <=> reversal[x] = "none"
    BY <1>4, RollbackEffect DEF Release, StockTypeOK, stockVars, outboxVars
  <2>2. \A x \in Orders : After(x)
    BY <1>1, <1>2, <2>1
  <2> QED
    BY <2>2 DEF ReservedIffAnnounced
<1>5. CASE OutboxStep /\ UNCHANGED stockVars
  <2>1. /\ DOMAIN outbox' = DOMAIN outbox /\ reversal' = reversal
        /\ \A i \in DOMAIN outbox :
                outbox'[i].order = outbox[i].order /\ outbox'[i].topic = outbox[i].topic
    BY <1>5, OutboxStepEffect DEF RowsKeepEvents, stockVars
  <2>2. \A x \in Orders : After(x)
    BY <1>1, <1>2, <2>1
  <2> QED
    BY <2>2 DEF ReservedIffAnnounced
<1>6. ASSUME NEW p \in Publishers, ProductRestart(p) PROVE ReservedIffAnnounced'
  BY <1>6 DEF ProductRestart, ReservedIffAnnounced, Announcements, stockVars
<1> QED
  BY <1>3, <1>4, <1>5, <1>6 DEF ProductStep

\* markPublished comes after the broker's confirmation.
LEMMA OnTopicStep ==
    ASSUME ProductServiceTypeOK, OutboxPublishedIsOnTopic, ProductStep
    PROVE  OutboxPublishedIsOnTopic'
<1> USE DEF ProductServiceTypeOK, ProductTypeOK
<1>0. \A t \in Topics : Published(t) \subseteq Published(t)'
  BY ProductTypeStep
<1>1. \A i \in DOMAIN outbox : outbox[i] \in OutboxRows
  BY RowOfTable DEF OutboxTypeOK
<1>2. \A i \in DOMAIN outbox : outbox[i].topic \in Topics /\ outbox[i].order \in Orders
  BY <1>1, ProductTopicsAreTopics DEF OutboxRows
<1>3. CASE UNCHANGED outbox
  BY <1>0, <1>2, <1>3 DEF OutboxPublishedIsOnTopic, RowsIn
<1>4. CASE OnOrderCreated
  <2>1. PICK o \in Orders : UNCHANGED outbox \/ Reserve(o) \/ Refuse(o)
    BY <1>4, OrderCreatedEffect
  <2>2. CASE Reserve(o) \/ Refuse(o)
    <3>1. PICK t \in {"stock.reduction.success", "stock.reduction.fail"} : Enqueue(t, o)
      BY <2>2 DEF Reserve, Refuse
    <3>2. /\ DOMAIN outbox' = DOMAIN outbox \cup {Len(outbox) + 1}
          /\ \A i \in DOMAIN outbox : outbox'[i] = outbox[i]
          /\ outbox'[Len(outbox) + 1] = NewRow(t, o)
      BY <3>1, EnqueueEffect
    <3>3. NewRow(t, o).status # "PUBLISHED"
      BY DEF NewRow
    <3> QED
      BY <1>0, <1>2, <3>2, <3>3 DEF OutboxPublishedIsOnTopic, RowsIn
  <2> QED
    BY <1>3, <2>1, <2>2
<1>5. ASSUME NEW p \in Publishers, PublisherTick(p) PROVE OutboxPublishedIsOnTopic'
  <2>1. RowsKeepEvents /\ \A i \in DOMAIN outbox : outbox[i].status = "PUBLISHED" <=> outbox'[i].status = "PUBLISHED"
    BY <1>5, TickEffect
  <2> QED
    BY <1>0, <1>2, <2>1 DEF RowsKeepEvents, OutboxPublishedIsOnTopic, RowsIn
<1>6. ASSUME NEW p \in Publishers, PublishRow(p) PROVE OutboxPublishedIsOnTopic'
  <2> DEFINE i == Oldest(claimed[p])
  <2>1. PublishRowEffect(p, i)
    BY <1>6, PublishRowEffectHolds
  <2> HIDE DEF i
  <2>2. i \in DOMAIN outbox
    BY <2>1 DEF PublishRowEffect
  <2>3. PICK t \in Topics, o \in Orders : t = outbox[i].topic /\ o = outbox[i].order
    BY <1>2, <2>2
  <2>4. ASSUME outbox'[i].status = "PUBLISHED" PROVE o \in Published(t)'
    <3>1. outbox[i].status = "PUBLISHED" \/ Publish(t, o)
      BY <2>1, <2>3, <2>4 DEF PublishRowEffect
    <3>2. CASE Publish(t, o)
      <4>1. log \in [Topics -> Seq(Orders)]
        BY DEF KafkaTypeOK
      <4> QED
        BY <3>2, <4>1, PublishGrows
    <3>3. CASE outbox[i].status = "PUBLISHED"
      <4>1. o \in Published(t)
        BY <2>2, <2>3, <3>3 DEF OutboxPublishedIsOnTopic, RowsIn
      <4> QED
        BY <1>0, <4>1
    <3> QED
      BY <3>1, <3>2, <3>3
  <2>5. ASSUME NEW j \in RowsIn("PUBLISHED")'
        PROVE  (outbox[j].order \in Published(outbox[j].topic))'
    <3>1. j \in DOMAIN outbox /\ outbox'[j].status = "PUBLISHED"
      BY <2>1 DEF RowsIn, PublishRowEffect
    <3>2. CASE j = i
      <4>1. outbox'[j].order = o /\ outbox'[j].topic = t
        BY <2>1, <2>3, <3>2 DEF PublishRowEffect
      <4> QED
        BY <2>4, <3>1, <3>2, <4>1
    <3>3. CASE j # i
      <4>1. outbox'[j] = outbox[j]
        BY <2>1, <3>1, <3>3 DEF PublishRowEffect
      <4>2. PICK x \in Topics, y \in Orders : x = outbox[j].topic /\ y = outbox[j].order
        BY <1>2, <3>1
      <4>3. y \in Published(x)
        BY <3>1, <4>1, <4>2 DEF OutboxPublishedIsOnTopic, RowsIn
      <4>4. y \in Published(x)' /\ outbox'[j].topic = x /\ outbox'[j].order = y
        BY <1>0, <4>1, <4>2, <4>3
      <4> QED
        BY <4>4
    <3> QED
      BY <3>2, <3>3
  <2> QED
    BY <2>5 DEF OutboxPublishedIsOnTopic
<1> QED
  BY <1>3, <1>4, <1>5, <1>6 DEF ProductStep, OnStockReductionRollback, OutboxStep, ProductRestart, outboxVars

----------------------------------------------------------------------------
(***************************************************************************)
(* The stock.  The units a reservation holds are a finite set, disjoint    *)
(* from every other reservation's, so that they can be counted.            *)
(***************************************************************************)
UnitsOf(o, v) == {o} \X (1..Quantity(o, v))

\* An order's units of a variant are as many as its cart asks for.
LEMMA UnitsCounted ==
    ASSUME NEW o \in Orders, NEW v
    PROVE  IsFiniteSet(UnitsOf(o, v)) /\ Cardinality(UnitsOf(o, v)) = Quantity(o, v)
BY QuantityIsNat, CountedUnits DEF UnitsOf

\* A cart that is served asks for no more than there is.
LEMMA ServedIsInStock ==
    ASSUME StockTypeOK, NEW o \in Orders, ReserveOutcome(o) = "served", NEW v \in Variants
    PROVE  stock[v] - Quantity(o, v) >= 0 \/ Quantity(o, v) = 0
<1>1. Unserved(o) = {}
  <2>1. SUFFICES ASSUME Unserved(o) # {} PROVE FALSE
    OBVIOUS
  <2>2. DOMAIN Cart[o] \subseteq Nat
    BY ShopAssumption
  <2>3. Oldest(Unserved(o)) \in Unserved(o)
    BY <2>1, <2>2, OldestIsMember DEF Unserved
  <2>4. ServeItem(o, Oldest(Unserved(o))) # "served"
    BY <2>3 DEF Unserved
  <2> QED
    BY <2>1, <2>4 DEF ReserveOutcome
<1>2. CASE \E k \in DOMAIN Cart[o] : Cart[o][k].variant = v
  <2> DEFINE k == CHOOSE k \in DOMAIN Cart[o] : Cart[o][k].variant = v
  <2>1. k \in DOMAIN Cart[o] /\ Cart[o][k].variant = v
    BY <1>2
  <2>2. Quantity(o, v) = Cart[o][k].quantity
    BY <1>2 DEF Quantity
  <2> HIDE DEF k
  <2>3. ServeItem(o, k) = "served"
    BY <1>1, <2>1 DEF Unserved
  <2>4. Earlier(o, k) = {} /\ ~(Left(o, k) < Cart[o][k].quantity)
    BY <2>3 DEF ServeItem
  <2>5. Left(o, k) = stock[v] - 0
    BY <2>1, <2>4 DEF Left
  <2>6. stock[v] \in Int /\ Quantity(o, v) \in Nat
    BY QuantityIsNat DEF StockTypeOK
  <2> QED
    BY <2>2, <2>4, <2>5, <2>6
<1>3. CASE ~\E k \in DOMAIN Cart[o] : Cart[o][k].variant = v
  BY <1>3 DEF Quantity
<1> QED
  BY <1>2, <1>3

\* What StockConserved needs to be inductive: the units held can be counted.
HeldIsFinite == \A v \in Variants : IsFiniteSet(HeldUnits(v))

\* Taking an order's units, when it holds none.
LEMMA HoldMore ==
    ASSUME NEW o \in Orders, o \notin Held, Held' = Held \cup {o}, NEW v
    PROVE  HeldUnits(v)' = HeldUnits(v) \cup UnitsOf(o, v) /\ HeldUnits(v) \cap UnitsOf(o, v) = {}
BY DEF HeldUnits, UnitsOf

\* Giving them back.
LEMMA HoldLess ==
    ASSUME NEW o \in Orders, o \in Held, Held' = Held \ {o}, NEW v
    PROVE  HeldUnits(v) = HeldUnits(v)' \cup UnitsOf(o, v) /\ HeldUnits(v)' \cap UnitsOf(o, v) = {}
BY DEF HeldUnits, UnitsOf

\* Units move between the stock and the reservations, and nowhere else.
LEMMA ConservedStep ==
    ASSUME ProductServiceTypeOK, HeldIsFinite, StockConserved, ProductStep
    PROVE  HeldIsFinite' /\ StockConserved'
<1> USE DEF ProductServiceTypeOK, ProductTypeOK
<1>1. CASE stock' = stock /\ reversal' = reversal
  BY <1>1 DEF HeldIsFinite, StockConserved, HeldUnits, Held
<1>2. ASSUME NEW o \in Orders, reversal[o] = "none", ReserveOutcome(o) = "served", Reserve(o)
      PROVE  HeldIsFinite' /\ StockConserved'
  <2>1. o \notin Held /\ Held' = Held \cup {o}
    BY <1>2 DEF Held, Reserve, StockTypeOK
  <2>2. ASSUME NEW v \in Variants
        PROVE  /\ IsFiniteSet(HeldUnits(v)')
               /\ stock'[v] + Cardinality(HeldUnits(v)') = InitialStock[v] /\ stock'[v] >= 0
    <3>1. HeldUnits(v)' = HeldUnits(v) \cup UnitsOf(o, v) /\ HeldUnits(v) \cap UnitsOf(o, v) = {}
      BY <2>1, HoldMore
    <3>2. IsFiniteSet(HeldUnits(v)) /\ IsFiniteSet(UnitsOf(o, v))
      BY UnitsCounted DEF HeldIsFinite
    <3>3. /\ IsFiniteSet(HeldUnits(v)') /\ Cardinality(HeldUnits(v)) \in Nat
          /\ Cardinality(HeldUnits(v)') = Cardinality(HeldUnits(v)) + Cardinality(UnitsOf(o, v))
      BY <3>1, <3>2, CountDisjoint
    <3>4. Cardinality(UnitsOf(o, v)) = Quantity(o, v) /\ Quantity(o, v) \in Nat
      BY UnitsCounted, QuantityIsNat
    <3>5. stock'[v] = stock[v] - Quantity(o, v) /\ stock[v] \in Int
      BY <1>2 DEF Reserve, StockTypeOK
    <3>6. stock[v] + Cardinality(HeldUnits(v)) = InitialStock[v] /\ stock[v] >= 0
      BY DEF StockConserved
    <3>7. stock[v] - Quantity(o, v) >= 0 \/ Quantity(o, v) = 0
      BY <1>2, ServedIsInStock
    <3> QED
      BY <3>3, <3>4, <3>5, <3>6, <3>7
  <2> QED
    BY <2>2 DEF HeldIsFinite, StockConserved
<1>3. ASSUME NEW o \in Orders, reversal[o] = "REVERSED", Release(o)
      PROVE  HeldIsFinite' /\ StockConserved'
  <2>1. o \in Held /\ Held' = Held \ {o}
    BY <1>3 DEF Held, Release, StockTypeOK
  <2>2. ASSUME NEW v \in Variants
        PROVE  /\ IsFiniteSet(HeldUnits(v)')
               /\ stock'[v] + Cardinality(HeldUnits(v)') = InitialStock[v] /\ stock'[v] >= 0
    <3>1. HeldUnits(v) = HeldUnits(v)' \cup UnitsOf(o, v) /\ HeldUnits(v)' \cap UnitsOf(o, v) = {}
      BY <2>1, HoldLess
    <3>2. IsFiniteSet(HeldUnits(v)') /\ IsFiniteSet(UnitsOf(o, v))
      BY <3>1, UnitsCounted, FS_Subset DEF HeldIsFinite
    <3>3. /\ Cardinality(HeldUnits(v)') \in Nat
          /\ Cardinality(HeldUnits(v)) = Cardinality(HeldUnits(v)') + Cardinality(UnitsOf(o, v))
      BY <3>1, <3>2, CountDisjoint
    <3>4. Cardinality(UnitsOf(o, v)) = Quantity(o, v) /\ Quantity(o, v) \in Nat
      BY UnitsCounted, QuantityIsNat
    <3>5. stock'[v] = stock[v] + Quantity(o, v) /\ stock[v] \in Int
      BY <1>3 DEF Release, StockTypeOK
    <3>6. stock[v] + Cardinality(HeldUnits(v)) = InitialStock[v] /\ stock[v] >= 0
      BY DEF StockConserved
    <3> QED
      BY <3>2, <3>3, <3>4, <3>5, <3>6
  <2> QED
    BY <2>2 DEF HeldIsFinite, StockConserved
<1>4. CASE OnOrderCreated
  <2>1. PICK o \in Orders :
          \/ stock' = stock /\ reversal' = reversal
          \/ reversal[o] = "none" /\ ReserveOutcome(o) = "served" /\ Reserve(o)
    <3>1. OrderRecord \in Orders
      BY <1>4, OrderCreatedEffect
    <3>2. \/ stock' = stock /\ reversal' = reversal
          \/ /\ reversal[OrderRecord] = "none" /\ ReserveOutcome(OrderRecord) = "served"
             /\ Reserve(OrderRecord)
      BY <1>4, OrderCreatedEffect DEF Refuse, stockVars
    <3>3. PICK o \in Orders : o = OrderRecord
      BY <3>1
    <3> QED
      BY <3>2, <3>3 DEF Reserve, Enqueue
  <2> QED
    BY <1>1, <1>2, <2>1
<1>5. CASE OnStockReductionRollback
  <2>1. PICK o \in Orders :
          \/ stock' = stock /\ reversal' = reversal
          \/ reversal[o] = "REVERSED" /\ Release(o)
    <3>1. PaymentRecord \in Orders
      BY <1>5, RollbackEffect
    <3>2. \/ stock' = stock /\ reversal' = reversal
          \/ reversal[PaymentRecord] = "REVERSED" /\ Release(PaymentRecord)
      BY <1>5, RollbackEffect DEF stockVars
    <3>3. PICK o \in Orders : o = PaymentRecord
      BY <3>1
    <3> QED
      BY <3>2, <3>3 DEF Release
  <2> QED
    BY <1>1, <1>3, <2>1
<1> QED
  BY <1>1, <1>4, <1>5 DEF ProductStep, ProductRestart, stockVars

----------------------------------------------------------------------------
(***************************************************************************)
(* Claims.  While no publisher is slower than the stale limit, the rows a  *)
(* publisher works on are PROCESSING and nobody else's.                    *)
(***************************************************************************)
ClaimsAreExclusive ==
    /\ \A p \in Publishers : \A i \in claimed[p] : outbox[i].status = "PROCESSING"
    /\ \A p, q \in Publishers : p # q => claimed[p] \cap claimed[q] = {}

\* A publisher claims rows that nobody works on, and gives up those it leaves.
LEMMA ClaimsStep ==
    ASSUME ProductServiceTypeOK, ClaimsAreExclusive, ProductStep, "slow_publisher" \notin Faults
    PROVE  /\ ClaimsAreExclusive'
           /\ \A i \in RowsIn("PUBLISHED") : outbox'[i].status = "PUBLISHED"
<1> USE DEF ProductServiceTypeOK, ProductTypeOK
<1>0. \A p \in Publishers : claimed[p] \subseteq DOMAIN outbox
  BY DEF OutboxTypeOK
<1>1. ASSUME \A i \in DOMAIN outbox : outbox'[i] = outbox[i],
             \A p \in Publishers : claimed'[p] \subseteq claimed[p]
      PROVE  /\ ClaimsAreExclusive'
             /\ \A i \in RowsIn("PUBLISHED") : outbox'[i].status = "PUBLISHED"
  BY <1>0, <1>1 DEF ClaimsAreExclusive, RowsIn
<1>2. CASE OnOrderCreated
  <2>1. PICK o \in Orders : outbox' = outbox \/ Reserve(o) \/ Refuse(o)
    BY <1>2, OrderCreatedEffect
  <2>2. \A i \in DOMAIN outbox : outbox'[i] = outbox[i]
    <3>1. CASE outbox' = outbox
      BY <3>1
    <3>2. CASE Reserve(o) \/ Refuse(o)
      BY <3>2, EnqueueEffect DEF Reserve, Refuse
    <3> QED
      BY <2>1, <3>1, <3>2
  <2>3. claimed' = claimed
    BY <1>2, OrderCreatedEffect
  <2> QED
    BY <1>1, <2>2, <2>3
<1>3. CASE OnStockReductionRollback
  BY <1>1, <1>3 DEF OnStockReductionRollback, outboxVars
<1>4. ASSUME NEW p \in Publishers, ProductRestart(p)
      PROVE  /\ ClaimsAreExclusive'
             /\ \A i \in RowsIn("PUBLISHED") : outbox'[i].status = "PUBLISHED"
  <2>1. \A q \in Publishers : claimed'[q] \subseteq claimed[q]
    BY <1>4 DEF ProductRestart, OutboxTypeOK
  <2> QED
    BY <1>1, <1>4, <2>1 DEF ProductRestart
<1>5. ASSUME NEW p \in Publishers, PublisherTick(p)
      PROVE  /\ ClaimsAreExclusive'
             /\ \A i \in RowsIn("PUBLISHED") : outbox'[i].status = "PUBLISHED"
  <2>1. PICK stale \in SUBSET RowsIn("PROCESSING") :
            /\ stale \cap InProgress = {}
            /\ LET batch == OldestRows(RowsIn("PENDING") \cup stale, BatchSize)
               IN  /\ claimed' = [claimed EXCEPT ![p] = batch]
                   /\ outbox' = [i \in DOMAIN outbox |->
                         IF i \in batch THEN [outbox[i] EXCEPT !.status = "PROCESSING"]
                         ELSE IF i \in stale THEN [outbox[i] EXCEPT !.status = "PENDING"]
                         ELSE outbox[i]]
    BY <1>5 DEF PublisherTick, Fault
  <2> DEFINE batch == OldestRows(RowsIn("PENDING") \cup stale, BatchSize)
  <2>2. batch \subseteq RowsIn("PENDING") \cup stale
    BY DEF OldestRows
  <2> HIDE DEF batch
  <2>3. /\ claimed' = [claimed EXCEPT ![p] = batch]
        /\ outbox' = [i \in DOMAIN outbox |->
              IF i \in batch THEN [outbox[i] EXCEPT !.status = "PROCESSING"]
              ELSE IF i \in stale THEN [outbox[i] EXCEPT !.status = "PENDING"]
              ELSE outbox[i]]
    BY <2>1 DEF batch
  <2>4. \A q \in Publishers \ {p} : claimed'[q] = claimed[q] /\ claimed[q] \cap (batch \cup stale) = {}
    BY <2>1, <2>2, <2>3 DEF ClaimsAreExclusive, InProgress, RowsIn, OutboxTypeOK
  <2>5. claimed'[p] = batch /\ batch \subseteq DOMAIN outbox
    BY <2>2, <2>3 DEF RowsIn, OutboxTypeOK
  <2>6. \A i \in batch : outbox'[i].status = "PROCESSING"
    <3>1. \A i \in DOMAIN outbox : outbox[i] \in OutboxRows
      BY RowOfTable DEF OutboxTypeOK
    <3> QED
      BY <2>3, <2>5, <3>1 DEF OutboxRows
  <2>7. \A i \in DOMAIN outbox \ (batch \cup stale) : outbox'[i] = outbox[i]
    BY <2>3
  <2>8. \A q \in Publishers : \A i \in claimed'[q] : outbox'[i].status = "PROCESSING"
    <3> SUFFICES ASSUME NEW q \in Publishers, NEW i \in claimed'[q] PROVE outbox'[i].status = "PROCESSING"
      OBVIOUS
    <3>1. CASE q = p
      BY <2>5, <2>6, <3>1
    <3>2. CASE q # p
      BY <1>0, <2>4, <2>7, <3>2 DEF ClaimsAreExclusive
    <3> QED
      BY <3>1, <3>2
  <2>9. \A q, x \in Publishers : q # x => claimed'[q] \cap claimed'[x] = {}
    BY <2>4, <2>5 DEF ClaimsAreExclusive
  <2>10. \A i \in RowsIn("PUBLISHED") : outbox'[i].status = "PUBLISHED"
    BY <2>2, <2>7 DEF RowsIn
  <2> QED
    BY <2>8, <2>9, <2>10 DEF ClaimsAreExclusive
<1>6. ASSUME NEW p \in Publishers, PublishRow(p)
      PROVE  /\ ClaimsAreExclusive'
             /\ \A i \in RowsIn("PUBLISHED") : outbox'[i].status = "PUBLISHED"
  <2> DEFINE i == Oldest(claimed[p])
  <2>1. PublishRowEffect(p, i)
    BY <1>6, PublishRowEffectHolds
  <2> HIDE DEF i
  <2>2. outbox[i].status = "PROCESSING"
    BY <2>1 DEF PublishRowEffect, ClaimsAreExclusive
  <2>3. \A q \in Publishers : claimed'[q] \subseteq claimed[q] /\ i \notin claimed'[q]
    BY <2>1 DEF PublishRowEffect, ClaimsAreExclusive
  <2>4. \A j \in DOMAIN outbox \ {i} : outbox'[j] = outbox[j]
    BY <2>1 DEF PublishRowEffect
  <2> QED
    BY <1>0, <2>2, <2>3, <2>4 DEF ClaimsAreExclusive, RowsIn
<1> QED
  BY <1>2, <1>3, <1>4, <1>5, <1>6 DEF ProductStep, OutboxStep

----------------------------------------------------------------------------
(***************************************************************************)
(* The inductive invariant of the service in its environment.  Conserved   *)
(* stock is counted, so it needs the units held to be finite; the outbox's *)
(* rows need the types.                                                    *)
(***************************************************************************)
ProductInvariant ==
    /\ ProductServiceTypeOK
    /\ HeldIsFinite
    /\ StockConserved
    /\ ReservedIffAnnounced
    /\ OutboxPublishedIsOnTopic

\* A fresh database, empty topics and idle publishers satisfy the invariant.
LEMMA ProductInvariantInit == ProductServiceInit => ProductInvariant
<1> SUFFICES ASSUME ProductServiceInit PROVE ProductInvariant
  OBVIOUS
<1> USE DEF ProductServiceInit, ProductInit, OutboxInit
<1>1. KafkaTypeOK
  BY FaultsAssumption DEF KafkaInit, KafkaTypeOK
<1>2. ProductTypeOK
  BY ProductAssumption DEF ProductTypeOK, StockTypeOK, OutboxTypeOK
<1>3. \A v : HeldUnits(v) = {}
  BY DEF HeldUnits, Held
<1>4. IsFiniteSet({}) /\ Cardinality({}) = 0
  BY FS_EmptySet
<1>5. HeldIsFinite
  BY <1>3, <1>4 DEF HeldIsFinite
<1>6. StockConserved
  <2>1. ASSUME NEW v \in Variants
        PROVE  stock[v] \in Nat /\ stock[v] = InitialStock[v] /\ Cardinality(HeldUnits(v)) = 0
    BY <1>3, <1>4, ProductAssumption
  <2> QED
    BY <2>1 DEF StockConserved
<1>7. ReservedIffAnnounced /\ OutboxPublishedIsOnTopic
  BY DEF ReservedIffAnnounced, Announcements, OutboxPublishedIsOnTopic, RowsIn
<1> QED
  BY <1>1, <1>2, <1>5, <1>6, <1>7 DEF ProductInvariant, ProductServiceTypeOK

\* The rest of the invariant is about the service's own state: it holds on
\* as long as that stays and no record is lost.
LEMMA ProductUndisturbed ==
    ASSUME ProductInvariant, UNCHANGED productVars, KafkaTypeOK',
           \A t \in Topics : Published(t) \subseteq Published(t)'
    PROVE  ProductInvariant'
<1> USE DEF productVars, stockVars, outboxVars
<1>1. ProductServiceTypeOK'
  BY DEF ProductInvariant, ProductServiceTypeOK, ProductTypeOK, StockTypeOK, OutboxTypeOK
<1>2. HeldIsFinite' /\ StockConserved' /\ ReservedIffAnnounced'
  BY DEF ProductInvariant, HeldIsFinite, StockConserved, HeldUnits, Held,
         ReservedIffAnnounced, Announcements
<1>3. \A i \in DOMAIN outbox : outbox[i].topic \in Topics
  <2>1. \A i \in DOMAIN outbox : outbox[i] \in OutboxRows
    BY RowOfTable DEF ProductInvariant, ProductServiceTypeOK, ProductTypeOK, OutboxTypeOK
  <2> QED
    BY <2>1 DEF OutboxRows, Topics
<1>4. OutboxPublishedIsOnTopic'
  BY <1>3 DEF ProductInvariant, OutboxPublishedIsOnTopic, RowsIn
<1> QED
  BY <1>1, <1>2, <1>4 DEF ProductInvariant

\* Other services publish orders to the topics the listeners read.
LEMMA ProductEnvironmentStep ==
    ASSUME ProductInvariant, ProductEnvironment
    PROVE  ProductInvariant'
<1>0. KafkaTypeOK
  BY DEF ProductInvariant, ProductServiceTypeOK
<1>1. Published("stock.reduction.success") \subseteq Orders
  <2>1. log["stock.reduction.success"] \in Seq(Orders)
    BY <1>0, ProductTopicsAreTopics DEF KafkaTypeOK
  <2> QED
    BY <2>1, RowOfTable DEF Published
<1>2. PICK t \in Topics, o \in Orders :
          Publish(t, o) /\ UNCHANGED <<position, committed, faults, productVars>>
  BY <1>1, ProductTopicsAreTopics DEF ProductEnvironment
<1>3. /\ log' \in [Topics -> Seq(Orders)]
      /\ \A x \in Topics : Published(x) \subseteq Published(x)'
  BY <1>0, <1>2, PublishGrows DEF KafkaTypeOK
<1>4. KafkaTypeOK'
  BY <1>0, <1>2, <1>3 DEF KafkaTypeOK
<1>5. UNCHANGED productVars
  BY <1>2
<1> QED
  BY <1>3, <1>4, <1>5, ProductUndisturbed

\* The invariant survives every step of the service and of its environment.
LEMMA ProductInvariantNext ==
    ProductInvariant /\ [ProductServiceNext]_productServiceVars => ProductInvariant'
<1> SUFFICES ASSUME ProductInvariant, [ProductServiceNext]_productServiceVars
             PROVE  ProductInvariant'
  OBVIOUS
<1>1. CASE ProductStep
  BY <1>1, ProductTypeStep, ConservedStep, AnnouncedStep, OnTopicStep DEF ProductInvariant
<1>2. CASE ProductEnvironment
  BY <1>2, ProductEnvironmentStep
<1>3. CASE UNCHANGED productServiceVars
  <2>1. KafkaTypeOK' /\ \A t \in Topics : Published(t) \subseteq Published(t)'
    BY <1>3 DEF ProductInvariant, ProductServiceTypeOK, KafkaTypeOK, Published,
                productServiceVars, kafkaVars
  <2>2. UNCHANGED productVars
    BY <1>3 DEF productServiceVars
  <2> QED
    BY <2>1, <2>2, ProductUndisturbed
<1> QED
  BY <1>1, <1>2, <1>3 DEF ProductServiceNext

\* So it holds in every reachable state.
LEMMA ProductInvariantHolds == ProductServiceSpec => []ProductInvariant
BY ProductInvariantInit, ProductInvariantNext, PTL DEF ProductServiceSpec

\* The product service's state and its view of the broker stay typed.
THEOREM ProductServiceTypes == ProductServiceSpec => []ProductServiceTypeOK
<1>1. ProductInvariant => ProductServiceTypeOK
  BY DEF ProductInvariant
<1> QED
  BY <1>1, ProductInvariantHolds, PTL

\* Whatever order.created and payment.fail records arrive, in whatever order
\* and however often, and whatever handlers, commits or processes fail: the
\* units in stock and the units reservations hold are those there were, and
\* no variant is ever oversold.
THEOREM StockIsConserved == ProductServiceSpec => []StockConserved
<1>1. ProductInvariant => StockConserved
  BY DEF ProductInvariant
<1> QED
  BY <1>1, ProductInvariantHolds, PTL

\* reserveStock and the outbox row it writes are one: an order that has ever
\* been reserved has exactly one announcement, and no other order has any.
THEOREM ReservationsAreAnnounced == ProductServiceSpec => []ReservedIffAnnounced
<1>1. ProductInvariant => ReservedIffAnnounced
  BY DEF ProductInvariant
<1> QED
  BY <1>1, ProductInvariantHolds, PTL

\* For any number of publisher instances, slow ones and failing ones
\* included, a row is marked PUBLISHED only once its event is on the topic.
THEOREM PublishedRowsAreOnTopic == ProductServiceSpec => []OutboxPublishedIsOnTopic
<1>1. ProductInvariant => OutboxPublishedIsOnTopic
  BY DEF ProductInvariant
<1> QED
  BY <1>1, ProductInvariantHolds, PTL
=============================================================================
