------------------------- MODULE UserService_proofs -------------------------
(***************************************************************************)
(* What the user service guarantees for any users, wallets and orders:     *)
(* types (no wallet below zero), that a row is Sent only once its event is *)
(* published, that an order has one payment outcome, that wallets and      *)
(* payments add up, and that no reservation is passed over.                *)
(***************************************************************************)
EXTENDS UserService, Kafka_proofs

Entities == [Users -> UserRows \cup {NoRow}]

\* The subscription the consumer reads.
LEMMA UserSubscriptionIsOne ==
    /\ UserSubscription \in Subscriptions
    /\ UserSubscription[1] = "asp-user-group"
    /\ UserSubscription[2] = "stock.reduction.success"
    /\ "stock.reduction.success" \in Topics
    /\ PaymentTopics \subseteq Topics
BY DEF UserSubscription, Subscriptions, UserTopics, Topics, PaymentTopics

----------------------------------------------------------------------------
(***************************************************************************)
(* The consumer.  A record is ignored (a), declined (b), charged (c) or    *)
(* skipped (d); u is the order's customer.                                 *)
(***************************************************************************)
Reserved == Record(UserSubscription)

Loaded(u) == [tracked EXCEPT ![u] = Entity(u)]

Charged(o, u) == [Loaded(u) EXCEPT ![u].wallet = @ - Total(o)]

Ignores(o, u) ==
    /\ PaymentAlreadyHandled(o)
    /\ tracked' = tracked \/ (users[u] # NoRow /\ tracked' = Loaded(u))
    /\ Done(UserSubscription)
    /\ UNCHANGED <<accountVars, dirty, added>>

Declines(o, entities) ==
    /\ ~PaymentAlreadyHandled(o)
    /\ SaveAndCommit(entities, dirty, Append(added, NewMessage("payment.fail", o)))

Charges(o, u) ==
    /\ ~PaymentAlreadyHandled(o)
    /\ users[u] # NoRow
    /\ ~(Loaded(u)[u].wallet < Total(o))
    /\ SaveAndCommit(Charged(o, u), dirty \cup {u},
                     Append(added, NewMessage("payment.success", o)))

Skips ==
    /\ Fault("handler_error")
    /\ Skip(UserSubscription)
    /\ UNCHANGED <<accountVars, contextVars>>

\* OnStockReduceSuccess has five outcomes: ignored, declined for an unknown or a
\* loaded customer, charged, or skipped on an error; it never touches the topics.
LEMMA ConsumerEffect ==
    ASSUME KafkaTypeOK, OnStockReduceSuccess
    PROVE  /\ Reserved \in Orders /\ Reserved \in Published("stock.reduction.success")
           /\ \/ Ignores(Reserved, Customer[Reserved])
              \/ Declines(Reserved, tracked)
              \/ /\ users[Customer[Reserved]] # NoRow
                 /\ Declines(Reserved, Loaded(Customer[Reserved]))
              \/ Charges(Reserved, Customer[Reserved])
              \/ Skips
           /\ UNCHANGED <<log, sending>>
<1>1. Reserved \in Orders /\ Reserved \in Published("stock.reduction.success")
  BY RecordIsPublished, UserSubscriptionIsOne DEF OnStockReduceSuccess, Reserved
<1> DEFINE o == Reserved
           u == Customer[o]
<1>2. UNCHANGED <<log, sending>>
  BY DEF OnStockReduceSuccess
<1>3. \/ EnqueuePaymentFailed(o, tracked)
      \/ users[u] # NoRow /\ DecreaseWallet(o, u, Loaded(u))
      \/ Skips
  BY DEF OnStockReduceSuccess, Reserved, Skips, Loaded
<1> HIDE DEF o, u
<1>4. ASSUME EnqueuePaymentFailed(o, tracked)
      PROVE  Ignores(o, u) \/ Declines(o, tracked)
  BY <1>4 DEF EnqueuePaymentFailed, Ignores, Declines
<1>5. ASSUME users[u] # NoRow, DecreaseWallet(o, u, Loaded(u))
      PROVE  Ignores(o, u) \/ Declines(o, Loaded(u)) \/ Charges(o, u)
  BY <1>5 DEF DecreaseWallet, EnqueuePaymentFailed, Ignores, Declines, Charges, Charged
<1> QED
  BY <1>1, <1>2, <1>3, <1>4, <1>5 DEF o, u

\* What the consumer tracks are users, and a charge it makes can be paid.
LEMMA EntitiesTyped ==
    ASSUME UserTypeOK, NEW o \in Orders, NEW u \in Users, users[u] # NoRow
    PROVE  /\ Loaded(u) \in Entities
           /\ Loaded(u)[u] # NoRow
           /\ Loaded(u)[u] = Entity(u)
           /\ \A x \in Users \ {u} : Loaded(u)[x] = tracked[x]
           /\ ~(Loaded(u)[u].wallet < Total(o)) =>
                 /\ Charged(o, u) \in Entities
                 /\ Charged(o, u)[u] # NoRow
                 /\ Charged(o, u)[u].wallet = Entity(u).wallet - Total(o)
                 /\ Charged(o, u)[u].password = Entity(u).password
                 /\ \A x \in Users \ {u} : Charged(o, u)[x] = tracked[x]
<1>1. Entity(u) \in UserRows
  BY DEF Entity, UserTypeOK
<1>2. Entity(u) # NoRow
  BY <1>1, UserAssumption
<1>3. Loaded(u) \in Entities /\ Loaded(u)[u] = Entity(u)
      /\ \A x \in Users \ {u} : Loaded(u)[x] = tracked[x]
  BY <1>1 DEF Loaded, Entities, UserTypeOK
<1>4. ASSUME ~(Loaded(u)[u].wallet < Total(o))
      PROVE  /\ Charged(o, u) \in Entities
             /\ Charged(o, u)[u] # NoRow
             /\ Charged(o, u)[u].wallet = Entity(u).wallet - Total(o)
             /\ Charged(o, u)[u].password = Entity(u).password
             /\ \A x \in Users \ {u} : Charged(o, u)[x] = tracked[x]
  <2> DEFINE e == Loaded(u)[u]
             r == [e EXCEPT !.wallet = e.wallet - Total(o)]
  <2>1. e \in UserRows /\ Total(o) \in Nat
    BY <1>1, <1>3, ShopAssumption
  <2>2. e.wallet - Total(o) \in Nat
    BY <1>4, <2>1 DEF UserRows
  <2>3. r \in UserRows /\ r.wallet = e.wallet - Total(o) /\ r.password = e.password
    BY <2>1, <2>2 DEF UserRows
  <2>4. Charged(o, u) = [Loaded(u) EXCEPT ![u] = r]
    BY DEF Charged
  <2> HIDE DEF r
  <2>5. /\ Charged(o, u) \in Entities /\ Charged(o, u)[u] = r
        /\ \A x \in Users \ {u} : Charged(o, u)[x] = tracked[x]
    BY <1>3, <2>3, <2>4 DEF Entities
  <2> QED
    BY <1>3, <2>3, <2>5, UserAssumption
<1> QED
  BY <1>2, <1>3, <1>4

(***************************************************************************)
(* SaveChanges.  What was in the context is saved as a whole, kept for a   *)
(* later SaveChanges, or (the commit failed) forgotten.                    *)
(***************************************************************************)
Saves(entities, modified, rows) ==
    /\ ~BreaksUniqueIndex(rows)
    /\ users' = [u \in Users |-> IF u \in modified THEN entities[u] ELSE users[u]]
    /\ userOutbox' = userOutbox \o rows
    /\ dirty' = {} /\ added' = <<>>
    /\ Done(UserSubscription)

Keeps(modified, rows) ==
    /\ BreaksUniqueIndex(rows) \/ "save_error" \in Faults
    /\ dirty' = modified /\ added' = rows
    /\ Skip(UserSubscription)
    /\ UNCHANGED accountVars

Forgets ==
    /\ "tx_commit_error" \in Faults
    /\ dirty' = {} /\ added' = <<>>
    /\ Skip(UserSubscription)
    /\ UNCHANGED accountVars

\* SaveChanges and the commit store the tracked entities, keep them for later or lose them.
LEMMA SaveEffect ==
    ASSUME UserServiceTypeOK, NEW entities \in Entities, NEW modified, NEW rows \in Seq(PaymentRows),
           modified \subseteq {u \in Users : entities[u] # NoRow},
           SaveAndCommit(entities, modified, rows), log' = log, sending' = sending
    PROVE  /\ UserServiceTypeOK'
           /\ tracked' = entities
           /\ Saves(entities, modified, rows) \/ Keeps(modified, rows) \/ Forgets
<1> USE DEF UserServiceTypeOK
<1>1. \/ Saves(entities, modified, rows) \/ Keeps(modified, rows) \/ Forgets
  BY DEF SaveAndCommit, Saves, Keeps, Forgets, Fault
<1>2. tracked' = entities
  BY DEF SaveAndCommit
<1>3. KafkaTypeOK'
  <2>1. \/ Done(UserSubscription)
        \/ NoFault /\ Skip(UserSubscription)
        \/ \E k \in FaultKinds : Fault(k) /\ Skip(UserSubscription)
    BY DEF SaveAndCommit, FaultKinds
  <2> QED
    BY <2>1, UserSubscriptionIsOne, DoneKeepsTypes
<1>4. UserTypeOK'
  <2>1. CASE Saves(entities, modified, rows)
    <3>1. users' \in [Users -> UserRows \cup {NoRow}]
      BY <2>1 DEF Saves, UserTypeOK, Entities
    <3>2. userOutbox' \in Seq(PaymentRows) /\ DOMAIN userOutbox \subseteq DOMAIN userOutbox'
      BY <2>1 DEF Saves, UserTypeOK
    <3>3. dirty' = {} /\ added' \in Seq(PaymentRows)
      BY <2>1 DEF Saves
    <3> QED
      BY <1>2, <3>1, <3>2, <3>3 DEF UserTypeOK, Entities
  <2>2. CASE Keeps(modified, rows)
    BY <1>2, <2>2 DEF Keeps, UserTypeOK, Entities, accountVars
  <2>3. CASE Forgets
    BY <1>2, <2>3 DEF Forgets, UserTypeOK, Entities, accountVars
  <2> QED
    BY <1>1, <2>1, <2>2, <2>3
<1> QED
  BY <1>1, <1>2, <1>3, <1>4

\* The same for a record that is handled: what the consumer tracks
\* afterwards, and which rows it tries to save.
LEMMA DeclineEffect ==
    ASSUME UserServiceTypeOK, NEW o \in Orders, NEW u \in Users, NEW entities,
           entities = tracked \/ (users[u] # NoRow /\ entities = Loaded(u)),
           Declines(o, entities), log' = log, sending' = sending
    PROVE  LET rows == Append(added, NewMessage("payment.fail", o))
           IN  /\ UserServiceTypeOK'
               /\ rows \in Seq(PaymentRows)
               /\ tracked' = entities
               /\ Saves(entities, dirty, rows) \/ Keeps(dirty, rows) \/ Forgets
<1> DEFINE rows == Append(added, NewMessage("payment.fail", o))
<1>1. NewMessage("payment.fail", o) \in PaymentRows
  BY DEF NewMessage, PaymentRows, PaymentTopics
<1>2. rows \in Seq(PaymentRows)
  BY <1>1, InsertRow DEF UserServiceTypeOK, UserTypeOK
<1>3. entities \in Entities /\ dirty \subseteq {x \in Users : entities[x] # NoRow}
  <2>1. CASE entities = tracked
    BY <2>1 DEF UserServiceTypeOK, UserTypeOK, Entities
  <2>2. CASE users[u] # NoRow /\ entities = Loaded(u)
    BY <2>2, EntitiesTyped DEF UserServiceTypeOK, UserTypeOK
  <2> QED
    BY <2>1, <2>2
<1>4. SaveAndCommit(entities, dirty, rows)
  BY DEF Declines
<1> HIDE DEF rows
<1>5. /\ UserServiceTypeOK'
      /\ tracked' = entities
      /\ Saves(entities, dirty, rows) \/ Keeps(dirty, rows) \/ Forgets
  BY <1>2, <1>3, <1>4, SaveEffect
<1> QED
  BY <1>2, <1>5 DEF rows

\* A charge tracks the smaller wallet together with the payment.success row.
LEMMA ChargeEffect ==
    ASSUME UserServiceTypeOK, NEW o \in Orders, NEW u \in Users,
           Charges(o, u), log' = log, sending' = sending
    PROVE  LET rows == Append(added, NewMessage("payment.success", o))
           IN  /\ UserServiceTypeOK'
               /\ rows \in Seq(PaymentRows)
               /\ tracked' = Charged(o, u)
               /\ \/ Saves(Charged(o, u), dirty \cup {u}, rows)
                  \/ Keeps(dirty \cup {u}, rows)
                  \/ Forgets
<1> DEFINE rows == Append(added, NewMessage("payment.success", o))
           entities == Charged(o, u)
<1>1. NewMessage("payment.success", o) \in PaymentRows
  BY DEF NewMessage, PaymentRows, PaymentTopics
<1>2. rows \in Seq(PaymentRows)
  BY <1>1, InsertRow DEF UserServiceTypeOK, UserTypeOK
<1>3. /\ entities \in Entities /\ entities[u] # NoRow
      /\ \A x \in Users \ {u} : entities[x] = tracked[x]
  BY EntitiesTyped DEF Charges, UserServiceTypeOK
<1>4. SaveAndCommit(entities, dirty \cup {u}, rows)
  BY DEF Charges
<1> HIDE DEF rows, entities
<1>5. dirty \cup {u} \subseteq {x \in Users : entities[x] # NoRow}
  BY <1>3 DEF UserServiceTypeOK, UserTypeOK
<1>6. /\ UserServiceTypeOK'
      /\ tracked' = entities
      /\ Saves(entities, dirty \cup {u}, rows) \/ Keeps(dirty \cup {u}, rows) \/ Forgets
  BY <1>2, <1>3, <1>4, <1>5, SaveEffect
<1> QED
  BY <1>2, <1>6 DEF rows, entities

----------------------------------------------------------------------------
(***************************************************************************)
(* The dispatcher.  Rows change their status and their attempts only, and  *)
(* a row counts as sent only with its event on the topic.                  *)
(***************************************************************************)
Batches == [todo : SUBSET DOMAIN userOutbox, sent : SUBSET DOMAIN userOutbox,
            failed : SUBSET DOMAIN userOutbox]

DispatchRowEffect(i) ==
    /\ i \in DOMAIN userOutbox /\ userOutbox[i] \in PaymentRows
    /\ sending' \in Batches
    /\ log' = log \/ Publish(userOutbox[i].topic, userOutbox[i].order)
    /\ \/ sending'.sent = sending.sent
       \/ /\ sending'.sent = sending.sent \cup {i}
          /\ Publish(userOutbox[i].topic, userOutbox[i].order)

\* The dispatcher counts its oldest row as sent only when it has published it.
LEMMA DispatchRowEffectHolds ==
    ASSUME UserServiceTypeOK, DispatchRow
    PROVE  DispatchRowEffect(Oldest(sending.todo))
<1> DEFINE i == Oldest(sending.todo)
<1>1. sending \in Batches /\ sending.todo # {} /\ DOMAIN userOutbox \subseteq Nat
  BY DEF UserServiceTypeOK, UserTypeOK, Batches, DispatchRow
<1>2. i \in sending.todo
  BY <1>1, OldestIsMember DEF Batches
<1>3. i \in DOMAIN userOutbox /\ userOutbox[i] \in PaymentRows
  BY <1>1, <1>2, RowOfTable DEF UserServiceTypeOK, UserTypeOK, Batches
<1>4. /\ log' = log \/ Publish(userOutbox[i].topic, userOutbox[i].order)
      /\ \/ /\ sending' = [sending EXCEPT !.todo = sending.todo \ {i},
                                          !.sent = sending.sent \cup {i}]
            /\ Publish(userOutbox[i].topic, userOutbox[i].order)
         \/ sending' = [sending EXCEPT !.todo = sending.todo \ {i},
                                       !.failed = sending.failed \cup {i}]
  BY <1>1 DEF DispatchRow, Batches
<1> SUFFICES DispatchRowEffect(i)
  OBVIOUS
<1> HIDE DEF i
<1>5. CASE /\ sending' = [sending EXCEPT !.todo = sending.todo \ {i},
                                        !.sent = sending.sent \cup {i}]
           /\ Publish(userOutbox[i].topic, userOutbox[i].order)
  <2>1. sending' \in Batches /\ sending'.sent = sending.sent \cup {i}
    BY <1>1, <1>3, <1>5 DEF Batches
  <2> QED
    BY <1>3, <1>5, <2>1 DEF DispatchRowEffect
<1>6. CASE sending' = [sending EXCEPT !.todo = sending.todo \ {i},
                                     !.failed = sending.failed \cup {i}]
  <2>1. sending' \in Batches /\ sending'.sent = sending.sent
    BY <1>1, <1>3, <1>6 DEF Batches
  <2> QED
    BY <1>3, <1>4, <2>1 DEF DispatchRowEffect
<1> QED
  BY <1>4, <1>5, <1>6

\* Saving the outcome of a batch.
LEMMA DispatchSaveEffect ==
    ASSUME UserServiceTypeOK, DispatchSave
    PROVE  /\ userOutbox' \in Seq(PaymentRows)
           /\ DOMAIN userOutbox' = DOMAIN userOutbox
           /\ \A i \in DOMAIN userOutbox :
                /\ userOutbox'[i].order = userOutbox[i].order
                /\ userOutbox'[i].topic = userOutbox[i].topic
                /\ userOutbox'[i].status = "Sent" =>
                      userOutbox[i].status = "Sent" \/ i \in sending.sent
           /\ sending' = NoBatch /\ UNCHANGED <<users, contextVars, kafkaVars>>
<1>1. \A i \in DOMAIN userOutbox : userOutbox[i] \in PaymentRows
  BY RowOfTable DEF UserServiceTypeOK, UserTypeOK
<1>2. userOutbox' = [i \in DOMAIN userOutbox |->
          IF i \in sending.sent \cup sending.failed
          THEN [userOutbox[i] EXCEPT !.attempts = @ + 1,
                                     !.status = IF i \in sending.sent THEN "Sent" ELSE "Failed"]
          ELSE userOutbox[i]]
  BY DEF DispatchSave
<1>3. \A i \in DOMAIN userOutbox :
        /\ userOutbox'[i] \in PaymentRows
        /\ userOutbox'[i].order = userOutbox[i].order
        /\ userOutbox'[i].topic = userOutbox[i].topic
        /\ userOutbox'[i].status = "Sent" => userOutbox[i].status = "Sent" \/ i \in sending.sent
  <2> TAKE i \in DOMAIN userOutbox
  <2> DEFINE n == userOutbox[i].attempts + 1
             st == IF i \in sending.sent THEN "Sent" ELSE "Failed"
  <2>1. userOutbox[i] \in PaymentRows /\ n \in Nat /\ st \in {"Sent", "Failed"}
    BY <1>1 DEF PaymentRows
  <2>2. \/ userOutbox'[i] = userOutbox[i]
        \/ userOutbox'[i] = [userOutbox[i] EXCEPT !.attempts = n, !.status = st]
    BY <1>2
  <2>3. st = "Sent" => i \in sending.sent
    OBVIOUS
  <2> HIDE DEF n, st
  <2> QED
    BY <2>1, <2>2, <2>3 DEF PaymentRows
<1>4. userOutbox' \in [DOMAIN userOutbox -> PaymentRows]
  BY <1>2, <1>3
<1>5. userOutbox' \in Seq(PaymentRows) /\ DOMAIN userOutbox' = DOMAIN userOutbox
  BY <1>4, RewriteRows DEF UserServiceTypeOK, UserTypeOK
<1> QED
  BY <1>3, <1>5 DEF DispatchSave

----------------------------------------------------------------------------
\* The service's state stays typed, and it takes no record off a topic.
LEMMA UserTypeStep ==
    ASSUME UserServiceTypeOK, UserStep
    PROVE  /\ UserServiceTypeOK'
           /\ \A t \in Topics : Published(t) \subseteq Published(t)'
<1>0. ASSUME log' = log PROVE \A t \in Topics : Published(t) \subseteq Published(t)'
  BY <1>0 DEF Published
<1>1. ASSUME NEW u \in Users, CreateUser(u)
      PROVE  UserServiceTypeOK' /\ log' = log
  <2>1. [wallet |-> 0, password |-> 0] \in UserRows
    BY DEF UserRows
  <2> QED
    BY <1>1, <2>1 DEF CreateUser, UserServiceTypeOK, UserTypeOK, KafkaTypeOK, contextVars, kafkaVars
<1>2. ASSUME NEW u \in Users, ChangePassword(u)
      PROVE  UserServiceTypeOK' /\ log' = log
  <2>1. users[u] \in UserRows
    BY <1>2 DEF ChangePassword, UserServiceTypeOK, UserTypeOK
  <2>2. UpdatedUser(u) \in UserRows
    BY <2>1 DEF UpdatedUser, UserRows
  <2> QED
    BY <1>2, <2>2 DEF ChangePassword, UserServiceTypeOK, UserTypeOK, KafkaTypeOK, contextVars, kafkaVars
<1>3. CASE OnStockReduceSuccess
  <2>1. PICK o \in Orders :
          /\ \/ Ignores(o, Customer[o])
             \/ Declines(o, tracked)
             \/ users[Customer[o]] # NoRow /\ Declines(o, Loaded(Customer[o]))
             \/ Charges(o, Customer[o])
             \/ Skips
          /\ log' = log /\ sending' = sending
    BY <1>3, ConsumerEffect DEF UserServiceTypeOK
  <2>2. PICK u \in Users : u = Customer[o]
    BY ShopAssumption
  <2> SUFFICES UserServiceTypeOK'
    BY <1>0, <2>1
  <2>3. CASE Ignores(o, u)
    <3>1. KafkaTypeOK'
      BY <2>1, <2>3, DoneKeepsTypes, UserSubscriptionIsOne DEF Ignores, UserServiceTypeOK
    <3>2. \/ tracked' = tracked
          \/ /\ tracked' \in Entities
             /\ \A x \in Users : tracked[x] # NoRow => tracked'[x] # NoRow
      BY <2>3, EntitiesTyped DEF Ignores, UserServiceTypeOK
    <3> QED
      BY <2>1, <2>3, <3>1, <3>2 DEF Ignores, UserServiceTypeOK, UserTypeOK, Entities, accountVars
  <2>4. CASE Declines(o, tracked)
    BY <2>1, <2>4, DeclineEffect, ShopAssumption
  <2>5. CASE users[u] # NoRow /\ Declines(o, Loaded(u))
    BY <2>1, <2>5, DeclineEffect
  <2>6. CASE Charges(o, u)
    BY <2>1, <2>6, ChargeEffect
  <2>7. CASE Skips
    <3>1. \E k \in FaultKinds : Fault(k) /\ Skip(UserSubscription)
      BY <2>7 DEF Skips, FaultKinds
    <3>2. KafkaTypeOK'
      BY <2>1, <3>1, DoneKeepsTypes, UserSubscriptionIsOne DEF UserServiceTypeOK
    <3> QED
      BY <2>1, <2>7, <3>2 DEF Skips, UserServiceTypeOK, UserTypeOK, accountVars, contextVars
  <2> QED
    BY <1>0, <2>1, <2>2, <2>3, <2>4, <2>5, <2>6, <2>7
<1>4. CASE DispatchBegin
  <2> DEFINE Rows == DOMAIN userOutbox
  <2>1. PICK todo \in SUBSET Rows : sending' = [NoBatch EXCEPT !.todo = todo]
    BY <1>4 DEF DispatchBegin, OldestRows
  <2>2. sending' \in Batches
    BY <2>1 DEF NoBatch, Batches
  <2>3. UNCHANGED <<accountVars, contextVars, kafkaVars>>
    BY <1>4 DEF DispatchBegin
  <2> QED
    BY <1>0, <2>2, <2>3 DEF UserServiceTypeOK, UserTypeOK, KafkaTypeOK, Batches,
                          accountVars, contextVars, kafkaVars
<1>5. CASE DispatchRow
  <2>1. PICK i : DispatchRowEffect(i)
    BY <1>5, DispatchRowEffectHolds
  <2>2. /\ log' \in [Topics -> Seq(Orders)]
        /\ \A t \in Topics : Published(t) \subseteq Published(t)'
    <3>1. userOutbox[i].topic \in Topics /\ userOutbox[i].order \in Orders
      BY <2>1, UserSubscriptionIsOne DEF DispatchRowEffect, PaymentRows
    <3>2. log \in [Topics -> Seq(Orders)]
      BY DEF UserServiceTypeOK, KafkaTypeOK
    <3> QED
      BY <1>0, <2>1, <3>1, <3>2, PublishGrows DEF DispatchRowEffect
  <2>3. faults' \in 0..MaxFaults
    BY <1>5, FaultsAssumption DEF DispatchRow, NoFault, Fault, UserServiceTypeOK, KafkaTypeOK
  <2>4. UNCHANGED <<accountVars, contextVars, position, committed>>
    BY <1>5 DEF DispatchRow
  <2>5. sending' \in Batches
    BY <2>1 DEF DispatchRowEffect
  <2> QED
    BY <2>2, <2>3, <2>4, <2>5 DEF UserServiceTypeOK, UserTypeOK, KafkaTypeOK, Batches,
                                 accountVars, contextVars
<1>6. CASE DispatchSave
  <2>1. /\ userOutbox' \in Seq(PaymentRows) /\ DOMAIN userOutbox' = DOMAIN userOutbox
        /\ sending' = NoBatch /\ UNCHANGED <<users, contextVars, kafkaVars>>
    BY <1>6, DispatchSaveEffect
  <2>2. sending' \in Batches'
    BY <2>1 DEF NoBatch, Batches
  <2> QED
    BY <1>0, <2>1, <2>2 DEF UserServiceTypeOK, UserTypeOK, KafkaTypeOK, Batches,
                          contextVars, kafkaVars
<1>7. CASE UserRestart
  <2>1. KafkaTypeOK' /\ log' = log
    BY <1>7, RestartKeepsTypes DEF UserRestart, UserServiceTypeOK
  <2>2. sending' \in Batches'
    BY <1>7 DEF UserRestart, NoBatch, Batches
  <2>3. tracked' \in Entities /\ added' \in Seq(PaymentRows) /\ dirty' = {}
    BY <1>7 DEF UserRestart, NothingTracked, Entities
  <2> QED
    BY <1>0, <1>7, <2>1, <2>2, <2>3 DEF UserRestart, UserServiceTypeOK, UserTypeOK, Batches,
                                    Entities, accountVars
<1> QED
  BY <1>0, <1>1, <1>2, <1>3, <1>4, <1>5, <1>6, <1>7 DEF UserStep

\* Only the dispatcher publishes, and that a row of the outbox.
LEMMA UserPublishes ==
    ASSUME UserServiceTypeOK, UserStep
    PROVE  \/ log' = log
           \/ \E i \in DOMAIN userOutbox : Publish(userOutbox[i].topic, userOutbox[i].order)
<1>1. ASSUME DispatchRow
      PROVE  \/ log' = log
             \/ \E i \in DOMAIN userOutbox : Publish(userOutbox[i].topic, userOutbox[i].order)
  BY <1>1, DispatchRowEffectHolds DEF DispatchRowEffect
<1> QED
  BY <1>1 DEF UserStep, CreateUser, ChangePassword, OnStockReduceSuccess, DispatchBegin,
              DispatchSave, UserRestart, Restart, kafkaVars

----------------------------------------------------------------------------
(***************************************************************************)
(* Published before Sent.  The rows the consumer has not saved yet are     *)
(* Pending, and the rows of the running batch that count as sent are on    *)
(* their topic before the batch is saved.                                  *)
(***************************************************************************)
AddedArePending == \A k \in DOMAIN added : added[k].status = "Pending"

BatchWasPublished ==
    \A i \in sending.sent : userOutbox[i].order \in Published(userOutbox[i].topic)

Publishing == AddedArePending /\ SentWasPublished /\ BatchWasPublished

\* Saving rows puts them behind those that are there.
LEMMA SavedRows ==
    ASSUME UserTypeOK, NEW rows \in Seq(PaymentRows), userOutbox' = userOutbox \o rows
    PROVE  /\ DOMAIN userOutbox \subseteq DOMAIN userOutbox'
           /\ \A i \in DOMAIN userOutbox : userOutbox'[i] = userOutbox[i]
           /\ \A i \in DOMAIN userOutbox' \ DOMAIN userOutbox :
                \E k \in DOMAIN rows : userOutbox'[i] = rows[k] /\ i = Len(userOutbox) + k
<1> DEFINE n == Len(userOutbox)
<1>1. /\ n \in Nat /\ Len(rows) \in Nat /\ Len(userOutbox') = n + Len(rows)
      /\ DOMAIN userOutbox = 1..n /\ DOMAIN rows = 1..Len(rows)
      /\ DOMAIN userOutbox' = 1..(n + Len(rows))
      /\ \A i \in 1..(n + Len(rows)) :
            userOutbox'[i] = IF i <= n THEN userOutbox[i] ELSE rows[i - n]
  BY DEF UserTypeOK
<1> HIDE DEF n
<1>2. ASSUME NEW i \in DOMAIN userOutbox' \ DOMAIN userOutbox
      PROVE  \E k \in DOMAIN rows : userOutbox'[i] = rows[k] /\ i = n + k
  <2>1. i - n \in DOMAIN rows /\ i = n + (i - n) /\ userOutbox'[i] = rows[i - n]
    BY <1>1
  <2> QED
    BY <2>1
<1> QED
  BY <1>1, <1>2 DEF n

\* Rows that are stored pending do not disturb what the dispatcher has sent.
LEMMA PublishingSaves ==
    ASSUME UserServiceTypeOK, Publishing, NEW entities, NEW modified,
           NEW rows \in Seq(PaymentRows), \A k \in DOMAIN rows : rows[k].status = "Pending",
           Saves(entities, modified, rows) \/ Keeps(modified, rows) \/ Forgets,
           log' = log, sending' = sending
    PROVE  Publishing'
<1>1. AddedArePending'
  BY DEF Saves, Keeps, Forgets, AddedArePending
<1>2. CASE Saves(entities, modified, rows)
  <2>1. /\ DOMAIN userOutbox \subseteq DOMAIN userOutbox'
        /\ \A i \in DOMAIN userOutbox : userOutbox'[i] = userOutbox[i]
        /\ \A i \in DOMAIN userOutbox' \ DOMAIN userOutbox : userOutbox'[i].status = "Pending"
    BY <1>2, SavedRows DEF Saves, UserServiceTypeOK
  <2>2. sending.sent \subseteq DOMAIN userOutbox
    BY DEF UserServiceTypeOK, UserTypeOK
  <2>3. \A t : Published(t)' = Published(t)
    BY DEF Published
  <2>4. SentWasPublished'
    BY <2>1, <2>3 DEF Publishing, SentWasPublished
  <2>5. BatchWasPublished'
    BY <2>1, <2>2, <2>3 DEF Publishing, BatchWasPublished
  <2> QED
    BY <1>1, <2>4, <2>5 DEF Publishing
<1>3. CASE UNCHANGED accountVars
  BY <1>1, <1>3 DEF Publishing, SentWasPublished, BatchWasPublished, Published, accountVars
<1> QED
  BY <1>2, <1>3 DEF Keeps, Forgets

\* Every step of the user service keeps the rows marked sent on their topics.
LEMMA PublishingStep ==
    ASSUME UserServiceTypeOK, Publishing, UserStep
    PROVE  Publishing'
<1>0. /\ \A t \in Topics : Published(t) \subseteq Published(t)'
      /\ \A i \in DOMAIN userOutbox : userOutbox[i].topic \in Topics
  <2>1. \A i \in DOMAIN userOutbox : userOutbox[i] \in PaymentRows
    BY RowOfTable DEF UserServiceTypeOK, UserTypeOK
  <2> QED
    BY <2>1, UserTypeStep, UserSubscriptionIsOne DEF PaymentRows
<1>1. CASE userOutbox' = userOutbox /\ sending' = sending /\ added' = added
  <2>1. sending.sent \subseteq DOMAIN userOutbox
    BY DEF UserServiceTypeOK, UserTypeOK
  <2> QED
    BY <1>0, <1>1, <2>1 DEF Publishing, AddedArePending, SentWasPublished, BatchWasPublished
<1>2. CASE OnStockReduceSuccess
  <2>1. PICK o \in Orders :
          /\ \/ Ignores(o, Customer[o])
             \/ Declines(o, tracked)
             \/ users[Customer[o]] # NoRow /\ Declines(o, Loaded(Customer[o]))
             \/ Charges(o, Customer[o])
             \/ Skips
          /\ log' = log /\ sending' = sending
    BY <1>2, ConsumerEffect DEF UserServiceTypeOK
  <2>2. PICK u \in Users : u = Customer[o]
    BY ShopAssumption
  <2>3. CASE Ignores(o, u) \/ Skips
    BY <1>1, <2>1, <2>3 DEF Ignores, Skips, accountVars, contextVars
  <2>4. ASSUME NEW t \in PaymentTopics
        PROVE  \A k \in DOMAIN Append(added, NewMessage(t, o)) :
                  Append(added, NewMessage(t, o))[k].status = "Pending"
    <3>1. added \in Seq(PaymentRows) /\ NewMessage(t, o).status = "Pending"
      BY DEF UserServiceTypeOK, UserTypeOK, NewMessage
    <3>2. NewMessage(t, o) \in PaymentRows
      BY DEF NewMessage, PaymentRows
    <3> QED
      BY <3>1, <3>2, InsertRow DEF Publishing, AddedArePending
  <2>5. ASSUME NEW entities, Declines(o, entities),
               entities = tracked \/ (users[u] # NoRow /\ entities = Loaded(u))
        PROVE  Publishing'
    <3> DEFINE rows == Append(added, NewMessage("payment.fail", o))
    <3>1. /\ rows \in Seq(PaymentRows)
          /\ Saves(entities, dirty, rows) \/ Keeps(dirty, rows) \/ Forgets
      BY <2>1, <2>5, DeclineEffect
    <3>2. \A k \in DOMAIN rows : rows[k].status = "Pending"
      BY <2>4 DEF PaymentTopics
    <3> HIDE DEF rows
    <3> QED
      BY <2>1, <3>1, <3>2, PublishingSaves
  <2>6. CASE Charges(o, u)
    <3> DEFINE rows == Append(added, NewMessage("payment.success", o))
               entities == Charged(o, u)
    <3>1. /\ rows \in Seq(PaymentRows)
          /\ \/ Saves(entities, dirty \cup {u}, rows)
             \/ Keeps(dirty \cup {u}, rows)
             \/ Forgets
      BY <2>1, <2>6, ChargeEffect
    <3>2. \A k \in DOMAIN rows : rows[k].status = "Pending"
      BY <2>4 DEF PaymentTopics
    <3> HIDE DEF rows, entities
    <3> QED
      BY <2>1, <3>1, <3>2, PublishingSaves
  <2> QED
    BY <2>1, <2>2, <2>3, <2>5, <2>6
<1>3. CASE DispatchBegin
  <2>1. sending'.sent = {}
    BY <1>3 DEF DispatchBegin, NoBatch
  <2> QED
    BY <1>3, <2>1 DEF DispatchBegin, Publishing, AddedArePending, SentWasPublished,
                      BatchWasPublished, Published, accountVars, contextVars, kafkaVars
<1>4. CASE DispatchRow
  <2>1. PICK i : DispatchRowEffect(i)
    BY <1>4, DispatchRowEffectHolds
  <2>2. userOutbox' = userOutbox /\ added' = added
    BY <1>4 DEF DispatchRow, accountVars, contextVars
  <2>3. sending'.sent = sending.sent \/ userOutbox[i].order \in Published(userOutbox[i].topic)'
    <3>1. userOutbox[i].topic \in Topics /\ userOutbox[i].order \in Orders
      BY <2>1, UserSubscriptionIsOne DEF DispatchRowEffect, PaymentRows
    <3>2. log \in [Topics -> Seq(Orders)]
      BY DEF UserServiceTypeOK, KafkaTypeOK
    <3>3. PICK t \in Topics, o \in Orders : t = userOutbox[i].topic /\ o = userOutbox[i].order
      BY <3>1
    <3>4. Publish(t, o) => o \in Published(t)'
      BY <3>2, PublishGrows
    <3> QED
      BY <2>1, <2>2, <3>3, <3>4 DEF DispatchRowEffect, Publish, Published
  <2>4. sending.sent \subseteq DOMAIN userOutbox /\ sending'.sent \subseteq sending.sent \cup {i}
    BY <2>1 DEF UserServiceTypeOK, UserTypeOK, DispatchRowEffect
  <2> QED
    BY <1>0, <2>2, <2>3, <2>4 DEF Publishing, AddedArePending, SentWasPublished, BatchWasPublished
<1>5. CASE DispatchSave
  <2>1. /\ DOMAIN userOutbox' = DOMAIN userOutbox
        /\ \A i \in DOMAIN userOutbox :
             /\ userOutbox'[i].order = userOutbox[i].order
             /\ userOutbox'[i].topic = userOutbox[i].topic
             /\ userOutbox'[i].status = "Sent" =>
                   userOutbox[i].status = "Sent" \/ i \in sending.sent
        /\ sending' = NoBatch /\ UNCHANGED <<users, contextVars, kafkaVars>>
    BY <1>5, DispatchSaveEffect
  <2>2. log' = log /\ added' = added /\ sending'.sent = {}
    BY <2>1 DEF NoBatch, contextVars, kafkaVars
  <2> QED
    BY <2>1, <2>2 DEF Publishing, AddedArePending, SentWasPublished, BatchWasPublished, Published
<1>6. CASE UserRestart
  <2>1. userOutbox' = userOutbox /\ added' = <<>> /\ sending'.sent = {} /\ log' = log
    BY <1>6 DEF UserRestart, NoBatch, accountVars, Restart
  <2> QED
    BY <2>1 DEF Publishing, AddedArePending, SentWasPublished, BatchWasPublished, Published
<1> QED
  BY <1>1, <1>2, <1>3, <1>4, <1>5, <1>6
     DEF UserStep, CreateUser, ChangePassword, contextVars, kafkaVars

----------------------------------------------------------------------------
(***************************************************************************)
(* One outcome for an order.  While SaveChanges succeeds the context holds *)
(* nothing unsaved between two records, so every handled record saves the  *)
(* one row it added, and only for an order that has none.                  *)
(***************************************************************************)
ContextIsClean == dirty = {} /\ added = <<>>

OneRowPerOrder ==
    \A i, j \in DOMAIN userOutbox : userOutbox[i].order = userOutbox[j].order => i = j

SavesOne == ContextIsClean /\ OneRowPerOrder

\* The one row that is saved.
NewOutcome(t, o) ==
    LET n == Len(userOutbox) + 1
    IN  /\ DOMAIN userOutbox' = DOMAIN userOutbox \cup {n} /\ n \notin DOMAIN userOutbox
        /\ \A i \in DOMAIN userOutbox : userOutbox'[i] = userOutbox[i]
        /\ userOutbox'[n] = NewMessage(t, o)

\* When saving never fails a handler stores exactly the row it adds, or nothing.
LEMMA OneIsSaved ==
    ASSUME UserServiceTypeOK, SavesOne, "save_error" \notin Faults,
           NEW o \in Orders, NEW t \in PaymentTopics, ~PaymentAlreadyHandled(o),
           NEW entities, NEW modified,
           LET rows == Append(added, NewMessage(t, o))
           IN  Saves(entities, modified, rows) \/ Keeps(modified, rows) \/ Forgets
    PROVE  /\ SavesOne'
           /\ \/ Saves(entities, modified, <<NewMessage(t, o)>>) /\ NewOutcome(t, o)
              \/ Forgets
<1> DEFINE r == NewMessage(t, o)
           rows == <<r>>
<1>1. r \in PaymentRows /\ r.order = o /\ r.topic = t
  BY DEF NewMessage, PaymentRows
<1>2. userOutbox \in Seq(PaymentRows) /\ \A i \in DOMAIN userOutbox : userOutbox[i].order # o
  BY DEF UserServiceTypeOK, UserTypeOK, PaymentAlreadyHandled
<1>3. Saves(entities, modified, rows) \/ Keeps(modified, rows) \/ Forgets
  BY DEF SavesOne, ContextIsClean
<1> HIDE DEF r
<1>4. ~BreaksUniqueIndex(rows)
  <2>1. DOMAIN rows = {1} /\ rows[1] = r
    OBVIOUS
  <2> HIDE DEF rows
  <2> QED
    BY <1>1, <1>2, <2>1 DEF BreaksUniqueIndex, SameKey
<1>5. CASE Saves(entities, modified, rows)
  <2>1. userOutbox' = Append(userOutbox, r)
    BY <1>1, <1>2, <1>5 DEF Saves
  <2>2. NewOutcome(t, o)
    BY <1>1, <1>2, <2>1, InsertRow DEF NewOutcome, r
  <2>3. OneRowPerOrder'
    BY <1>1, <1>2, <2>2 DEF NewOutcome, SavesOne, OneRowPerOrder, r
  <2> QED
    BY <1>5, <2>2, <2>3 DEF SavesOne, ContextIsClean, Saves, r
<1>6. CASE Forgets
  BY <1>6 DEF Forgets, SavesOne, ContextIsClean, OneRowPerOrder, accountVars
<1> QED
  BY <1>3, <1>4, <1>5, <1>6 DEF Keeps

\* What handling a record comes to then; the bookkeeping of wallets and of
\* offsets is argued from this.
CleanlyHandled(o, u) ==
    \/ Ignores(o, u)
    \/ Skips
    \/ /\ ~PaymentAlreadyHandled(o)
       /\ tracked' = tracked \/ (users[u] # NoRow /\ tracked' = Loaded(u))
       /\ \/ Saves(tracked', {}, <<NewMessage("payment.fail", o)>>)
                /\ NewOutcome("payment.fail", o)
          \/ Forgets
    \/ /\ ~PaymentAlreadyHandled(o)
       /\ users[u] # NoRow /\ ~(Loaded(u)[u].wallet < Total(o))
       /\ tracked' = Charged(o, u)
       /\ \/ Saves(tracked', {u}, <<NewMessage("payment.success", o)>>)
                /\ NewOutcome("payment.success", o)
          \/ Forgets

\* When saving never fails no handler leaves rows or entities behind for the next one.
LEMMA HandledCleanly ==
    ASSUME UserServiceTypeOK, SavesOne, "save_error" \notin Faults, OnStockReduceSuccess
    PROVE  /\ SavesOne'
           /\ Reserved \in Orders
           /\ CleanlyHandled(Reserved, Customer[Reserved])
           /\ UNCHANGED <<log, sending>>
<1>1. PICK o \in Orders :
        /\ o = Reserved
        /\ \/ Ignores(o, Customer[o])
           \/ Declines(o, tracked)
           \/ users[Customer[o]] # NoRow /\ Declines(o, Loaded(Customer[o]))
           \/ Charges(o, Customer[o])
           \/ Skips
        /\ log' = log /\ sending' = sending
  BY ConsumerEffect DEF UserServiceTypeOK
<1>2. PICK u \in Users : u = Customer[o]
  BY ShopAssumption
<1>3. ASSUME Ignores(o, u) \/ Skips PROVE SavesOne' /\ CleanlyHandled(o, u)
  BY <1>3 DEF Ignores, Skips, accountVars, contextVars, SavesOne, ContextIsClean,
              OneRowPerOrder, CleanlyHandled
<1>4. ASSUME NEW entities, Declines(o, entities),
             entities = tracked \/ (users[u] # NoRow /\ entities = Loaded(u))
      PROVE  SavesOne' /\ CleanlyHandled(o, u)
  <2> DEFINE rows == Append(added, NewMessage("payment.fail", o))
  <2>1. /\ tracked' = entities
        /\ Saves(entities, {}, rows) \/ Keeps({}, rows) \/ Forgets
    BY <1>1, <1>4, DeclineEffect DEF SavesOne, ContextIsClean
  <2>2. ~PaymentAlreadyHandled(o)
    BY <1>4 DEF Declines
  <2>3. /\ SavesOne'
        /\ \/ /\ Saves(entities, {}, <<NewMessage("payment.fail", o)>>)
              /\ NewOutcome("payment.fail", o)
           \/ Forgets
    BY <2>1, <2>2, OneIsSaved DEF PaymentTopics
  <2> QED
    BY <1>4, <2>1, <2>2, <2>3 DEF CleanlyHandled
<1>5. ASSUME Charges(o, u) PROVE SavesOne' /\ CleanlyHandled(o, u)
  <2> DEFINE rows == Append(added, NewMessage("payment.success", o))
             entities == Charged(o, u)
  <2>1. /\ tracked' = entities
        /\ Saves(entities, {u}, rows) \/ Keeps({u}, rows) \/ Forgets
    BY <1>1, <1>5, ChargeEffect DEF SavesOne, ContextIsClean
  <2>2. /\ ~PaymentAlreadyHandled(o)
        /\ users[u] # NoRow /\ ~(Loaded(u)[u].wallet < Total(o))
    BY <1>5 DEF Charges
  <2> HIDE DEF entities
  <2>3. /\ SavesOne'
        /\ \/ /\ Saves(entities, {u}, <<NewMessage("payment.success", o)>>)
              /\ NewOutcome("payment.success", o)
           \/ Forgets
    BY <2>1, <2>2, OneIsSaved DEF PaymentTopics
  <2> QED
    BY <2>1, <2>2, <2>3 DEF CleanlyHandled, entities
<1>6. SavesOne' /\ CleanlyHandled(o, u)
  BY <1>1, <1>2, <1>3, <1>4, <1>5
<1> QED
  BY <1>1, <1>2, <1>6

\* Nothing else adds rows or touches the consumer's context.
LEMMA OtherUserSteps ==
    ASSUME UserServiceTypeOK, UserStep, ~OnStockReduceSuccess
    PROVE  /\ UNCHANGED <<dirty, added>> \/ (dirty' = {} /\ added' = <<>>)
           /\ tracked' = tracked \/ tracked' = NothingTracked
           /\ DOMAIN userOutbox' = DOMAIN userOutbox
           /\ \A i \in DOMAIN userOutbox : /\ userOutbox'[i].order = userOutbox[i].order
                                           /\ userOutbox'[i].topic = userOutbox[i].topic
<1>1. CASE DispatchSave
  BY <1>1, DispatchSaveEffect DEF contextVars
<1> QED
  BY <1>1 DEF UserStep, CreateUser, ChangePassword, DispatchBegin, DispatchRow, UserRestart,
              accountVars, contextVars

\* Every step of the user service leaves the context clean and one row per order.
LEMMA SavesOneStep ==
    ASSUME UserServiceTypeOK, SavesOne, "save_error" \notin Faults, UserStep
    PROVE  SavesOne'
<1>1. CASE OnStockReduceSuccess
  BY <1>1, HandledCleanly
<1>2. CASE ~OnStockReduceSuccess
  BY <1>2, OtherUserSteps DEF SavesOne, ContextIsClean, OneRowPerOrder
<1> QED
  BY <1>1, <1>2

\* So an order is not both paid and declined.
LEMMA OneRowIsOneOutcome ==
    ASSUME OneRowPerOrder
    PROVE  OnePaymentOutcome
<1>1. ASSUME NEW o \in Paid \cap Declined PROVE FALSE
  <2>1. PICK i \in DOMAIN userOutbox : userOutbox[i].order = o /\ userOutbox[i].topic = "payment.success"
    BY <1>1 DEF Paid, Outcomes
  <2>2. PICK j \in DOMAIN userOutbox : userOutbox[j].order = o /\ userOutbox[j].topic = "payment.fail"
    BY <1>1 DEF Declined, Outcomes
  <2> QED
    BY <2>1, <2>2 DEF OneRowPerOrder
<1> QED
  BY <1>1 DEF OnePaymentOutcome, OneRowPerOrder, SameKey

----------------------------------------------------------------------------
\* An outcome that is saved is the only thing that changes who has paid.
LEMMA NewOutcomeCounts ==
    ASSUME NEW o \in Orders, NEW t \in PaymentTopics, NewOutcome(t, o)
    PROVE  /\ Paid' = IF t = "payment.success" THEN Paid \cup {o} ELSE Paid
           /\ Declined' = IF t = "payment.fail" THEN Declined \cup {o} ELSE Declined
<1> DEFINE n == Len(userOutbox) + 1
<1>1. /\ DOMAIN userOutbox' = DOMAIN userOutbox \cup {n}
      /\ \A i \in DOMAIN userOutbox : userOutbox'[i] = userOutbox[i]
      /\ userOutbox'[n].order = o /\ userOutbox'[n].topic = t
  BY DEF NewOutcome, NewMessage
<1> HIDE DEF n
<1>2. ASSUME NEW x \in Orders, NEW topic \in PaymentTopics
      PROVE  Outcomes(x, topic)' # {} <=> Outcomes(x, topic) # {} \/ (x = o /\ topic = t)
  BY <1>1 DEF Outcomes
<1> QED
  BY <1>2 DEF Paid, Declined, PaymentTopics

\* A step that only marks outbox rows changes no payment outcome.
LEMMA OutcomesStay ==
    ASSUME DOMAIN userOutbox' = DOMAIN userOutbox,
           \A i \in DOMAIN userOutbox : /\ userOutbox'[i].order = userOutbox[i].order
                                        /\ userOutbox'[i].topic = userOutbox[i].topic
    PROVE  Paid' = Paid /\ Declined' = Declined
<1>1. ASSUME NEW x \in Orders, NEW topic
      PROVE  Outcomes(x, topic)' = Outcomes(x, topic)
  BY DEF Outcomes
<1> QED
  BY <1>1 DEF Paid, Declined

\* An order that has been handled is paid or declined.
LEMMA HandledIsDecided ==
    ASSUME UserTypeOK, NEW o \in Orders
    PROVE  PaymentAlreadyHandled(o) <=> o \in Paid \cup Declined
<1>1. \A i \in DOMAIN userOutbox : userOutbox[i] \in PaymentRows
  BY RowOfTable DEF UserTypeOK
<1> QED
  BY <1>1 DEF PaymentAlreadyHandled, Paid, Declined, Outcomes, PaymentRows, PaymentTopics

(***************************************************************************)
(* Whatever fails, outcomes are never taken back, and the orders answered, *)
(* saved or still in the context, are orders whose reservation was read.   *)
(***************************************************************************)
Answered == {userOutbox[i].order : i \in DOMAIN userOutbox}
                \cup {added[k].order : k \in DOMAIN added}

OutcomesGrow == Paid \subseteq Paid' /\ Declined \subseteq Declined'

\* A step that keeps the outbox rows keeps the payment outcomes.
LEMMA RowsStay ==
    ASSUME DOMAIN userOutbox \subseteq DOMAIN userOutbox',
           \A i \in DOMAIN userOutbox : /\ userOutbox'[i].order = userOutbox[i].order
                                        /\ userOutbox'[i].topic = userOutbox[i].topic
    PROVE  OutcomesGrow
<1>1. ASSUME NEW x \in Orders, NEW topic
      PROVE  Outcomes(x, topic) \subseteq Outcomes(x, topic)'
  BY DEF Outcomes
<1> QED
  BY <1>1 DEF Paid, Declined, OutcomesGrow

\* Storing the answer to one order decides that order and no other.
LEMMA AnswerSaved ==
    ASSUME UserServiceTypeOK, NEW o \in Orders, NEW t \in PaymentTopics, NEW entities, NEW modified,
           LET rows == Append(added, NewMessage(t, o))
           IN  Saves(entities, modified, rows) \/ Keeps(modified, rows) \/ Forgets
    PROVE  OutcomesGrow /\ Answered' \subseteq Answered \cup {o}
<1> DEFINE r == NewMessage(t, o)
           rows == Append(added, r)
<1>1. r \in PaymentRows /\ r.order = o
  BY DEF NewMessage, PaymentRows
<1>2. UserTypeOK /\ added \in Seq(PaymentRows)
  BY DEF UserServiceTypeOK, UserTypeOK
<1> HIDE DEF r
<1>3. /\ rows \in Seq(PaymentRows)
      /\ \A k \in DOMAIN rows : rows[k].order = o \/ \E j \in DOMAIN added : rows[k] = added[j]
  BY <1>1, <1>2, InsertRow
<1>4. Saves(entities, modified, rows) \/ Keeps(modified, rows) \/ Forgets
  BY DEF r
<1> HIDE DEF rows
<1>5. CASE Saves(entities, modified, rows)
  <2>1. /\ DOMAIN userOutbox \subseteq DOMAIN userOutbox'
        /\ \A i \in DOMAIN userOutbox : userOutbox'[i] = userOutbox[i]
        /\ \A i \in DOMAIN userOutbox' \ DOMAIN userOutbox :
             \E k \in DOMAIN rows : userOutbox'[i] = rows[k]
    BY <1>2, <1>3, <1>5, SavedRows DEF Saves
  <2>2. OutcomesGrow
    BY <2>1, RowsStay
  <2>3. added' = <<>>
    BY <1>5 DEF Saves
  <2> QED
    BY <1>3, <2>1, <2>2, <2>3 DEF Answered
<1>6. CASE userOutbox' = userOutbox /\ added' \in {rows, <<>>}
  <2>1. OutcomesGrow
    BY <1>6, RowsStay
  <2> QED
    BY <1>3, <1>6, <2>1 DEF Answered
<1> QED
  BY <1>4, <1>5, <1>6 DEF Keeps, Forgets, accountVars

\* Outcomes are never withdrawn, and only reserved orders are decided.
LEMMA AnswersStep ==
    ASSUME UserServiceTypeOK, UserStep
    PROVE  /\ OutcomesGrow
           /\ Answered' \subseteq Answered \cup Published("stock.reduction.success")
<1>1. CASE OnStockReduceSuccess
  <2>1. PICK o \in Orders :
          /\ o \in Published("stock.reduction.success")
          /\ \/ Ignores(o, Customer[o])
             \/ Declines(o, tracked)
             \/ users[Customer[o]] # NoRow /\ Declines(o, Loaded(Customer[o]))
             \/ Charges(o, Customer[o])
             \/ Skips
          /\ log' = log /\ sending' = sending
    BY <1>1, ConsumerEffect DEF UserServiceTypeOK
  <2>2. PICK u \in Users : u = Customer[o]
    BY ShopAssumption
  <2>3. CASE Ignores(o, u) \/ Skips
    <3>1. userOutbox' = userOutbox /\ added' = added
      BY <2>3 DEF Ignores, Skips, accountVars, contextVars
    <3> QED
      BY <3>1, RowsStay DEF Answered
  <2>4. ASSUME NEW entities, Declines(o, entities),
               entities = tracked \/ (users[u] # NoRow /\ entities = Loaded(u))
        PROVE  OutcomesGrow /\ Answered' \subseteq Answered \cup {o}
    <3>1. LET rows == Append(added, NewMessage("payment.fail", o))
          IN  Saves(entities, dirty, rows) \/ Keeps(dirty, rows) \/ Forgets
      BY <2>1, <2>4, DeclineEffect
    <3> QED
      BY <3>1, AnswerSaved DEF PaymentTopics
  <2>5. ASSUME Charges(o, u)
        PROVE  OutcomesGrow /\ Answered' \subseteq Answered \cup {o}
    <3> DEFINE entities == Charged(o, u)
    <3>1. LET rows == Append(added, NewMessage("payment.success", o))
          IN  \/ Saves(entities, dirty \cup {u}, rows)
              \/ Keeps(dirty \cup {u}, rows)
              \/ Forgets
      BY <2>1, <2>5, ChargeEffect
    <3> HIDE DEF entities
    <3> QED
      BY <3>1, AnswerSaved DEF PaymentTopics
  <2> QED
    BY <2>1, <2>2, <2>3, <2>4, <2>5
<1>2. CASE ~OnStockReduceSuccess
  <2>1. OutcomesGrow
    BY <1>2, OtherUserSteps, RowsStay
  <2>2. added' = added \/ added' = <<>>
    BY <1>2, OtherUserSteps
  <2>3. /\ DOMAIN userOutbox' = DOMAIN userOutbox
        /\ \A i \in DOMAIN userOutbox : userOutbox'[i].order = userOutbox[i].order
    BY <1>2, OtherUserSteps
  <2> QED
    BY <2>1, <2>2, <2>3 DEF Answered
<1> QED
  BY <1>1, <1>2

----------------------------------------------------------------------------
(***************************************************************************)
(* Wallets.  While the database's commits succeed and nobody's wallet is   *)
(* overwritten by a change of password, the entity the consumer tracks is  *)
(* the row in the table, so a charge is taken from what is there.          *)
(***************************************************************************)
TrackedIsStored == \A u \in Users : tracked[u] = NoRow \/ tracked[u] = users[u]

RegisteredExist == \A u \in Registered : users[u] # NoRow /\ IsFiniteSet(ChargedCoins(u))

WalletsInStep == TrackedIsStored /\ RegisteredExist /\ WalletConserved

CommitsSucceed == "save_error" \notin Faults /\ "tx_commit_error" \notin Faults

\* No payment, no change of the wallets of those who were there.
LEMMA WalletsStay ==
    ASSUME WalletsInStep, Paid' = Paid, \A u \in Registered : users'[u] = users[u]
    PROVE  RegisteredExist' /\ WalletConserved'
<1>1. \A u : ChargedCoins(u)' = ChargedCoins(u)
  BY DEF ChargedCoins
<1> QED
  BY <1>1 DEF WalletsInStep, RegisteredExist, WalletConserved

\* A charge moves coins from the customer's wallet to the payments.
LEMMA WalletCharged ==
    ASSUME UserServiceTypeOK, WalletsInStep, NEW o \in Orders, NEW u \in Users, u = Customer[o],
           o \notin Paid, Paid' = Paid \cup {o},
           users'[u] # NoRow, users'[u].wallet = users[u].wallet - Total(o),
           \A x \in Users \ {u} : users'[x] = users[x]
    PROVE  RegisteredExist' /\ WalletConserved'
<1> DEFINE coins == {o} \X (1..Total(o))
<1>1. Total(o) \in Nat /\ IsFiniteSet(coins) /\ Cardinality(coins) = Total(o)
  BY ShopAssumption, CountedUnits
<1>2. ASSUME NEW x \in Registered, x # u
      PROVE  /\ users'[x] # NoRow /\ IsFiniteSet(ChargedCoins(x)')
             /\ users'[x].wallet + Cardinality(ChargedCoins(x)') = InitialWallet[x]
  <2>1. ChargedCoins(x)' = ChargedCoins(x)
    BY <1>2 DEF ChargedCoins
  <2>2. users'[x] = users[x]
    BY <1>2, UserAssumption
  <2> QED
    BY <2>1, <2>2 DEF WalletsInStep, RegisteredExist, WalletConserved
<1>3. ASSUME u \in Registered
      PROVE  /\ users'[u] # NoRow /\ IsFiniteSet(ChargedCoins(u)')
             /\ users'[u].wallet + Cardinality(ChargedCoins(u)') = InitialWallet[u]
  <2>1. ChargedCoins(u)' = ChargedCoins(u) \cup coins
    BY DEF ChargedCoins
  <2>2. ChargedCoins(u) \cap coins = {}
    BY DEF ChargedCoins
  <2>3. IsFiniteSet(ChargedCoins(u)) /\ users[u].wallet + Cardinality(ChargedCoins(u)) = InitialWallet[u]
    BY <1>3 DEF WalletsInStep, RegisteredExist, WalletConserved
  <2> HIDE DEF coins
  <2>4. /\ IsFiniteSet(ChargedCoins(u)') /\ Cardinality(ChargedCoins(u)) \in Nat
        /\ Cardinality(ChargedCoins(u)') = Cardinality(ChargedCoins(u)) + Cardinality(coins)
    <3>1. IsFiniteSet(coins)
      BY <1>1
    <3>2. /\ IsFiniteSet(ChargedCoins(u) \cup coins) /\ Cardinality(ChargedCoins(u)) \in Nat
          /\ Cardinality(ChargedCoins(u) \cup coins) = Cardinality(ChargedCoins(u)) + Cardinality(coins)
      BY <2>2, <2>3, <3>1, CountDisjoint
    <3> QED
      BY <2>1, <3>2
  <2>5. users[u].wallet \in Nat
    BY <1>3 DEF WalletsInStep, RegisteredExist, UserServiceTypeOK, UserTypeOK, UserRows
  <2> QED
    BY <1>1, <2>3, <2>4, <2>5
<1> QED
  BY <1>2, <1>3 DEF RegisteredExist, WalletConserved

\* A wallet and the orders it paid for change together.
LEMMA WalletStep ==
    ASSUME UserServiceTypeOK, SavesOne, WalletsInStep, UserStep, CommitsSucceed, MaxPasswords = 0
    PROVE  WalletsInStep'
<1>1. CASE OnStockReduceSuccess
  <2>1. PICK o \in Orders : CleanlyHandled(o, Customer[o])
    BY <1>1, HandledCleanly DEF CommitsSucceed
  <2>2. PICK u \in Users : u = Customer[o]
    BY ShopAssumption
  <2>3. ASSUME tracked' = tracked \/ (users[u] # NoRow /\ tracked' = Loaded(u)),
               users' = users, Paid' = Paid
        PROVE  WalletsInStep'
    <3>1. TrackedIsStored'
      BY <2>3, EntitiesTyped DEF WalletsInStep, TrackedIsStored, Entity, UserServiceTypeOK
    <3> QED
      BY <2>3, <3>1, WalletsStay DEF WalletsInStep
  <2>4. CASE Ignores(o, u)
    <3>1. Paid' = Paid
      BY <2>4, OutcomesStay DEF Ignores, accountVars
    <3> QED
      BY <2>3, <2>4, <3>1 DEF Ignores, accountVars
  <2>5. CASE Skips
    <3>1. Paid' = Paid
      BY <2>5, OutcomesStay DEF Skips, accountVars
    <3> QED
      BY <2>3, <2>5, <3>1 DEF Skips, accountVars, contextVars
  <2>6. CASE /\ tracked' = tracked \/ (users[u] # NoRow /\ tracked' = Loaded(u))
             /\ Saves(tracked', {}, <<NewMessage("payment.fail", o)>>)
             /\ NewOutcome("payment.fail", o)
    <3>1. Paid' = Paid
      BY <2>6, NewOutcomeCounts DEF PaymentTopics
    <3>2. users' = users
      BY <2>6 DEF Saves, UserServiceTypeOK, UserTypeOK
    <3> QED
      BY <2>3, <2>6, <3>1, <3>2
  <2>7. CASE /\ ~PaymentAlreadyHandled(o)
             /\ users[u] # NoRow /\ ~(Loaded(u)[u].wallet < Total(o))
             /\ tracked' = Charged(o, u)
             /\ Saves(tracked', {u}, <<NewMessage("payment.success", o)>>)
             /\ NewOutcome("payment.success", o)
    <3>1. Paid' = Paid \cup {o} /\ o \notin Paid
      BY <2>7, NewOutcomeCounts, HandledIsDecided DEF PaymentTopics, UserServiceTypeOK
    <3>2. /\ tracked'[u] # NoRow
          /\ tracked'[u].wallet = Entity(u).wallet - Total(o)
          /\ \A x \in Users \ {u} : tracked'[x] = tracked[x]
      BY <2>7, EntitiesTyped DEF UserServiceTypeOK
    <3>3. users'[u] = tracked'[u] /\ \A x \in Users \ {u} : users'[x] = users[x]
      BY <2>7 DEF Saves
    <3>4. Entity(u) = users[u]
      BY DEF Entity, WalletsInStep, TrackedIsStored
    <3>5. TrackedIsStored'
      BY <3>2, <3>3 DEF WalletsInStep, TrackedIsStored
    <3>6. RegisteredExist' /\ WalletConserved'
      BY <2>2, <3>1, <3>2, <3>3, <3>4, WalletCharged
    <3> QED
      BY <3>5, <3>6 DEF WalletsInStep
  <2>8. ~Forgets
    BY DEF Forgets, CommitsSucceed
  <2> QED
    BY <2>1, <2>2, <2>4, <2>5, <2>6, <2>7, <2>8 DEF CleanlyHandled
<1>2. CASE ~OnStockReduceSuccess
  <2>1. Paid' = Paid
    BY <1>2, OtherUserSteps, OutcomesStay
  <2>2. tracked' = tracked \/ tracked' = NothingTracked
    BY <1>2, OtherUserSteps
  <2>3. CASE users' = users
    BY <2>1, <2>2, <2>3, WalletsStay DEF WalletsInStep, TrackedIsStored, NothingTracked
  <2>4. ASSUME NEW u \in Users, CreateUser(u) PROVE WalletsInStep'
    <3>1. users[u] = NoRow /\ \A x \in Users \ {u} : users'[x] = users[x]
      BY <2>4 DEF CreateUser
    <3>2. tracked' = tracked
      BY <2>4 DEF CreateUser, contextVars
    <3>3. TrackedIsStored'
      BY <3>1, <3>2 DEF WalletsInStep, TrackedIsStored
    <3>4. \A x \in Registered : users'[x] = users[x]
      BY <3>1, UserAssumption DEF WalletsInStep, RegisteredExist
    <3> QED
      BY <2>1, <3>3, <3>4, WalletsStay DEF WalletsInStep
  <2>5. ASSUME NEW u \in Users, ChangePassword(u) PROVE FALSE
    BY <2>5 DEF ChangePassword, UserServiceTypeOK, UserTypeOK, UserRows
  <2> QED
    BY <1>2, <2>3, <2>4, <2>5 DEF UserStep, DispatchBegin, DispatchRow, DispatchSave,
                                  UserRestart, accountVars
<1> QED
  BY <1>1, <1>2

----------------------------------------------------------------------------
(***************************************************************************)
(* Offsets.  While no handler fails and the group resumes at what it has   *)
(* committed, every record that has been read, committed or not, has led   *)
(* to an outcome.                                                          *)
(***************************************************************************)
ReadIsDecided ==
    /\ committed[UserSubscription] <= position[UserSubscription]
    /\ position[UserSubscription] <= Len(log["stock.reduction.success"])
    /\ \A i \in 1..position[UserSubscription] :
          log["stock.reduction.success"][i] \in Paid \cup Declined

HandlersSucceed ==
    /\ CommitsSucceed
    /\ "handler_error" \notin Faults
    /\ "asp-user-group" \notin LatestReset

\* Records that arrive later leave it so.
LEMMA DecidedUndisturbed ==
    ASSUME KafkaTypeOK, KafkaTypeOK', ReadIsDecided, LogsGrow, Paid \subseteq Paid', Declined \subseteq Declined',
           committed'[UserSubscription] <= position'[UserSubscription],
           position'[UserSubscription] <= position[UserSubscription]
    PROVE  ReadIsDecided'
<1> DEFINE s == UserSubscription
           t == "stock.reduction.success"
<1>1. /\ position[s] \in Nat /\ position'[s] \in Nat /\ log[t] \in Seq(Orders) /\ log'[t] \in Seq(Orders)
      /\ t \in Topics
  BY UserSubscriptionIsOne DEF KafkaTypeOK
<1>2. /\ Len(log[t]) \in Nat /\ Len(log'[t]) \in Nat /\ Len(log[t]) <= Len(log'[t])
      /\ \A i \in 1..Len(log[t]) : log'[t][i] = log[t][i]
  BY <1>1 DEF LogsGrow
<1>3. /\ position[s] <= Len(log[t])
      /\ \A i \in 1..position[s] : log[t][i] \in Paid \cup Declined
  BY DEF ReadIsDecided
<1>4. position'[s] <= Len(log'[t])
  BY <1>1, <1>2, <1>3
<1>5. \A i \in 1..position'[s] : log'[t][i] \in Paid' \cup Declined'
  BY <1>1, <1>2, <1>3
<1> QED
  BY <1>4, <1>5 DEF ReadIsDecided, UserSubscription

\* The record at the position is read with its outcome.
LEMMA DecidedRead ==
    ASSUME KafkaTypeOK, ReadIsDecided, HasRecord(UserSubscription), Done(UserSubscription), log' = log,
           Paid \subseteq Paid', Declined \subseteq Declined', Reserved \in Paid' \cup Declined'
    PROVE  ReadIsDecided'
<1> DEFINE s == UserSubscription
           t == "stock.reduction.success"
<1>1. /\ position[s] \in Nat /\ committed[s] \in Nat /\ log[t] \in Seq(Orders) /\ s \in Subscriptions
      /\ s[2] = t /\ DOMAIN position = Subscriptions /\ DOMAIN committed = Subscriptions
  BY UserSubscriptionIsOne DEF KafkaTypeOK
<1>2. position'[s] = position[s] + 1 /\ (committed'[s] = committed[s] \/ committed'[s] = position[s] + 1)
  BY <1>1 DEF Done, Ack, Skip
<1>3. position[s] < Len(log[t]) /\ Reserved = log[t][position[s] + 1] /\ Len(log[t]) \in Nat
  BY <1>1 DEF HasRecord, Reserved, Record
<1>4. /\ committed[s] <= position[s] /\ position[s] <= Len(log[t])
      /\ \A i \in 1..position[s] : log[t][i] \in Paid \cup Declined
  BY DEF ReadIsDecided
<1>5. committed'[s] <= position'[s] /\ position'[s] <= Len(log'[t])
  BY <1>1, <1>2, <1>3, <1>4
<1>6. \A i \in 1..position'[s] : log'[t][i] \in Paid' \cup Declined'
  <2>1. \A i \in 1..position'[s] : i \in 1..position[s] \/ i = position[s] + 1
    BY <1>1, <1>2
  <2> QED
    BY <1>3, <1>4, <2>1
<1> QED
  BY <1>5, <1>6 DEF ReadIsDecided, UserSubscription

\* The consumer moves past a reservation only once its payment is decided.
LEMMA DecidedStep ==
    ASSUME UserServiceTypeOK, SavesOne, ReadIsDecided, UserStep, HandlersSucceed
    PROVE  ReadIsDecided'
<1> DEFINE s == UserSubscription
<1>0. KafkaTypeOK /\ KafkaTypeOK'
  BY UserTypeStep DEF UserServiceTypeOK
<1>1. CASE OnStockReduceSuccess
  <2>1. HasRecord(UserSubscription) /\ log' = log
    BY <1>1 DEF OnStockReduceSuccess
  <2>2. PICK o \in Orders : o = Reserved /\ CleanlyHandled(o, Customer[o])
    BY <1>1, HandledCleanly DEF HandlersSucceed, CommitsSucceed
  <2>3. CASE Ignores(o, Customer[o])
    <3>1. Paid' = Paid /\ Declined' = Declined
      BY <2>3, OutcomesStay DEF Ignores, accountVars
    <3>2. o \in Paid \cup Declined
      BY <2>3, HandledIsDecided DEF Ignores, UserServiceTypeOK
    <3>3. Done(UserSubscription)
      BY <2>3 DEF Ignores
    <3> QED
      BY <1>0, <2>1, <2>2, <3>1, <3>2, <3>3, DecidedRead
  <2>4. ASSUME NEW entities, NEW modified, NEW t \in PaymentTopics,
               Saves(entities, modified, <<NewMessage(t, o)>>), NewOutcome(t, o)
        PROVE  ReadIsDecided'
    <3>1. Paid \subseteq Paid' /\ Declined \subseteq Declined' /\ o \in Paid' \cup Declined'
      BY <2>4, NewOutcomeCounts DEF PaymentTopics
    <3>2. Done(UserSubscription)
      BY <2>4 DEF Saves
    <3> QED
      BY <1>0, <2>1, <2>2, <3>1, <3>2, DecidedRead
  <2>5. ~Forgets /\ ~Skips
    BY DEF Forgets, Skips, Fault, HandlersSucceed, CommitsSucceed
  <2> QED
    BY <2>2, <2>3, <2>4, <2>5 DEF CleanlyHandled, PaymentTopics
<1>2. CASE ~OnStockReduceSuccess
  <2>1. Paid' = Paid /\ Declined' = Declined
    BY <1>2, OtherUserSteps, OutcomesStay
  <2>2. LogsGrow
    <3>1. \A i \in DOMAIN userOutbox :
            userOutbox[i].topic \in Topics /\ userOutbox[i].order \in Orders
      <4>1. \A i \in DOMAIN userOutbox : userOutbox[i] \in PaymentRows
        BY RowOfTable DEF UserServiceTypeOK, UserTypeOK
      <4> QED
        BY <4>1, UserSubscriptionIsOne DEF PaymentRows
    <3>2. log' = log \/ \E t \in Topics, o \in Orders : Publish(t, o)
      BY <3>1, UserPublishes
    <3> QED
      BY <1>0, <3>2, OffsetsStay DEF KafkaTypeOK
  <2>3. committed'[s] <= position'[s] /\ position'[s] <= position[s]
    <3>1. committed[s] <= position[s] /\ position[s] \in Nat /\ s \in Subscriptions /\ s[1] = "asp-user-group"
      BY <1>0, UserSubscriptionIsOne DEF ReadIsDecided, KafkaTypeOK
    <3>2. CASE UserRestart
      BY <1>0, <3>1, <3>2 DEF UserRestart, Restart, ResumeAt, HandlersSucceed, KafkaTypeOK
    <3>3. CASE UNCHANGED <<position, committed>>
      BY <3>1, <3>3
    <3> QED
      BY <1>2, <3>2, <3>3 DEF UserStep, CreateUser, ChangePassword, DispatchBegin, DispatchRow,
                              DispatchSave, kafkaVars
  <2> QED
    BY <1>0, <2>1, <2>2, <2>3, DecidedUndisturbed
<1> QED
  BY <1>1, <1>2

----------------------------------------------------------------------------
(***************************************************************************)
(* The invariants of the service in its environment: what holds whatever   *)
(* fails, and what holds in addition while certain faults do not happen.   *)
(***************************************************************************)
UserInvariant == UserServiceTypeOK /\ Publishing

OneOutcomeInvariant == UserInvariant /\ SavesOne

WalletInvariant == OneOutcomeInvariant /\ WalletsInStep

OffsetInvariant == OneOutcomeInvariant /\ ReadIsDecided

\* A fresh user service, with no rows and nothing read, satisfies the invariants.
LEMMA UserInvariantsInit ==
    UserServiceInit => WalletInvariant /\ OffsetInvariant
<1> SUFFICES ASSUME UserServiceInit PROVE WalletInvariant /\ OffsetInvariant
  OBVIOUS
<1> USE DEF UserServiceInit, UserInit
<1>1. KafkaTypeOK
  BY FaultsAssumption DEF KafkaInit, KafkaTypeOK
<1>2. \A u \in Registered : u \in Users /\ users[u] \in UserRows /\ users[u].wallet = InitialWallet[u]
  BY UserAssumption DEF UserRows
<1>3. users \in Entities /\ tracked \in Entities
  BY UserAssumption DEF Entities, UserRows, NothingTracked
<1>4. UserServiceTypeOK
  BY <1>1, <1>3 DEF UserServiceTypeOK, UserTypeOK, Entities, NoBatch
<1>5. Publishing
  BY DEF Publishing, AddedArePending, SentWasPublished, BatchWasPublished, NoBatch
<1>6. SavesOne
  BY DEF SavesOne, ContextIsClean, OneRowPerOrder
<1>7. Paid = {} /\ \A u : ChargedCoins(u) = {}
  BY DEF Paid, Outcomes, ChargedCoins
<1>8. IsFiniteSet({}) /\ Cardinality({}) = 0
  BY FS_EmptySet
<1>9. WalletConserved
  <2>1. ASSUME NEW u \in Registered
        PROVE  users[u].wallet + Cardinality(ChargedCoins(u)) = InitialWallet[u]
    <3>1. users[u].wallet \in Nat /\ users[u].wallet = InitialWallet[u]
      BY <1>2 DEF UserRows
    <3>2. Cardinality(ChargedCoins(u)) = 0
      BY <1>7, <1>8
    <3> QED
      BY <3>1, <3>2
  <2> QED
    BY <2>1, Zenon DEF WalletConserved
<1>10. TrackedIsStored /\ RegisteredExist
  <2>1. TrackedIsStored
    BY DEF TrackedIsStored, NothingTracked
  <2>2. ASSUME NEW u \in Registered PROVE users[u] # NoRow /\ IsFiniteSet(ChargedCoins(u))
    <3>1. users[u] # NoRow
      BY <1>2, UserAssumption
    <3> QED
      BY <1>7, <1>8, <3>1
  <2> QED
    BY <2>1, <2>2 DEF RegisteredExist
<1>11. ReadIsDecided
  BY UserSubscriptionIsOne DEF ReadIsDecided, KafkaInit
<1> QED
  BY <1>4, <1>5, <1>6, <1>9, <1>10, <1>11
     DEF WalletInvariant, OffsetInvariant, OneOutcomeInvariant, UserInvariant, WalletsInStep

\* What others publish, and standing still, disturbs none of them.
LEMMA UserUndisturbed ==
    ASSUME UserServiceTypeOK, UNCHANGED userVars, KafkaTypeOK',
           \A t \in Topics : Published(t) \subseteq Published(t)'
    PROVE  /\ UserServiceTypeOK'
           /\ Publishing => Publishing'
           /\ SavesOne => SavesOne'
           /\ WalletsInStep => WalletsInStep'
           /\ Paid' = Paid /\ Declined' = Declined
<1> USE DEF userVars, accountVars, contextVars
<1>1. UserServiceTypeOK'
  BY DEF UserServiceTypeOK, UserTypeOK
<1>2. \A i \in DOMAIN userOutbox : userOutbox[i].topic \in Topics
  <2>1. \A i \in DOMAIN userOutbox : userOutbox[i] \in PaymentRows
    BY RowOfTable DEF UserServiceTypeOK, UserTypeOK
  <2> QED
    BY <2>1, UserSubscriptionIsOne DEF PaymentRows
<1>3. Publishing => Publishing'
  <2>1. sending.sent \subseteq DOMAIN userOutbox
    BY DEF UserServiceTypeOK, UserTypeOK
  <2> QED
    BY <1>2, <2>1 DEF Publishing, AddedArePending, SentWasPublished, BatchWasPublished
<1>4. SavesOne => SavesOne'
  BY DEF SavesOne, ContextIsClean, OneRowPerOrder
<1>5. Paid' = Paid /\ Declined' = Declined
  BY OutcomesStay
<1>6. WalletsInStep => WalletsInStep'
  BY <1>5, WalletsStay DEF WalletsInStep, TrackedIsStored
<1> QED
  BY <1>1, <1>3, <1>4, <1>5, <1>6

\* Steps of the environment, and none.
LEMMA UserEnvironmentEffect ==
    ASSUME KafkaTypeOK, UserEnvironment \/ UNCHANGED userServiceVars
    PROVE  /\ UNCHANGED <<userVars, position, committed>>
           /\ KafkaTypeOK' /\ LogsGrow
           /\ \A t \in Topics : Published(t) \subseteq Published(t)'
<1>1. CASE UserEnvironment
  <2>1. PICK o \in Orders : Publish("stock.reduction.success", o)
    BY <1>1 DEF UserEnvironment
  <2>2. UNCHANGED <<userVars, position, committed, faults>>
    BY <1>1 DEF UserEnvironment
  <2>3. /\ log' \in [Topics -> Seq(Orders)] /\ LogsGrow
        /\ \A t \in Topics : Published(t) \subseteq Published(t)'
    BY <2>1, PublishGrows, OffsetsStay, UserSubscriptionIsOne DEF KafkaTypeOK
  <2> QED
    BY <2>2, <2>3 DEF KafkaTypeOK
<1>2. CASE UNCHANGED userServiceVars
  <2>1. UNCHANGED <<userVars, position, committed, faults, log>>
    BY <1>2 DEF userServiceVars, kafkaVars
  <2>2. LogsGrow
    BY <2>1, OffsetsStay DEF KafkaTypeOK
  <2> QED
    BY <2>1, <2>2 DEF KafkaTypeOK, Published
<1> QED
  BY <1>1, <1>2

\* Every step of the user service keeps the types and what was published.
LEMMA UserInvariantNext ==
    UserInvariant /\ [UserServiceNext]_userServiceVars => UserInvariant'
<1> SUFFICES ASSUME UserInvariant, [UserServiceNext]_userServiceVars PROVE UserInvariant'
  OBVIOUS
<1>1. CASE UserStep
  BY <1>1, UserTypeStep, PublishingStep DEF UserInvariant
<1>2. CASE UserEnvironment \/ UNCHANGED userServiceVars
  BY <1>2, UserEnvironmentEffect, UserUndisturbed DEF UserInvariant, UserServiceTypeOK
<1> QED
  BY <1>1, <1>2 DEF UserServiceNext

\* The types and the published rows are right in every reachable state.
LEMMA UserInvariantHolds == UserServiceSpec => []UserInvariant
<1>1. UserServiceInit => UserInvariant
  BY UserInvariantsInit DEF WalletInvariant, OneOutcomeInvariant
<1> QED
  BY <1>1, UserInvariantNext, PTL DEF UserServiceSpec

\* The user service's state stays typed, whatever fails: in particular no
\* wallet, stored or tracked, is ever overdrawn.
THEOREM UserServiceTypes == UserServiceSpec => []UserServiceTypeOK
<1>1. UserInvariant => UserServiceTypeOK
  BY DEF UserInvariant
<1> QED
  BY <1>1, UserInvariantHolds, PTL

\* A payment outcome is marked Sent only once it is on its topic, although
\* the dispatcher saves a whole batch at a time and may stop before it does.
THEOREM SentRowsArePublished == UserServiceSpec => []SentWasPublished
<1>1. UserInvariant => SentWasPublished
  BY DEF UserInvariant, Publishing
<1> QED
  BY <1>1, UserInvariantHolds, PTL

\* Without save errors every step leaves each order with one outcome at most.
LEMMA OneOutcomeNext ==
    ASSUME "save_error" \notin Faults
    PROVE  OneOutcomeInvariant /\ [UserServiceNext]_userServiceVars => OneOutcomeInvariant'
<1> SUFFICES ASSUME OneOutcomeInvariant, [UserServiceNext]_userServiceVars
             PROVE  OneOutcomeInvariant'
  OBVIOUS
<1>0. UserInvariant'
  BY UserInvariantNext DEF OneOutcomeInvariant
<1>1. CASE UserStep
  BY <1>0, <1>1, SavesOneStep DEF OneOutcomeInvariant, UserInvariant
<1>2. CASE UserEnvironment \/ UNCHANGED userServiceVars
  BY <1>0, <1>2, UserEnvironmentEffect, UserUndisturbed
     DEF OneOutcomeInvariant, UserInvariant, UserServiceTypeOK
<1> QED
  BY <1>1, <1>2 DEF UserServiceNext

\* While SaveChanges succeeds, redelivered and repeated reservations, lost
\* commits and restarts never give an order a second payment outcome.
THEOREM OutcomesAreUnique ==
    ASSUME "save_error" \notin Faults
    PROVE  UserServiceSpec => []OnePaymentOutcome
<1>1. UserServiceInit => OneOutcomeInvariant
  BY UserInvariantsInit DEF WalletInvariant
<1>2. OneOutcomeInvariant /\ [UserServiceNext]_userServiceVars => OneOutcomeInvariant'
  BY OneOutcomeNext
<1>3. OneOutcomeInvariant => OnePaymentOutcome
  BY OneRowIsOneOutcome DEF OneOutcomeInvariant, SavesOne
<1> QED
  BY <1>1, <1>2, <1>3, PTL DEF UserServiceSpec

\* While commits succeed and no password is changed (which overwrites the
\* wallet), what a customer has left and what the customer has paid is what
\* was there, with any number of deliveries of every reservation.
THEOREM WalletsAreConserved ==
    ASSUME CommitsSucceed, MaxPasswords = 0
    PROVE  UserServiceSpec => []WalletConserved
<1>1. UserServiceInit => WalletInvariant
  BY UserInvariantsInit
<1>2. WalletInvariant /\ [UserServiceNext]_userServiceVars => WalletInvariant'
  <2> SUFFICES ASSUME WalletInvariant, [UserServiceNext]_userServiceVars PROVE WalletInvariant'
    OBVIOUS
  <2>0. OneOutcomeInvariant'
    BY OneOutcomeNext DEF WalletInvariant, CommitsSucceed
  <2>1. CASE UserStep
    BY <2>0, <2>1, WalletStep DEF WalletInvariant, OneOutcomeInvariant, UserInvariant
  <2>2. CASE UserEnvironment \/ UNCHANGED userServiceVars
    BY <2>0, <2>2, UserEnvironmentEffect, UserUndisturbed
       DEF WalletInvariant, OneOutcomeInvariant, UserInvariant, UserServiceTypeOK
  <2> QED
    BY <2>1, <2>2 DEF UserServiceNext
<1>3. WalletInvariant => WalletConserved
  BY DEF WalletInvariant, WalletsInStep
<1> QED
  BY <1>1, <1>2, <1>3, PTL DEF UserServiceSpec

\* While handlers and commits succeed and the group starts at the earliest
\* record, no reservation below the committed offset is without an outcome:
\* lost offset commits and restarts lead to repetition, never to a gap.
\* (AutoOffsetReset is Earliest in appsettings.json and Latest in
\* appsettings.Docker.json: a group that restarts before its first commit skips
\* what it has missed under the latter.)
THEOREM NoReservationIsSkipped ==
    ASSUME HandlersSucceed
    PROVE  UserServiceSpec => []CommittedReservationsDecided
<1>1. UserServiceInit => OffsetInvariant
  BY UserInvariantsInit
<1>2. OffsetInvariant /\ [UserServiceNext]_userServiceVars => OffsetInvariant'
  <2> SUFFICES ASSUME OffsetInvariant, [UserServiceNext]_userServiceVars PROVE OffsetInvariant'
    OBVIOUS
  <2>0. OneOutcomeInvariant'
    BY OneOutcomeNext DEF OffsetInvariant, HandlersSucceed, CommitsSucceed
  <2>1. CASE UserStep
    BY <2>0, <2>1, DecidedStep DEF OffsetInvariant, OneOutcomeInvariant, UserInvariant
  <2>2. CASE UserEnvironment \/ UNCHANGED userServiceVars
    <3>1. /\ UNCHANGED <<userVars, position, committed>>
          /\ KafkaTypeOK /\ KafkaTypeOK' /\ LogsGrow
          /\ Paid' = Paid /\ Declined' = Declined
      BY <2>2, UserEnvironmentEffect, UserUndisturbed
         DEF OffsetInvariant, OneOutcomeInvariant, UserInvariant, UserServiceTypeOK
    <3>2. position[UserSubscription] \in Nat
      BY <3>1, UserSubscriptionIsOne DEF KafkaTypeOK
    <3>3. /\ committed'[UserSubscription] <= position'[UserSubscription]
          /\ position'[UserSubscription] <= position[UserSubscription]
      BY <3>1, <3>2 DEF OffsetInvariant, ReadIsDecided
    <3> QED
      BY <2>0, <3>1, <3>3, DecidedUndisturbed DEF OffsetInvariant
  <2> QED
    BY <2>1, <2>2 DEF UserServiceNext
<1>3. OffsetInvariant => CommittedReservationsDecided
  <2> SUFFICES ASSUME OffsetInvariant PROVE CommittedReservationsDecided
    OBVIOUS
  <2>1. committed[UserSubscription] \in Nat /\ position[UserSubscription] \in Nat
    BY UserSubscriptionIsOne DEF OffsetInvariant, OneOutcomeInvariant, UserInvariant,
                                 UserServiceTypeOK, KafkaTypeOK
  <2> QED
    BY <2>1 DEF OffsetInvariant, ReadIsDecided, CommittedReservationsDecided
<1> QED
  BY <1>1, <1>2, <1>3, PTL DEF UserServiceSpec
=============================================================================
