----------------------------- MODULE OrderRepo -----------------------------
(***************************************************************************)
(* The order service at the grain of its SQL statements: CreateOrder and   *)
(* its transaction, GetOrder and ListOrders, which read an order and its   *)
(* items in two statements, and the consumer, whose UpdateStatus reads the *)
(* order in one statement and writes it in another.  The statements are    *)
(* those of the generated client.  Any of them may fail, and the process   *)
(* may die between any two; transactions then disappear.                   *)
(*                                                                         *)
(* Amounts are counted in tenths, so that ten percent of a price is whole. *)
(***************************************************************************)
EXTENDS EntQuery, Avro, FiniteSetsExt

CONSTANTS
    Calls,       \* calls of CreateOrder
    Earlier,     \* those that had been answered at first
    InitDB,      \* the database they had left
    Requests,    \* Requests[c]: what the call may ask for
    SalePrice,   \* the catalogue: the price of each variant it knows
    NewOrder, NewItems, NewEvent,   \* the identifiers uuid.New draws for a call
    Filters,     \* the customer, status and time a reader may list by
    PageSize,    \* the page size a reader asks for
    Watched,     \* the orders clients ask for and other services send events about
    MaxEvents,   \* bound: events for the consumer
    MaxFaults    \* bound: failed statements and restarts

VARIABLES
    db,          \* what is committed
    clock,       \* time.Now, which no two orders share
    call,        \* call[c]: progress of the call and its transaction's own rows
    reader,      \* a client that gets an order or pages through the list
    topic,       \* topic[t]: encoded events, oldest first
    position, committed,   \* the consumer's next record and the committed offset
    update,      \* Nil, or what UpdateStatus is about to write
    faults

vars == <<db, clock, call, reader, topic, position, committed, update, faults>>

OrderTopics == {"stock.reduction.success", "stock.reduction.fail",
                "payment.success", "payment.fail"}

Fault   == faults < MaxFaults /\ faults' = faults + 1
NoFault == UNCHANGED faults

----------------------------------------------------------------------------
(***************************************************************************)
(* CreateOrder.                                                            *)
(***************************************************************************)
NoRows == EmptyDB

\* Every item names a variant the catalogue knows, at the catalogue's price.
ValidRequest(r) ==
    /\ r.items # <<>>
    /\ \A k \in DOMAIN r.items :
           /\ r.items[k].variant \in DOMAIN SalePrice
           /\ SalePrice[r.items[k].variant] = r.items[k].price

LineTotal(line) == line.quantity * line.price

Subtotal(r) ==
    LET sum[n \in 0..Len(r.items)] == IF n = 0 THEN 0 ELSE sum[n - 1] + LineTotal(r.items[n])
    IN  sum[Len(r.items)]

Tax(r)        == Subtotal(r) \div 10
OrderTotal(r) == Subtotal(r) + Tax(r)

EventItems(r) ==
    [k \in DOMAIN r.items |-> [variant_id |-> r.items[k].variant,
                               quantity   |-> r.items[k].quantity,
                               unit_price |-> r.items[k].price]]

\* A builder's setter called for a column and its value.
Call(set) == [op |-> "set", col |-> set[1], val |-> set[2]]

SetOrder(m, set)  == OrderCreateSetter(m, Call(set))
SetItem(m, set)   == ItemCreateSetter(m, Call(set))
SetEvent(m, set)  == EventCreateSetter(m, Call(set))
SetUpdate(m, set) == OrderUpdateOneSetter(m, Call(set))

\* The event of call c's order.
CreatedEvent(c, r, status) ==
    [order_id |-> NewOrder[c], status |-> status, temporary_price |-> OrderTotal(r),
     customer_id |-> r.customer, items |-> EventItems(r)]

\* The statements of OrderRepo.Create for request r of call c, on what its
\* transaction sees.
SaveOrder(view, c, r, now) ==
    LET m ++ set == SetOrder(m, set)
        m == NewOrderMutation("create", Nil)
             ++ <<"customer_id", r.customer>> ++ <<"status", "created">>
             ++ <<"subtotal", Subtotal(r)>> ++ <<"tax", Tax(r)>> ++ <<"shipping_cost", 0>>
             ++ <<"total", OrderTotal(r)>> ++ <<"shipping_address", r.address>>
             ++ <<"billing_address", r.address>>
    IN  OrderCreateSave(view, OrderCreateDefaults(m, now, NewOrder[c]))

ItemCreate(c, line) ==
    LET m ++ set == SetItem(m, set)
    IN  NewItemMutation("create", Nil)
        ++ <<"order", NewOrder[c]>> ++ <<"product_id", line.variant>>
        ++ <<"variant_id", line.variant>> ++ <<"product_name", line.variant>>
        ++ <<"variant_description", line.variant>> ++ <<"unit_price", line.price>>
        ++ <<"quantity", line.quantity>> ++ <<"total_price", LineTotal(line)>>
        ++ <<"image_url", line.variant>>

SaveItems(view, c, r, now) ==
    ItemCreateBulkSave(view, [k \in DOMAIN r.items |->
        ItemCreateDefaults(ItemCreate(c, r.items[k]), now, NewItems[c][k])])

SaveEvent(view, c, r, now) ==
    LET event == CreatedEvent(c, r, view.orders[NewOrder[c]].status)
        m ++ set == SetEvent(m, set)
        m == NewEventMutation("create", Nil)
             ++ <<"aggregate_type", "order">> ++ <<"aggregate_id", NewOrder[c]>>
             ++ <<"event_type", "order.created">>
             ++ <<"payload", writeOrderCreatedEvent(event)>>
    IN  EventCreateSave(view, EventCreateDefaults(m, now, NewEvent[c]))

----------------------------------------------------------------------------
(***************************************************************************)
(* The rows, and what a call of CreateOrder leaves behind.                 *)
(***************************************************************************)
AllRequests == UNION {Requests[c] : c \in Calls}
Variants    == UNION {{r.items[k].variant : k \in DOMAIN r.items} : r \in AllRequests}
Payload(c, r) == writeOrderCreatedEvent(CreatedEvent(c, r, "created"))

OrderRows ==
    [created_at : Nat, updated_at : Nat, customer_id : {r.customer : r \in AllRequests},
     status : StatusValues, subtotal : Int, tax : Int, shipping_cost : Int, total : Int,
     shipping_address : {r.address : r \in AllRequests},
     billing_address : {r.address : r \in AllRequests},
     error_message : {Nil, "no stock", "no money"}]

ItemRows ==
    [created_at : Nat, updated_at : Nat, product_id : Variants, variant_id : Variants,
     product_name : Variants, variant_description : Variants, unit_price : Int,
     quantity : Int, total_price : Int, image_url : Variants, order_items : OrderIDs]

EventRows ==
    [created_at : Nat, updated_at : Nat, aggregate_type : {"order"}, aggregate_id : OrderIDs,
     event_type : {"order.created"}, processed : BOOLEAN,
     payload : UNION {{Payload(c, r) : r \in Requests[c]} : c \in Calls}]

IsDatabase(d) ==
    /\ d = [t \in Tables |-> d[t]]
    /\ d.orders \in [OrderIDs -> OrderRows \cup {Nil}]
    /\ d.order_items \in [ItemIDs -> ItemRows \cup {Nil}]
    /\ d.outbox_events \in [EventIDs -> EventRows \cup {Nil}]

\* The rows of call c and request r: the order, an item for each line, the event.
OrderStored(d, c, r) ==
    LET row == d.orders[NewOrder[c]]
    IN  row # Nil /\ row.customer_id = r.customer /\ row.total = OrderTotal(r)

ItemsStored(d, c, r) ==
    \A k \in DOMAIN NewItems[c] :
        LET row == d.order_items[NewItems[c][k]]
        IN  IF k \in DOMAIN r.items
            THEN /\ row # Nil /\ row.order_items = NewOrder[c]
                 /\ row.variant_id = r.items[k].variant /\ row.quantity = r.items[k].quantity
            ELSE row = Nil

EventStored(d, c, r) ==
    LET row == d.outbox_events[NewEvent[c]]
    IN  row # Nil /\ row.aggregate_id = NewOrder[c] /\ row.payload = Payload(c, r)

Stored(d, c, r) == OrderStored(d, c, r) /\ ItemsStored(d, c, r) /\ EventStored(d, c, r)

\* Every row is one of the calls in C.
RowsOf(d, C) ==
    /\ \A o \in Present(d, "orders") : \E c \in C : o = NewOrder[c]
    /\ \A i \in Present(d, "order_items") : \E c \in C : \E k \in DOMAIN NewItems[c] : i = NewItems[c][k]
    /\ \A e \in Present(d, "outbox_events") : \E c \in C : e = NewEvent[c]

\* uuid.New draws no identifier twice.
ASSUME IdentifiersAssumption ==
    /\ \A c \in Calls : /\ NewOrder[c] \in OrderIDs /\ NewEvent[c] \in EventIDs
                         /\ NewItems[c] \in Seq(ItemIDs)
    /\ \A c, d \in Calls : NewOrder[c] = NewOrder[d] \/ NewEvent[c] = NewEvent[d] => c = d
    /\ \A c, d \in Calls : \A j \in DOMAIN NewItems[c], k \in DOMAIN NewItems[d] :
           NewItems[c][j] = NewItems[d][k] => c = d /\ j = k
    /\ IsFiniteSet(OrderIDs) /\ Watched \subseteq OrderIDs

\* Requests are lists of lines with whole quantities and prices.
ASSUME RequestsAssumption ==
    \A c \in Calls :
        /\ Requests[c] # {}
        /\ \A r \in Requests[c] :
              /\ \E n \in 0..Len(NewItems[c]) : DOMAIN r.items = 1..n
              /\ \A k \in DOMAIN r.items : r.items[k].quantity \in Int /\ r.items[k].price \in Int

\* Nil is neither an identifier nor a number nor a status nor a row.
ASSUME NilAssumption ==
    /\ Nil \notin OrderIDs /\ Nil \notin Int /\ Nil \notin StatusValues
    /\ Nil \notin OrderRows /\ Nil \notin ItemRows /\ Nil \notin EventRows

ASSUME BoundsAssumption == MaxFaults \in Nat /\ MaxEvents \in Nat /\ PageSize \in Int

Idle == [pc |-> "idle", page |-> 0, filter |-> Nil, must |-> {}, seen |-> {},
         total |-> 0, nodes |-> <<>>, shown |-> <<>>]

\* What an earlier call asked for.
FirstRequest(c) == CHOOSE r \in Requests[c] : TRUE

\* The database holds the orders of the earlier calls, created one after the
\* other, with any status.
ASSUME InitDBAssumption ==
    /\ Earlier \subseteq Calls /\ IsFiniteSet(Earlier)
    /\ IsDatabase(InitDB) /\ Constraints(InitDB) /\ RowsOf(InitDB, Earlier)
    /\ \A c \in Earlier : /\ Stored(InitDB, c, FirstRequest(c))
                           /\ InitDB.orders[NewOrder[c]].created_at <= Cardinality(Earlier)
    /\ \A c, d \in Earlier :
           InitDB.orders[NewOrder[c]].created_at = InitDB.orders[NewOrder[d]].created_at => c = d

Init ==
    /\ call = [c \in Calls |-> [pc |-> IF c \in Earlier THEN "created" ELSE "new", mine |-> NoRows,
                               request |-> FirstRequest(c)]]
    /\ db = InitDB
    /\ clock = Cardinality(Earlier) + 1
    /\ reader = Idle
    /\ topic = [t \in OrderTopics |-> <<>>]
    /\ position = [t \in OrderTopics |-> 0]
    /\ committed = [t \in OrderTopics |-> 0]
    /\ update = Nil
    /\ faults = 0

Goto(c, pc, mine) == call' = [call EXCEPT ![c].pc = pc, ![c].mine = mine]

\* The request is checked against the answer of the product service.
CreateOrder(c) ==
    /\ call[c].pc = "new"
    /\ \E r \in Requests[c] :
          \/ /\ NoFault
             /\ call' = [call EXCEPT ![c].pc = IF ValidRequest(r) THEN "order" ELSE "refused",
                                     ![c].request = r]
          \/ Fault /\ Goto(c, "refused", NoRows)      \* GetVariantsByIDs fails
    /\ UNCHANGED <<db, clock, reader, topic, position, committed, update>>

\* The committed rows and the transaction's own.
Own(c) == [t \in Tables |-> [id \in IDs[t] |-> IF call[c].mine[t][id] # Nil
                                               THEN call[c].mine[t][id] ELSE db[t][id]]]

Inserted(new) == [t \in Tables |-> [id \in IDs[t] |-> IF db[t][id] = Nil THEN new[t][id] ELSE Nil]]

\* A statement of the transaction: on an error everything is rolled back.
Statement(c, pc, next, out) ==
    /\ call[c].pc = pc
    /\ \/ NoFault /\ IF out.err = "none" THEN Goto(c, next, Inserted(out.db))
                                         ELSE Goto(c, "failed", NoRows)
       \/ Fault /\ Goto(c, "failed", NoRows)
    /\ clock' = IF pc = "order" THEN clock + 1 ELSE clock
    /\ UNCHANGED <<db, reader, topic, position, committed, update>>

\* Mutant: the order is inserted through the client and not the transaction.
InsertOrderOutside(c) ==
    /\ call[c].pc = "order"
    /\ NoFault
    /\ Goto(c, "items", NoRows)
    /\ db' = SaveOrder(db, c, call[c].request, clock).db
    /\ clock' = clock + 1
    /\ UNCHANGED <<reader, topic, position, committed, update>>

InsertOrder(c) == Statement(c, "order", "items", SaveOrder(Own(c), c, call[c].request, clock))

InsertItems(c) == Statement(c, "items", "event", SaveItems(Own(c), c, call[c].request, clock))

InsertEvent(c) ==
    /\ call[c].pc = "event"
    /\ Statement(c, "event", "commit", SaveEvent(Own(c), c, call[c].request, clock))

\* The commit may fail, with or without having taken place.
CommitOrder(c) ==
    /\ call[c].pc = "commit"
    /\ \/ NoFault /\ db' = Own(c) /\ Goto(c, "get", NoRows)
       \/ Fault /\ db' \in {db, Own(c)} /\ Goto(c, "failed", NoRows)
    /\ UNCHANGED <<clock, reader, topic, position, committed, update>>

\* The order is read back, outside the transaction, for the answer.
AnswerCreate(c) ==
    /\ call[c].pc = "get"
    /\ \/ NoFault /\ \E r \in OrderGet(db, NewOrder[c]) :
                        Goto(c, IF r.err = "none" THEN "created" ELSE "failed", NoRows)
       \/ Fault /\ Goto(c, "failed", NoRows)
    /\ UNCHANGED <<db, clock, reader, topic, position, committed, update>>

----------------------------------------------------------------------------
(***************************************************************************)
(* GetOrder and ListOrders.                                                *)
(***************************************************************************)
ProtoStatus == [created |-> "CREATED", pending_inventory |-> "PENDING_INVENTORY",
                inventory_reserved |-> "INVENTORY_RESERVED",
                inventory_reserved_failed |-> "INVENTORY_RESERVED_FAILED",
                payment_pending |-> "PAYMENT_PENDING",
                payment_completed |-> "PAYMENT_COMPLETED",
                payment_failed |-> "PAYMENT_FAILED", shipping |-> "SHIPPING",
                completed |-> "COMPLETED"]

toProtoOrderStatus(s) == IF s \in DOMAIN ProtoStatus THEN ProtoStatus[s] ELSE "CREATED"

fromProtoOrderStatus(p) ==
    IF \E s \in DOMAIN ProtoStatus : ProtoStatus[s] = p
    THEN CHOOSE s \in DOMAIN ProtoStatus : ProtoStatus[s] = p ELSE "created"

normalizedPage(page) == IF page <= 0 THEN 1 ELSE page

normalizedPageSize(size) == IF size <= 0 THEN 20 ELSE IF size > 100 THEN 100 ELSE size

totalPages(count, size) == IF count = 0 THEN 0 ELSE (count + size - 1) \div size

\* ListOrders takes CREATED, the enumeration's zero, for no condition.
buildListQuery(f) ==
    LET when(given, op, col, val) == IF given THEN <<[op |-> op, col |-> col, val |-> val]>> ELSE <<>>
    IN  when(f.customer # "", "EQ", "customer_id", f.customer)
        \o when(f.status # "CREATED", "EQ", "status", fromProtoOrderStatus(f.status))
        \o when(f.after # Nil, "GT", "created_at", f.after)

\* A client asks for a page of the orders that match: List counts them first.
ListOrders(f) ==
    /\ reader.pc = "idle" \/ (reader.pc = "more" /\ reader.filter = f)
    /\ LET where == buildListQuery(f)
           from  == IF reader.pc = "more" THEN reader
                    ELSE [Idle EXCEPT !.filter = f,
                                      !.must = IF f.status = "CREATED" THEN OrdersWhere(db, where) ELSE {}]
       IN  \E r \in OrderCount(db, [NewQuery EXCEPT !.where = where]) :
              reader' = [from EXCEPT !.pc = "page", !.total = r.count]
    /\ UNCHANGED <<db, clock, call, topic, position, committed, update, faults>>

\* Mutant: the first page is skipped.
PageQueryFromZero(where, page) ==
    [NewQuery EXCEPT !.where = where, !.order = "desc", !.eager = OrderIDs,
                     !.offset = normalizedPage(page) * normalizedPageSize(PageSize),
                     !.limit = normalizedPageSize(PageSize)]

PageQuery(where, page) ==
    [NewQuery EXCEPT !.where = where, !.order = "desc", !.eager = OrderIDs,
                     !.offset = (normalizedPage(page) - 1) * normalizedPageSize(PageSize),
                     !.limit = normalizedPageSize(PageSize)]

Nodes(s) == [k \in DOMAIN s |-> [id |-> s[k], row |-> OrderScan(db.orders[s[k]], {})]]

ReadPage ==
    /\ reader.pc = "page"
    /\ \E s \in OrderQuerySpec(db, PageQuery(buildListQuery(reader.filter), reader.page)) :
          reader' = [reader EXCEPT !.pc = "load", !.nodes = Nodes(s)]
    /\ UNCHANGED <<db, clock, call, topic, position, committed, update, faults>>

\* GetOrder reads the order, then its items.
GetOrder(o) ==
    /\ reader.pc = "idle" /\ o \in Present(db, "orders")
    /\ reader' = [Idle EXCEPT !.pc = "loadOne", !.nodes = Nodes(<<o>>)]
    /\ UNCHANGED <<db, clock, call, topic, position, committed, update, faults>>

ToProtoOrder(node) ==
    [id |-> node.id, status |-> toProtoOrderStatus(node.row.status), total |-> node.row.total,
     was |-> node.row.status,
     items |-> {[variant |-> db.order_items[i].variant_id, quantity |-> db.order_items[i].quantity,
                 item |-> i] : i \in ItemsOf(db, {node.id})}]

\* The items of the orders just read are loaded and the answer is made; a
\* client that lists asks on while the page is full or not the last.
AnswerRead ==
    /\ reader.pc \in {"load", "loadOne"}
    /\ LET size == normalizedPageSize(PageSize)
           page == normalizedPage(reader.page)
           more == \/ Len(reader.nodes) = size
                   \/ page < totalPages(reader.total, size)
       IN  reader' = [reader EXCEPT !.pc    = IF @ = "loadOne" THEN "got"
                                              ELSE IF more THEN "more" ELSE "listed",
                                    !.page  = page + 1,
                                    !.seen  = @ \cup {reader.nodes[k].id : k \in DOMAIN reader.nodes},
                                    !.nodes = <<>>,
                                    !.total = 0,
                                    !.shown = [k \in DOMAIN reader.nodes |->
                                                  ToProtoOrder(reader.nodes[k])]]
    /\ UNCHANGED <<db, clock, call, topic, position, committed, update, faults>>

\* A statement fails and the client is told so.
ReadFails ==
    /\ reader.pc \in {"page", "load", "loadOne"}
    /\ Fault
    /\ reader' = Idle
    /\ UNCHANGED <<db, clock, call, topic, position, committed, update>>

----------------------------------------------------------------------------
(***************************************************************************)
(* The consumer.                                                           *)
(***************************************************************************)
Encoded(t, o) ==
    CASE t = "stock.reduction.fail"    -> writeStockReductionFailedEvent([order_id |-> o, message |-> "no stock"])
      [] t = "stock.reduction.success" -> writeStockReductionSuccessEvent([order_id |-> o, price |-> 1])
      [] t = "payment.fail"            -> writePaymentFailedEvent([order_id |-> o, fail_reason |-> "no money"])
      [] t = "payment.success"         -> writePaymentSuccessEvent([order_id |-> o])

\* Another service sends an event about an order it has heard of: the user
\* service about one whose stock was reserved.
Arrive(t, o) ==
    /\ o \in Present(db, "orders")
    /\ t \in {"payment.success", "payment.fail"} => topic["stock.reduction.success"] # <<>>
    /\ MapThenSumSet(LAMBDA u : Len(topic[u]), OrderTopics) < MaxEvents
    /\ topic' = [topic EXCEPT ![t] = Append(@, Encoded(t, o))]
    /\ UNCHANGED <<db, clock, call, reader, position, committed, update, faults>>

\* What the event asks of UpdateStatus: its order, the new status, the error
\* message if there is one, and the status expected.
HandleStockEvent(id, isSuccess, message) ==
    [order |-> id, message |-> message, expected |-> "created",
     status |-> IF isSuccess THEN "inventory_reserved" ELSE "inventory_reserved_failed"]

HandlePaymentEvent(id, isSuccess, message) ==
    [order |-> id, message |-> message, expected |-> "inventory_reserved",
     status |-> IF isSuccess THEN "payment_completed" ELSE "payment_failed"]

Asked(t, bytes) ==
    CASE t = "stock.reduction.fail" ->
             LET e == DeserializeStockReductionFailedEvent(bytes)
             IN  HandleStockEvent(e.order_id, FALSE, e.message)
      [] t = "stock.reduction.success" ->
             HandleStockEvent(DeserializeStockReductionSuccessEvent(bytes).order_id, TRUE, "")
      [] t = "payment.fail" ->
             LET e == DeserializePaymentFailedEvent(bytes)
             IN  HandlePaymentEvent(e.order_id, FALSE, e.fail_reason)
      [] t = "payment.success" ->
             HandlePaymentEvent(DeserializePaymentSuccessEvent(bytes).order_id, TRUE, "")

Skip(t) == position' = [position EXCEPT ![t] = @ + 1] /\ UNCHANGED committed

\* Mutant: the end of the topic is committed.
AcknowledgeEnd(t) ==
    /\ position' = [position EXCEPT ![t] = @ + 1]
    /\ committed' = [committed EXCEPT ![t] = Len(topic[t])]

Acknowledge(t) ==
    /\ position' = [position EXCEPT ![t] = @ + 1]
    /\ committed' = [committed EXCEPT ![t] = position[t] + 1]

\* Mutant: the status found is not compared with the one expected.
WantsUnguarded(entity, ask) == entity.status # ask.status

Wants(entity, ask) == entity.status # ask.status /\ entity.status = ask.expected

\* The first half of UpdateStatus: read the order and decide.
HandleMessage(t) ==
    /\ update = Nil
    /\ position[t] < Len(topic[t])
    /\ LET ask == Asked(t, topic[t][position[t] + 1])
       IN  \E r \in OrderGet(db, ask.order) :
              \/ /\ NoFault
                 /\ CASE r.err # "none" -> Skip(t) /\ UNCHANGED update
                      [] r.err = "none" /\ ~Wants(r.nodes[1].row, ask) ->
                             Acknowledge(t) /\ UNCHANGED update
                      [] OTHER -> update' = [topic |-> t, ask |-> ask] /\ UNCHANGED <<position, committed>>
              \/ Fault /\ Skip(t) /\ UNCHANGED update
    /\ UNCHANGED <<db, clock, call, reader, topic>>

StatusUpdate(ask) ==
    LET m ++ set == SetUpdate(m, set)
        told == NewOrderMutation("updateOne", ask.order) ++ <<"status", ask.status>>
    IN  IF ask.message = "" THEN told ELSE told ++ <<"error_message", ask.message>>

\* The second half: write the status, and the message if there is one.
WriteStatus ==
    /\ update # Nil
    /\ LET out == OrderUpdateOneSave(db, OrderUpdateDefaults(StatusUpdate(update.ask), clock))
       IN  \/ /\ NoFault
              /\ db' = out.db
              /\ IF out.err = "none" THEN Acknowledge(update.topic) ELSE Skip(update.topic)
           \/ Fault /\ UNCHANGED db /\ Skip(update.topic)
           \/ Fault /\ db' = out.db /\ Skip(update.topic)     \* the offset is not committed
    /\ update' = Nil
    /\ UNCHANGED <<clock, call, reader, topic>>

\* The process dies: calls, transactions and the half-done update are gone.
Crash ==
    /\ Fault
    /\ call' = [c \in Calls |-> IF call[c].pc \in {"new", "refused", "created", "failed"} THEN call[c]
                                ELSE [call[c] EXCEPT !.pc = "failed", !.mine = NoRows]]
    /\ reader' = Idle
    /\ position' = committed
    /\ update' = Nil
    /\ UNCHANGED <<db, clock, topic, committed>>

Next ==
    \/ \E c \in Calls : \/ CreateOrder(c) \/ InsertOrder(c) \/ InsertItems(c) \/ InsertEvent(c)
                        \/ CommitOrder(c) \/ AnswerCreate(c)
    \/ \E f \in Filters : ListOrders(f)
    \/ ReadPage \/ AnswerRead \/ ReadFails
    \/ \E o \in Watched : GetOrder(o)
    \/ \E t \in OrderTopics : HandleMessage(t) \/ \E o \in Watched : Arrive(t, o)
    \/ WriteStatus
    \/ Crash

RepoSpec == Init /\ [][Next]_vars

----------------------------------------------------------------------------
\* The committed rows are rows and satisfy the tables' constraints, calls and
\* readers are in a state of their own, and no offset is committed that was
\* not read.
RepoTypeOK ==
    /\ IsDatabase(db) /\ Constraints(db)
    /\ \A c \in Calls : /\ call[c].pc \in {"new", "order", "items", "event", "commit", "get",
                                           "created", "refused", "failed"}
                         /\ call[c].request \in Requests[c] /\ IsDatabase(call[c].mine)
    /\ reader.pc \in {"idle", "page", "load", "loadOne", "more", "listed", "got"}
    /\ \A t \in OrderTopics : committed[t] <= position[t] /\ position[t] <= Len(topic[t])
    /\ faults \in 0..MaxFaults

CallOf(o) == CHOOSE c \in Calls : NewOrder[c] = o

\* The lines an order was asked for, one by one.
Asks(c) == LET lines == call[c].request.items
           IN  {[variant |-> lines[k].variant, quantity |-> lines[k].quantity,
                 item |-> NewItems[c][k]] : k \in DOMAIN lines}

\* An order is committed with all its items and with exactly one outbox
\* event, from whose bytes a consumer reads the order, its customer, its
\* price and its lines back; and every order a client was told of is there.
\* README.md, "Persists order and initial order.created outbox entry in one
\* atomic database transaction".
OrdersAreWhole ==
    /\ \A o \in Present(db, "orders") :
          LET c      == CallOf(o)
              events == {e \in Present(db, "outbox_events") : db.outbox_events[e].aggregate_id = o}
          IN  /\ {[variant |-> db.order_items[i].variant_id, quantity |-> db.order_items[i].quantity,
                   item |-> i] : i \in ItemsOf(db, {o})} = Asks(c)
              /\ Cardinality(events) = 1
              /\ \A e \in events :
                    DeserializeOrderCreatedEvent(db.outbox_events[e].payload) =
                        [order_id |-> o, status |-> "created", items |-> EventItems(call[c].request),
                         temporary_price |-> db.orders[o].total,
                         customer_id |-> db.orders[o].customer_id]
    /\ \A c \in Calls : call[c].pc = "created" => NewOrder[c] \in Present(db, "orders")

\* No answer shows an order with items missing or with a status it did not
\* have, although orders and items are read by separate statements.
ReadersSeeWholeOrders ==
    \A k \in DOMAIN reader.shown :
        LET v == reader.shown[k]
        IN  v.items = Asks(CallOf(v.id)) /\ fromProtoOrderStatus(v.status) = v.was

\* A client that pages until a page is not full has seen every order that
\* matched when it began, whatever was created meanwhile (without a
\* condition on the status, which may change between two pages).
PagingSkipsNothing == reader.pc = "listed" => reader.must \subseteq reader.seen

StatusOf(o) == IF db.orders[o] = Nil THEN "none" ELSE db.orders[o].status

Lifecycle == INSTANCE OrderLifecycle WITH Orders <- OrderIDs,
                                          status <- [o \in OrderIDs |-> StatusOf(o)]

\* With one consumer, reading and writing in two statements is as good as
\* one step: statuses move along the lifecycle through failures, restarts
\* and repeated events.
StatusesFollowLifecycle == [][Lifecycle!LifecycleNext]_<<[o \in OrderIDs |-> StatusOf(o)]>>
=============================================================================
