---------------------------- MODULE EntBuilders ----------------------------
(***************************************************************************)
(* A program working with the generated client: it opens a builder, calls  *)
(* its methods in any order and executes it, once or more, perhaps inside  *)
(* a transaction it later commits or rolls back.                           *)
(***************************************************************************)
EXTENDS EntQuery, SequencesExt, FiniteSetsExt

CONSTANTS
    InitDB,        \* the database at first
    Filled,        \* Filled[ent]: the calls that set the required columns
    SetterCalls,   \* SetterCalls[ent][kind]: a list of calls of the builder's own methods
    NamedCalls,    \* NamedCalls[ent]: calls of the mutation's methods by column name
    QueryCalls,    \* QueryCalls[ent]: calls of a query builder
    MaxBuilders, MaxCalls, MaxExecs   \* bounds

VARIABLES
    db,        \* what is committed
    tx,        \* the transaction: whether one is open, its database, whether it is aborted
    b,         \* the open builder, or NoBuilder
    clock,     \* time.Now
    result,    \* the last execution's error
    answer,    \* what the last read answered, or Nil
    opened,    \* builders opened so far
    added      \* columns some executed update has added to

vars == <<db, tx, b, clock, result, answer, opened, added>>

\* A call: a method, the column it is about, and its argument.
IsCall(call) == DOMAIN call = {"op", "col", "val"}

\* The methods of the update builders, and those of a mutation by column name.
OrderUpdateMethod(call) ==
    \/ call.op = "set" /\ call.col \in OrderColumns \ {"created_at"}
    \/ call.op = "add" /\ call.col \in OrderAmounts
    \/ call.op = "clear" /\ call.col = "error_message"
    \/ call.op \in {"add", "remove", "clear"} /\ call.col = "items"
    \/ call.op = "where" /\ call.col = ""

ItemUpdateMethod(call) ==
    \/ call.op = "set" /\ call.col \in ItemColumns \ {"created_at"}
    \/ call.op = "add" /\ call.col \in ItemNumbers
    \/ call.op = "clear" /\ call.col \in ItemTexts
    \/ call.op \in {"set", "clear"} /\ call.col = "order" /\ call.val # Nil
    \/ call.op = "where" /\ call.col = ""

EventUpdateMethod(call) ==
    \/ call.op = "set" /\ call.col \in EventColumns \ {"created_at"}
    \/ call.op = "where" /\ call.col = ""

NamedMethod(call) == call.op \in {"set", "add", "clear", "reset"}

\* The methods of the builders of a creation.
OrderCreateMethod(call) ==
    \/ call.op = "set" /\ call.col \in OrderColumns
    \/ call.op = "setID" /\ call.col = "id"
    \/ call.op = "add" /\ call.col = "items"

ItemCreateMethod(call) ==
    \/ call.op = "set" /\ call.col \in ItemColumns \cup {"order"}
    \/ call.op = "setID" /\ call.col = "id"

\* The methods of a query of orders.  PostgreSQL refuses a negative window.
OrderQueryMethod(call) ==
    \/ call.op \in {"where", "order", "with"}
    \/ call.op \in {"limit", "offset"} /\ call.val \in Nat

\* What the columns of an item hold, identifiers being strings, and an argument
\* of their methods.
ItemType == [c \in ItemColumns |-> IF c \in ItemNumbers \cup {"created_at", "updated_at"}
                                   THEN Int ELSE STRING]

IsItemValue(c, v) == v = Nil \/ v \in ItemType[c]

ItemArgument(call) ==
    /\ call.op = "set" /\ call.col \in ItemColumns => IsItemValue(call.col, call.val)
    /\ call.op = "add" => call.val \in Int

\* A program calls methods that there are, with arguments of their types.
ASSUME BuildersAssumption ==
    /\ \A kind \in {"update", "updateOne"} :
          /\ \A k \in DOMAIN SetterCalls.order[kind] : OrderUpdateMethod(SetterCalls.order[kind][k])
          /\ \A k \in DOMAIN SetterCalls.item[kind] : ItemUpdateMethod(SetterCalls.item[kind][k])
          /\ \A k \in DOMAIN SetterCalls.event[kind] : EventUpdateMethod(SetterCalls.event[kind][k])
    /\ \A kind \in {"create", "bulk"} :
          /\ \A k \in DOMAIN SetterCalls.order[kind] : OrderCreateMethod(SetterCalls.order[kind][k])
          /\ \A k \in DOMAIN SetterCalls.item[kind] : ItemCreateMethod(SetterCalls.item[kind][k])
    /\ \A ent \in {"order", "item"}, kind \in {"update", "updateOne"} :
          \A k \in DOMAIN SetterCalls[ent][kind] : IsCall(SetterCalls[ent][kind][k])
    /\ \A k \in DOMAIN Filled.order : OrderCreateMethod(Filled.order[k])
    /\ \A k \in DOMAIN Filled.item : ItemCreateMethod(Filled.item[k])
    /\ \A ent \in {"order", "item", "event"} :
          /\ Filled[ent] \in Seq(Range(Filled[ent]))
          /\ \A k \in DOMAIN NamedCalls[ent] : NamedMethod(NamedCalls[ent][k])

ASSUME ArgumentsAssumption ==
    /\ \A kind \in {"create", "bulk", "update", "updateOne"} :
          \A k \in DOMAIN SetterCalls.item[kind] : ItemArgument(SetterCalls.item[kind][k])
    /\ \A k \in DOMAIN Filled.item : ItemArgument(Filled.item[k])
    /\ \A k \in DOMAIN NamedCalls.item :
          NamedCalls.item[k].val # Mistyped => ItemArgument(NamedCalls.item[k])

ASSUME QueriesAssumption ==
    \A k \in DOMAIN QueryCalls.order : OrderQueryMethod(QueryCalls.order[k])

\* There are finitely many orders; NULL is no number, and no row is Nil.
ASSUME NilAssumption ==
    /\ IsFiniteSet(OrderIDs) /\ Nil \notin Int
    /\ Nil \notin [ItemColumns \cup {"order_items"} -> Int \cup STRING \cup OrderIDs \cup {Nil}]

\* A row the validators let pass, but for the columns added to.
ValidOrder(row, addedTo) ==
    /\ DOMAIN row = OrderColumns
    /\ \A c \in OrderColumns \ addedTo : c # "error_message" => OrderValid(c, row[c])

ValidItem(row, addedTo) ==
    /\ DOMAIN row = ItemColumns \cup {"order_items"}
    /\ \A c \in ItemColumns : IsItemValue(c, row[c]) /\ (row[c] = Nil => c \notin ItemNumbers)
    /\ \A c \in ItemColumns \ addedTo : c \notin Nullable => ItemValid(c, row[c])

\* At first the tables hold what the schema promises.
ASSUME DatabaseAssumption ==
    /\ InitDB = [t \in Tables |-> [id \in IDs[t] |-> InitDB[t][id]]]
    /\ Constraints(InitDB)
    /\ \A id \in Present(InitDB, "orders") : ValidOrder(InitDB.orders[id], {})
    /\ \A id \in Present(InitDB, "order_items") : ValidItem(InitDB.order_items[id], {})

TableOf == [order |-> "orders", item |-> "order_items", event |-> "outbox_events"]
Entities == DOMAIN TableOf

\* The database as the builders see it.
View == IF tx.open THEN tx.db ELSE db

NoBuilder == [kind |-> "none"]

NoTx == [open |-> FALSE, db |-> EmptyDB, aborted |-> FALSE]

Init ==
    /\ db = InitDB /\ tx = NoTx /\ b = NoBuilder /\ clock = 10
    /\ result = "none" /\ answer = Nil /\ opened = 0 /\ added = {}

----------------------------------------------------------------------------
\* Client.Tx; a transactional client cannot open another transaction.
Begin ==
    /\ ~tx.open /\ b = NoBuilder
    /\ opened = 0
    /\ tx' = [open |-> TRUE, db |-> db, aborted |-> FALSE]
    /\ UNCHANGED <<db, b, clock, result, answer, opened, added>>

Commit ==
    /\ tx.open /\ b = NoBuilder
    /\ db' = IF tx.aborted THEN db ELSE tx.db
    /\ tx' = NoTx
    /\ UNCHANGED <<b, clock, result, answer, opened, added>>

Rollback ==
    /\ tx.open /\ b = NoBuilder
    /\ tx' = NoTx
    /\ UNCHANGED <<db, b, clock, result, answer, opened, added>>

NewOf(ent, op, id) ==
    CASE ent = "order" -> NewOrderMutation(op, id)
      [] ent = "item"  -> NewItemMutation(op, id)
      [] ent = "event" -> NewEventMutation(op, id)

Builder(ent, kind, m) ==
    [ent |-> ent, kind |-> kind, ms |-> <<m>>, calls |-> <<>>, start |-> 0, fork |-> 0, first |-> Nil,
     execs |-> 0, before |-> {}, q |-> NewQuery]

Open(builder) ==
    /\ b = NoBuilder /\ opened < MaxBuilders
    /\ b' = builder
    /\ opened' = opened + 1
    /\ answer' = Nil
    /\ UNCHANGED <<db, tx, clock, result, added>>

\* A creation, on which the required columns are set first: all or all but one.
Prepared(builder, calls) ==
    LET ms[n \in 0..Len(calls)] ==
            IF n = 0 THEN builder.ms[1]
            ELSE CASE builder.ent = "order" -> OrderCreateSetter(ms[n - 1], calls[n])
                   [] builder.ent = "item"  -> ItemCreateSetter(ms[n - 1], calls[n])
                   [] builder.ent = "event" -> EventCreateSetter(ms[n - 1], calls[n])
    IN  [builder EXCEPT !.ms = <<ms[Len(calls)]>>, !.calls = calls, !.start = Len(calls)]

OpenCreation(ent, kind) ==
    LET new == Builder(ent, kind, NewOf(ent, kind, Nil))
    IN  \/ Open(Prepared(new, Filled[ent]))
        \/ \E k \in DOMAIN Filled[ent] : Open(Prepared(new, RemoveAt(Filled[ent], k)))

OpenOrder(kind) ==
    \/ kind \in {"create", "bulk"} /\ OpenCreation("order", kind)
    \/ kind = "update" /\ Open(Builder("order", kind, NewOrderMutation(kind, Nil)))
    \/ \E id \in Present(View, "orders") :
          \/ /\ kind = "updateOneID"
             /\ Open([Builder("order", "updateOne", NewOrderMutation("updateOne", id))
                         EXCEPT !.before = {View.orders[id]}])
          \/ /\ kind = "updateOne"     \* the entity is at hand: its row is the old one
             /\ Open([Builder("order", "updateOne",
                              [NewOrderMutation("updateOne", id)
                                  EXCEPT !.loaded = TRUE, !.old = View.orders[id]])
                         EXCEPT !.before = {View.orders[id]}])
    \/ \E id \in OrderIDs :
          /\ kind = "deleteOne"
          /\ Open(Builder("order", kind,
                          [NewOrderMutation(kind, id)
                              EXCEPT !.where = <<[op |-> "EQ", col |-> "id", val |-> id]>>]))

OpenItem(kind) ==
    \/ kind \in {"create", "bulk"} /\ OpenCreation("item", kind)
    \/ kind = "update" /\ Open(Builder("item", kind, NewItemMutation(kind, Nil)))
    \/ \E id \in Present(View, "order_items") :
          /\ kind = "updateOneID"
          /\ Open([Builder("item", "updateOne", NewItemMutation("updateOne", id))
                      EXCEPT !.before = {View.order_items[id]}])
    \/ \E id \in ItemIDs :
          /\ kind = "deleteOne"
          /\ Open(Builder("item", kind,
                          [NewItemMutation(kind, id)
                              EXCEPT !.where = <<[op |-> "EQ", col |-> "id", val |-> id]>>]))

OpenEvent(kind) ==
    \/ kind \in {"create", "bulk"} /\ OpenCreation("event", kind)
    \/ kind = "update" /\ Open(Builder("event", kind, NewEventMutation(kind, Nil)))
    \/ \E id \in Present(View, "outbox_events") :
          /\ kind = "updateOneID"
          /\ Open([Builder("event", "updateOne", NewEventMutation("updateOne", id))
                      EXCEPT !.before = {View.outbox_events[id]}])
    \/ \E id \in EventIDs :
          /\ kind = "deleteOne"
          /\ Open(Builder("event", kind,
                          [NewEventMutation(kind, id)
                              EXCEPT !.where = <<[op |-> "EQ", col |-> "id", val |-> id]>>]))

OpenQuery(ent) == Open([Builder(ent, "query", NewOf(ent, "query", Nil)) EXCEPT !.ms = <<>>])

Discard ==
    /\ b # NoBuilder
    /\ b' = NoBuilder /\ answer' = Nil
    /\ UNCHANGED <<db, tx, clock, result, opened, added>>

----------------------------------------------------------------------------
Setter(ent, kind, m, call) ==
    LET creates == kind \in {"create", "bulk"}
    IN  CASE ent = "order" /\ creates           -> OrderCreateSetter(m, call)
          [] ent = "order" /\ kind = "update"    -> OrderUpdateSetter(m, call)
          [] ent = "order" /\ kind = "updateOne" -> OrderUpdateOneSetter(m, call)
          [] ent = "item"  /\ creates           -> ItemCreateSetter(m, call)
          [] ent = "item"  /\ kind = "update"    -> ItemUpdateSetter(m, call)
          [] ent = "item"  /\ kind = "updateOne" -> ItemUpdateOneSetter(m, call)
          [] ent = "event" /\ creates           -> EventCreateSetter(m, call)
          [] ent = "event" /\ kind = "update"    -> EventUpdateSetter(m, call)
          [] ent = "event" /\ kind = "updateOne" -> EventUpdateOneSetter(m, call)

NamedOrder(m, call) ==
    CASE call.col = "items" -> OrderEdge(m, call)
      [] call.op = "set"    -> OrderSetField(m, call)
      [] call.op = "add"    -> OrderAddField(m, call)
      [] call.op = "clear"  -> OrderClearField(m, call)
      [] OTHER              -> OrderResetField(m, call)

NamedItem(m, call) ==
    CASE call.col = "order" -> ItemEdge(m, call)
      [] call.op = "set"    -> ItemSetField(m, call)
      [] call.op = "add"    -> ItemAddField(m, call)
      [] call.op = "clear"  -> ItemClearField(m, call)
      [] OTHER              -> ItemResetField(m, call)

NamedEvent(m, call) ==
    CASE call.col = "order" -> EventEdge(m, call)
      [] call.op = "set"    -> EventSetField(m, call)
      [] call.op = "reset"  -> EventResetField(m, call)
      [] OTHER              -> EventAddOrClearField(m, call)

Named(ent, m, call) ==
    CASE ent = "order" -> NamedOrder(m, call)
      [] ent = "item"  -> NamedItem(m, call)
      [] ent = "event" -> NamedEvent(m, call)

Called(m, call) ==
    /\ b' = [b EXCEPT !.ms[Len(b.ms)] = m, !.calls = Append(@, call)]
    /\ answer' = Nil
    /\ UNCHANGED <<db, tx, clock, result, opened, added>>

MayCall == b # NoBuilder /\ b.kind \notin {"query", "deleteOne"} /\ Len(b.calls) < b.start + MaxCalls

CallSetter ==
    /\ MayCall
    /\ \E k \in DOMAIN SetterCalls[b.ent][b.kind] :
          LET call == SetterCalls[b.ent][b.kind][k]
          IN  Called(Setter(b.ent, b.kind, b.ms[Len(b.ms)], call), call)

\* A call by name that answers with an error leaves the mutation alone.
CallNamed ==
    /\ MayCall
    /\ \E k \in DOMAIN NamedCalls[b.ent] :
          LET call == NamedCalls[b.ent][k]
              m    == Named(b.ent, b.ms[Len(b.ms)], call)
          IN  Called(IF m = Nil THEN b.ms[Len(b.ms)] ELSE m, call)

\* Another builder for the same CreateBulk, made as the first was.
MoreBulk ==
    /\ b # NoBuilder /\ b.kind = "bulk" /\ Len(b.ms) < 2
    /\ b' = [b EXCEPT !.ms = Append(@, @[1]), !.fork = Len(b.calls)]
    /\ UNCHANGED <<db, tx, clock, result, answer, opened, added>>

----------------------------------------------------------------------------
Defaults(ent, kind, m, id) ==
    LET creates == kind \in {"create", "bulk"}
        updates == kind \in {"update", "updateOne"}
    IN  CASE ent = "order" /\ creates -> OrderCreateDefaults(m, clock, id)
          [] ent = "order" /\ updates -> OrderUpdateDefaults(m, clock)
          [] ent = "item"  /\ creates -> ItemCreateDefaults(m, clock, id)
          [] ent = "item"  /\ updates -> ItemUpdateDefaults(m, clock)
          [] ent = "event" /\ creates -> EventCreateDefaults(m, clock, id)
          [] ent = "event" /\ updates -> EventUpdateDefaults(m, clock)
          [] kind = "deleteOne"       -> m

ExecOf(ent, kind, ms) ==
    LET m == ms[1]
    IN  CASE ent = "order" /\ kind = "create"    -> OrderCreateSave(View, m)
          [] ent = "order" /\ kind = "bulk"      -> OrderCreateBulkSave(View, ms)
          [] ent = "order" /\ kind = "update"    -> OrderUpdateSave(View, m)
          [] ent = "order" /\ kind = "updateOne" -> OrderUpdateOneSave(View, m)
          [] ent = "order" /\ kind = "deleteOne" -> OrderDeleteOneExec(View, m)
          [] ent = "item"  /\ kind = "create"    -> ItemCreateSave(View, m)
          [] ent = "item"  /\ kind = "bulk"      -> ItemCreateBulkSave(View, ms)
          [] ent = "item"  /\ kind = "update"    -> ItemUpdateSave(View, m)
          [] ent = "item"  /\ kind = "updateOne" -> ItemUpdateOneSave(View, m)
          [] ent = "item"  /\ kind = "deleteOne" -> ItemDeleteOneExec(View, m)
          [] ent = "event" /\ kind = "create"    -> EventCreateSave(View, m)
          [] ent = "event" /\ kind = "bulk"      -> EventCreateBulkSave(View, ms)
          [] ent = "event" /\ kind = "update"    -> EventUpdateSave(View, m)
          [] ent = "event" /\ kind = "updateOne" -> EventUpdateOneSave(View, m)
          [] ent = "event" /\ kind = "deleteOne" -> EventDeleteOneExec(View, m)

AddedFields(ent, m) ==
    CASE ent = "order" -> OrderAddedFields(m)
      [] ent = "item"  -> ItemAddedFields(m)
      [] ent = "event" -> {}

\* An aborted transaction refuses every statement.
Answered(out) == IF tx.open /\ tx.aborted /\ out.err # "check" THEN Outcome("sql", View) ELSE out

\* Save and Exec: defaults stay in the builder, whatever happens next.
Exec(ids) ==
    LET ms  == [k \in DOMAIN b.ms |-> Defaults(b.ent, b.kind, b.ms[k], ids[k])]
        out == Answered(ExecOf(b.ent, b.kind, ms))
        ok  == out.err = "none"
    IN  /\ b' = [b EXCEPT !.ms = [k \in DOMAIN ms |->
                                     [ms[k] EXCEPT !.done = @ \/ ok \/ b.kind = "deleteOne"]],
                          !.execs = @ + 1,
                          !.before = IF @ = {} \/ ok \/ b.ms[1].done THEN @
                                     ELSE @ \cup {out.db[TableOf[b.ent]][b.ms[1].id]},
                          !.first = IF @ = Nil THEN clock ELSE @]
        /\ IF tx.open
           THEN tx' = [tx EXCEPT !.db = out.db, !.aborted = @ \/ out.err = "sql"] /\ UNCHANGED db
           ELSE db' = (IF ok THEN out.db ELSE db) /\ UNCHANGED tx
        /\ result' = out.err
        /\ added' = IF b.kind \in {"update", "updateOne"}
                    THEN added \cup AddedFields(b.ent, ms[1]) ELSE added
        /\ clock' = clock + 1
        /\ answer' = Nil
        /\ UNCHANGED opened

Save ==
    /\ b # NoBuilder /\ b.kind # "query" /\ b.execs < MaxExecs
    /\ IF b.kind \in {"create", "bulk"}
       THEN \E ids \in [DOMAIN b.ms -> IDs[TableOf[b.ent]] \ Present(View, TableOf[b.ent])] :
               /\ \A j, k \in DOMAIN ids : j # k => ids[j] # ids[k]
               /\ Exec(ids)
       ELSE Exec([k \in DOMAIN b.ms |-> Nil])

\* A hook, or the program, asks an update of one row for a column's old value.
AskOld ==
    /\ b # NoBuilder /\ b.kind = "updateOne"
    /\ LET m == b.ms[1]
           old == CASE b.ent = "order" -> OrderOld(View, m)
                    [] b.ent = "item"  -> ItemOld(View, m)
                    [] b.ent = "event" -> EventOld(View, m)
       IN  /\ b' = [b EXCEPT !.ms[1] = old]
           /\ answer' = [how |-> "old",
                         row |-> [c \in DOMAIN m.set |->
                                     CASE b.ent = "order" -> OrderOldField(View, m, c)
                                       [] b.ent = "item"  -> ItemOldField(View, m, c)
                                       [] b.ent = "event" -> EventOldField(View, m, c)]]
    /\ UNCHANGED <<db, tx, clock, result, opened, added>>

----------------------------------------------------------------------------
CallQuery ==
    /\ b # NoBuilder /\ b.kind = "query" /\ Len(b.calls) < MaxCalls /\ b.execs = 0
    /\ \E k \in DOMAIN QueryCalls[b.ent] :
          LET call == QueryCalls[b.ent][k] IN
          b' = [b EXCEPT !.calls = Append(@, call),
                         !.q = CASE call.op = "with" /\ b.ent = "order" -> OrderWithItems(@)
                                 [] call.op = "with" /\ b.ent = "item"  -> ItemWithOrder(@)
                                 [] call.op = "of"   /\ b.ent = "item"  ->
                                        OrderQueryItems(OrderQuerySetter(NewQuery, call.val))
                                 [] call.op \notin {"with", "of"} -> OrderQuerySetter(@, call)]
    /\ answer' = Nil
    /\ UNCHANGED <<db, tx, clock, result, opened, added>>

Answers(ent, how, q) ==
    CASE ent = "order" /\ how = "all"   -> OrderAll(View, q)
      [] ent = "order" /\ how = "first" -> OrderFirst(View, q)
      [] ent = "order" /\ how = "only"  -> OrderOnly(View, q)
      [] ent = "order" /\ how = "ids"   -> OrderQueryIDs(View, q)
      [] ent = "order" /\ how = "exist" -> OrderExist(View, q)
      [] ent = "order" /\ how = "count" -> OrderCount(View, q)
      [] ent = "item"  /\ how = "all"   -> ItemAll(View, q)
      [] ent = "event" /\ how = "all"   -> EventAll(View, q)

Ask ==
    /\ b # NoBuilder /\ b.kind = "query" /\ b.execs < MaxExecs
    /\ tx.open => ~tx.aborted
    /\ \E how \in IF b.ent = "order" THEN {"all", "first", "only", "ids", "exist", "count"}
                                     ELSE {"all"},
          clone \in BOOLEAN :
          \E r \in Answers(b.ent, how, IF clone THEN OrderClone(b.q) ELSE b.q) :
             /\ b' = [b EXCEPT !.q = IF clone THEN @ ELSE r.q,
                               !.execs = IF clone THEN @ ELSE @ + 1]
             /\ answer' = [how |-> how, q |-> b.q, fresh |-> b.execs = 0,
                           err |-> r.err, nodes |-> r.nodes, count |-> r.count]
    /\ UNCHANGED <<db, tx, clock, result, opened, added>>

Next ==
    \/ Begin \/ Commit \/ Rollback
    \/ \E kind \in {"create", "bulk", "update", "updateOne", "updateOneID", "deleteOne"} :
          OpenOrder(kind) \/ OpenItem(kind) \/ OpenEvent(kind)
    \/ \E ent \in Entities : OpenQuery(ent)
    \/ CallSetter \/ CallNamed \/ MoreBulk \/ Save \/ AskOld
    \/ CallQuery \/ Ask
    \/ Discard

BuildersSpec == Init /\ [][Next]_vars

----------------------------------------------------------------------------
(***************************************************************************)
(* What the calls of a builder amount to, read off the list of calls and   *)
(* not off the mutation they leave behind.                                 *)
(***************************************************************************)
Numbers == OrderAmounts \cup ItemNumbers

\* A call counts unless it is SetNillable of nil or answers with an error.
Counts(call) ==
    /\ call.val \notin {Nil, Mistyped}
    /\ call.op = "add"   => call.col \in Numbers
    /\ call.op = "clear" => call.col \in Nullable

LastCall(calls, c, op) ==
    Max({0} \cup {k \in DOMAIN calls : calls[k].col = c /\ calls[k].op = op /\ Counts(calls[k])})

IsSet(calls, c) ==
    LastCall(calls, c, "set") > Max({LastCall(calls, c, "reset"), LastCall(calls, c, "clear")})

IsCleared(calls, c) == LastCall(calls, c, "clear") > LastCall(calls, c, "reset")

\* The increments since the column was last set or reset.
Increments(calls, c) ==
    {k \in DOMAIN calls :
        /\ calls[k].col = c /\ calls[k].op = "add" /\ Counts(calls[k])
        /\ k > Max({LastCall(calls, c, "set"), LastCall(calls, c, "reset")})}

Contradictory(calls, c) ==
    IsSet(calls, c) /\ (IsCleared(calls, c) \/ Increments(calls, c) # {})

Told(calls, row, c) ==
    IF IsSet(calls, c) THEN calls[LastCall(calls, c, "set")].val
    ELSE IF IsCleared(calls, c) THEN Nil
    ELSE IF c \in Numbers
         THEN row[c] + MapThenSumSet(LAMBDA k : calls[k].val, Increments(calls, c))
         ELSE row[c]

\* The row an update leaves: created_at stays, updated_at is the time of the
\* builder's first execution unless it was set.
ToldUpdate(builder, row) ==
    [c \in DOMAIN row |->
        CASE c = "created_at"  -> row[c]
          [] c = "updated_at"  -> IF IsSet(builder.calls, c) THEN Told(builder.calls, row, c)
                                                             ELSE builder.first
          [] c = "order_items" -> IF IsSet(builder.calls, "order")
                                  THEN builder.calls[LastCall(builder.calls, "order", "set")].val
                                  ELSE row[c]
          [] OTHER             -> Told(builder.calls, row, c)]

\* The row a creation leaves: what was set, and the schema's defaults.
ToldCreate(builder, k) ==
    LET calls  == IF k < Len(builder.ms) THEN SubSeq(builder.calls, 1, builder.fork)
                                         ELSE builder.calls
        Col(c) == IF c = "order_items" THEN "order" ELSE c
    IN  [c \in TableColumns[TableOf[builder.ent]] |->
            CASE IsSet(calls, Col(c)) -> calls[LastCall(calls, Col(c), "set")].val
              [] ~IsSet(calls, Col(c)) /\ c \in {"created_at", "updated_at"} -> builder.first
              [] ~IsSet(calls, Col(c)) /\ c = "processed" -> FALSE
              [] ~IsSet(calls, Col(c)) /\ c = "status" -> "created"
              [] ~IsSet(calls, Col(c)) /\ c \in OrderAmounts -> 0
              [] OTHER -> Nil]

\* The rows an update's conditions pick.
Chosen(ent, calls) ==
    LET where == SelectSeq(calls, LAMBDA call : call.op = "where")
        ps    == [k \in DOMAIN where |-> where[k].val]
    IN  CASE ent = "order" -> OrdersWhere(View, ps)
          [] ent = "item"  -> ItemsWhere(View, ps)
          [] ent = "event" -> EventsWhere(View, ps)

Executed == b # NoBuilder /\ b' # NoBuilder /\ b.kind # "query" /\ b'.execs # b.execs

\* The rows of the builder's table.
Table == View[TableOf[b.ent]]

----------------------------------------------------------------------------
\* However its methods were called, and however often it is executed, an
\* update changes exactly the rows it names and every column to what the
\* last word on it was; contradictory words are refused, and a refused
\* execution outside a transaction leaves the database alone.
SavedAsTold ==
    [][Executed =>
         /\ result' # "none" /\ ~tx.open => db' = db
         /\ result' = "none" /\ b.kind = "updateOne" =>
               /\ \A c \in DOMAIN b.ms[1].set : ~Contradictory(b.calls, c)
               /\ Table' = [Table EXCEPT ![b.ms[1].id] = ToldUpdate(b', @)]
         /\ result' = "none" /\ b.kind = "update" =>
               Table' = [id \in DOMAIN Table |-> IF id \in Chosen(b.ent, b.calls)
                                                 THEN ToldUpdate(b', Table[id]) ELSE Table[id]]
         /\ result' = "none" /\ b.kind \in {"create", "bulk"} =>
               /\ \A k \in DOMAIN b'.ms : b'.ms[k].id \notin Present(View, TableOf[b.ent])
               /\ \A id \in DOMAIN Table :
                     Table'[id] # Table[id] => \E k \in DOMAIN b'.ms : b'.ms[k].id = id
               /\ \A k \in DOMAIN b'.ms : Table'[b'.ms[k].id] = ToldCreate(b', k)]_vars

\* Only an increment gets a value past the schema's validators: they look at
\* what is set, and Add sets nothing.
OnlyAddEscapesValidation ==
    /\ \A id \in Present(View, "orders") : \A c \in OrderColumns \ added :
           c # "error_message" => OrderValid(c, View.orders[id][c])
    /\ \A id \in Present(View, "order_items") : \A c \in ItemColumns \ added :
           c \notin Nullable => ItemValid(c, View.order_items[id][c])

\* An old value is one the row had before the builder succeeded, or an
\* error; never what the builder's own successful execution has written.
OldIsBefore ==
    answer # Nil /\ answer.how = "old" =>
        \A c \in DOMAIN answer.row :
            answer.row[c] # Nil => \E row \in b.before : answer.row[c] = row[c]

\* No builder of an order takes an item from another order or leaves it
\* without one: every such save is refused.
ItemsKeepTheirOrder ==
    [][Executed /\ b.ent = "order" => View'.order_items = View.order_items]_vars

\* A query that has not been executed before answers with as many of the
\* matching orders as its window allows, in the order asked for, and each
\* with all its items when they are asked for.
FreshQueriesAnswerInFull ==
    answer # Nil /\ answer.how = "all" /\ answer.fresh /\ b.ent = "order" =>
        LET matching == {id \in Present(View, "orders") :
                            \A k \in DOMAIN answer.q.where : OrderHolds(View, id, answer.q.where[k]) = TRUE}
            skip  == IF answer.q.offset = Nil THEN 0 ELSE answer.q.offset
            left  == Max({0, Cardinality(matching) - skip})
            nodes == answer.nodes
        IN  /\ \A k \in DOMAIN nodes : nodes[k].id \in matching
            /\ \A j, k \in DOMAIN nodes : j # k => nodes[j].id # nodes[k].id
            /\ Len(nodes) = IF answer.q.limit \in {Nil, 0} THEN left ELSE Min({left, answer.q.limit})
            /\ \A j, k \in DOMAIN nodes : j < k /\ answer.q.order = "desc" =>
                   View.orders[nodes[j].id].created_at >= View.orders[nodes[k].id].created_at
            /\ answer.q.eager # Nil =>
                   \A k \in DOMAIN nodes :
                       nodes[k].edge = {i \in Present(View, "order_items") :
                                           View.order_items[i].order_items = nodes[k].id}
=============================================================================
